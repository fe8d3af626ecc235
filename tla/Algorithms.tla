----------------------------- MODULE Algorithms -----------------------------
(***************************************************************************)
(* The computations of the library that keep no state, each checked        *)
(* against what it is for.  The system picks a problem; what the code      *)
(* makes of it is defined by the modules Shapes, QrSymbol, IrProtocols,    *)
(* HttpParsing and Calendar, what it should be by the references here.     *)
(***************************************************************************)
EXTENDS Integers, Sequences, FiniteSets
LOCAL INSTANCE SequencesExt
LOCAL INSTANCE FiniteSetsExt
S == INSTANCE Shapes
Q == INSTANCE QrSymbol
I == INSTANCE IrProtocols
H == INSTANCE HttpParsing
C == INSTANCE Calendar

CONSTANT Reach       (* how far the problems about shapes reach, in pixels *)
ASSUME ReachAssumption == Reach \in Nat \ {0}

VARIABLE problem     (* of: what is computed; args: from what, once posed  *)
vars == problem

Strings(symbols, lengths) == UNION {[1 .. n -> symbols] : n \in lengths}

-----------------------------------------------------------------------------
(* The problems.  The value sent by a remote control repeats six bits, so  *)
(* that every short run of bits occurs in some value.                      *)
Senders == [NEC |-> 32, PANASONIC |-> 48, JVC |-> 16, SAMSUNG |-> 32, DENON |-> 14,
            WHYNTER |-> 32, LG |-> 28, SONY |-> 12, RC5 |-> 12, RC6 |-> 20,
            AIWA |-> 15, SHARP |-> 15, LEGO |-> 16, DISH |-> 16]
Value(six, n) == [k \in 1 .. n |-> (six \div 2^(k % 6)) % 2]
Lags == {0, 50, 100}

(* the texts are of a mode and a length; some just fit into their symbol   *)
TextOf(mode, n) ==
  CASE mode = "numeric" -> [k \in 1 .. n |-> 48 + ((7 * k) % 10)]
    [] mode = "alphanumeric" -> [k \in 1 .. n |-> IF k % 3 = 0 THEN 58 ELSE 65 + ((5 * k) % 26)]
    [] mode = "byte" -> [k \in 1 .. n |-> IF k % 4 = 0 THEN 195 ELSE 97 + (k % 26)]
Symbols == {<<1, 0, "numeric", 41>>, <<1, 1, "alphanumeric", 20>>, <<2, 3, "byte", 14>>,
            <<5, 2, "byte", 60>>, <<7, 3, "alphanumeric", 30>>,
            <<10, 3, "byte", 60>>, <<14, 3, "byte", 100>>}

(* The delimiter of a part is "Bo", and a file is made of its characters.  *)
(* An upload is a file, how many bytes of its part arrive, for how many    *)
(* the connection is held, after which one there is a long pause, and what *)
(* the memory holds: nothing of the boundary, an earlier one in the buffer *)
(* or the rest of one behind it.  Long files come without these faults.    *)
Boundary == <<66, 111>>
FileBytes == {H!CR, H!LF, H!Dash, 66}
Body(file) == file \o H!Delimiter \o Boundary \o <<H!Dash, H!Dash, H!CR, H!LF>>
Forever == 100
Clean == <<0, 0, 0, 0>>
Memories == {Clean, Boundary \o <<0, 0>>, <<0, 0, 111, 0>>}
Files == Strings(FileBytes, 0 .. 3) \cup {H!Delimiter \o f : f \in Strings(FileBytes, 0 .. 2)}
Longest == 16
Uploads ==
  {<<f, Len(Body(f)), Forever, 0, Clean>> : f \in Strings(FileBytes, 4 .. 6)}
  \cup {x \in Files \X (0 .. Longest) \X ((0 .. Longest) \cup {Forever}) \X {0} \X Memories :
          x[2] <= Len(Body(x[1])) /\ (x[3] <= x[2] \/ x[3] = Forever)}
  \cup {x \in Files \X (1 .. Longest) \X {Forever} \X (1 .. Longest) \X Memories :
          x[2] = Len(Body(x[1])) /\ x[4] < x[2]}

(* one or two fields of a form, a and b, alone or behind a query           *)
FieldBytes == {H!PercentSign, H!PlusSign, H!Ampersand, H!EqualSign, 97}
Forms ==
  {<<>>, <<97, H!EqualSign, 97>>} \X
  ({<<v>> : v \in Strings(FieldBytes, 0 .. 3)}
   \cup (Strings(FieldBytes, 0 .. 2) \X Strings(FieldBytes, 0 .. 2)))

Problems ==
  [line |-> {<<a, b, c, d>> : a, b \in {0, Reach \div 2}, c, d \in 0 .. Reach},
   circle |-> {<<r>> : r \in 0 .. 4 * Reach},
   ellipse |-> (0 .. 2 * Reach) \X (0 .. 2 * Reach),
   round |-> {x \in (1 .. 2 * Reach) \X (1 .. 2 * Reach) \X (0 .. Reach) :
                2 * x[3] < x[1] /\ 2 * x[3] < x[2]},
   triangle |-> [1 .. 6 -> 0 .. Reach \div 2],
   layout |-> {<<version>> : version \in 1 .. 40},
   blocks |-> (1 .. 40) \X (0 .. 3),
   format |-> (0 .. 3) \X (0 .. 7),
   reed |-> {7, 10, 13, 15, 16, 17, 18, 20, 22, 24, 26, 28, 30} \X (0 .. 7),
   text |-> {"numeric", "alphanumeric", "byte"} \X (1 .. 41) \X {1, 10, 27},
   symbol |-> Symbols,
   penalty |-> Strings({TRUE, FALSE}, 1 .. 9),
   remote |-> (DOMAIN Senders) \X (0 .. 63) \X Lags,
   cut |-> (DOMAIN Senders) \X (1 .. 98) \X {5, 38} \X {5, 38},
   escape |-> Strings({37, 38, 43, 97, 200}, 1 .. 4),
   query |-> Strings({H!Ampersand, H!EqualSign, H!PlusSign, 97}, 1 .. 6),
   form |-> Forms,
   upload |-> Uploads,
   year |-> {<<y>> : y \in 0 .. 99},
   alarm |-> (DOMAIN C!Fields) \X (0 .. 120)]

Init == problem \in [of : DOMAIN Problems, args : {<<>>}]
Pose ==
  /\ problem.args = <<>>
  /\ \E args \in Problems[problem.of] : problem' = [problem EXCEPT !.args = args]
Next == Pose
Spec == Init /\ [][Next]_vars

Posed(part) == problem.of = part /\ problem.args /= <<>>
args == problem.args

-----------------------------------------------------------------------------
(* The pixels between the first and the last of every column, or row *)
Columns(pixels) ==
  UNION {LET ys == {p[2] : p \in {q \in pixels : q[1] = x}} IN {x} \X (Min(ys) .. Max(ys)) :
           x \in {p[1] : p \in pixels}}
Rows(pixels) ==
  UNION {LET xs == {p[1] : p \in {q \in pixels : q[2] = y}} IN (Min(xs) .. Max(xs)) \X {y} :
           y \in {p[2] : p \in pixels}}

(* A line has its two ends, one pixel for every step along the longer      *)
(* axis, and no pixel further than half a pixel from the true line,        *)
(* although drawLine() gathers its pixels in runs.                         *)
LinesAreStraight ==
  Posed("line") =>
    LET dx == args[3] - args[1]
        dy == args[4] - args[2]
        steps == IF S!Abs(dx) > S!Abs(dy) THEN S!Abs(dx) ELSE S!Abs(dy)
        pixels == S!Covered(S!drawLine(args[1], args[2], args[3], args[4]))
        along(p) == IF steps = S!Abs(dx) THEN S!Abs(p[1] - args[1]) ELSE S!Abs(p[2] - args[2])
    IN /\ {<<args[1], args[2]>>, <<args[3], args[4]>>} \subseteq pixels
       /\ Cardinality(pixels) = steps + 1
       /\ {along(p) : p \in pixels} = 0 .. steps
       /\ \A p \in pixels : 2 * S!Abs(dx * (p[2] - args[2]) - dy * (p[1] - args[1])) <= steps

(* fillCircle() fills exactly what drawCircle() encloses, column by        *)
(* column, and no pixel of the outline is a whole pixel off the circle.    *)
CirclesAreFilled ==
  Posed("circle") =>
    LET r == args[1]
        outline == S!Covered(S!drawCircle(0, 0, r))
        square(p) == p[1] * p[1] + p[2] * p[2]
    IN /\ S!Covered(S!fillCircle(0, 0, r)) = Columns(outline)
       /\ r > 0 => \A p \in outline : (r - 1) * (r - 1) < square(p) /\ square(p) < (r + 1) * (r + 1)

(* fillEllipse() fills exactly what drawEllipse() encloses, row by row.    *)
EllipsesAreFilled ==
  Posed("ellipse") =>
    S!Covered(S!fillEllipse(0, 0, args[1], args[2])) = Rows(S!Covered(S!drawEllipse(0, 0, args[1], args[2])))

(* fillRoundRect() fills exactly what drawRoundRect() encloses: the        *)
(* helpers of the corners meet the rectangle between them.                 *)
RoundRectsAreFilled ==
  Posed("round") =>
    S!Covered(S!fillRoundRect(0, 0, args[1], args[2], args[3])) =
      Columns(S!Covered(S!drawRoundRect(0, 0, args[1], args[2], args[3])))

(* fillTriangle() fills every point of the closed triangle, and no row     *)
(* reaches a whole pixel past its edges, whatever the order of the corners *)
(* and however flat the triangle.                                          *)
Turn(p, q, z) == (q[1] - p[1]) * (z[2] - p[2]) - (q[2] - p[2]) * (z[1] - p[1])
InTriangle(a, b, c, z) ==
  LET turns == {Turn(a, b, z), Turn(b, c, z), Turn(c, a, z)} IN
  Turn(a, b, c) /= 0 /\ ((\A t \in turns : t >= 0) \/ (\A t \in turns : t <= 0))
EdgesAt(corners, y) ==
  {e \in corners \X corners : e[1][2] < e[2][2] /\ e[1][2] <= y /\ y <= e[2][2]}
Beyond(e, x, y) == (x - e[1][1]) * (e[2][2] - e[1][2]) - (e[2][1] - e[1][1]) * (y - e[1][2])
TrianglesAreFilled ==
  Posed("triangle") =>
    LET a == <<args[1], args[2]>>
        b == <<args[3], args[4]>>
        c == <<args[5], args[6]>>
        corners == {a, b, c}
        filled == S!Covered(S!fillTriangle(a, b, c))
    IN /\ corners \subseteq filled
       /\ \A z \in (0 .. Reach \div 2) \X (0 .. Reach \div 2) : InTriangle(a, b, c, z) => z \in filled
       /\ \A z \in filled \ corners :
            \/ S!Flat(a, b, c)
            \/ /\ \E e \in EdgesAt(corners, z[2]) : Beyond(e, z[1] + 1, z[2]) > 0
               /\ \E e \in EdgesAt(corners, z[2]) : Beyond(e, z[1] - 1, z[2]) < 0
-----------------------------------------------------------------------------
(* The standard's reading of a symbol: finder patterns with their light    *)
(* border in three corners, the timing pattern between them                *)
FinderPlaces(size) == ((0 .. 7) \X (0 .. 7)) \cup ((size - 8 .. size - 1) \X (0 .. 7))
                      \cup ((0 .. 7) \X (size - 8 .. size - 1))
TimingPlaces(size) == ({6} \X (8 .. size - 9)) \cup ((8 .. size - 9) \X {6})

(* In each of the 40 versions the codewords go once to every module that   *)
(* no function pattern takes, and there are as many as the table says; the *)
(* alignment patterns keep off the finders and leave the timing pattern    *)
(* alternating.                                                            *)
EveryModuleOnce ==
  Posed("layout") =>
    LET version == args[1]
        size == Q!Size(version)
        patterns == Q!drawFunctionPatterns(version, 0)
        places == Q!DataPlaces(size, DOMAIN patterns)
        free == ((0 .. size - 1) \X (0 .. size - 1)) \ DOMAIN patterns
    IN /\ {places[n] : n \in DOMAIN places} = free
       /\ Len(places) = Cardinality(free)
       /\ Len(places) = Q!Raw(version)
       /\ DOMAIN Q!Alignments(version) \cap FinderPlaces(size) = {}
       /\ \A p \in TimingPlaces(size) : patterns[p] = ((p[1] + p[2]) % 2 = 0)

(* The words that tell level and mask differ from one another in seven     *)
(* bits or more, so that three wrong ones can be corrected; each is there  *)
(* twice, in modules of its own.  The words of the versions differ in      *)
(* eight.                                                                  *)
WordsAreFarApart ==
  Posed("format") =>
    LET level == args[1]
        mask == args[2]
        word == Q!FormatBits(level, mask)
        size == 21
        drawn == Q!drawFormatBits(size, level, mask)
        first == [i \in 0 .. 14 |-> Q!FirstCopy(i)]
        second == [i \in 0 .. 14 |-> Q!SecondCopy(size, i)]
        shared == FinderPlaces(size) \cup TimingPlaces(size)
    IN /\ \A other \in ((0 .. 3) \X (0 .. 7)) \ {<<level, mask>>} :
            Cardinality(Q!Xor(word, Q!FormatBits(other[1], other[2]))) >= 7
       /\ \A copy \in {first, second} :
            /\ \A i, j \in 0 .. 14 : copy[i] = copy[j] => i = j
            /\ \A i \in 0 .. 14 : copy[i] \notin shared /\ drawn[copy[i]] = (i \in word)
       /\ {first[i] : i \in 0 .. 14} \cap {second[i] : i \in 0 .. 14} = {}
       /\ \A v, w \in 7 .. 40 :
            v % 32 = 8 * level + mask /\ v /= w =>
              Cardinality(Q!Xor(Q!VersionBits(v), Q!VersionBits(w))) >= 8

(* The blocks by columns: the first codeword of each, the second, ...      *)
ByColumns(version, level) ==
  LET start == SubSeq(Q!BlockStart(version, level), 1, Q!BlocksOf(version, level))
      blocks == Q!BlocksOf(version, level)
      short == Q!ShortData(version, level)
      has == SelectSeq([b \in 1 .. blocks |-> b], LAMBDA b : Q!BlockSize(b, version, level) > short)
  IN [n \in 1 .. short * blocks |-> start[((n - 1) % blocks) + 1] + ((n - 1) \div blocks)]
     \o [k \in DOMAIN has |-> start[has[k]] + short]

(* The walk of performErrorCorrection(), index by stride, takes the data   *)
(* column by column out of blocks that differ by one codeword, and takes   *)
(* every codeword once.                                                    *)
BlocksInterleave ==
  Posed("blocks") =>
    LET version == args[1]
        level == args[2]
        order == Q!Interleaving(version, level)
    IN /\ order = ByColumns(version, level)
       /\ {order[i] : i \in DOMAIN order} = 0 .. Q!DataCapacity(version, level) - 1
       /\ Len(order) = Q!DataCapacity(version, level)

(* The powers of the root, and a polynomial over GF(256) at the i-th of    *)
(* them: bit b of the n-th codeword from the end stands for the power      *)
(* n * i + b                                                               *)
Wrapped(w) ==        (* each term from 8 on, brought down by the 8th power *)
  LET terms(b) == {d \in w : d = b /\ d < 8} \cup {d \in w : d >= 8 /\ d - 8 \in {b, b - 2, b - 3, b - 4}}
  IN {b \in 0 .. 11 : Cardinality(terms(b)) % 2 = 1}
Reduced(w) == Wrapped(Wrapped(w))
Powers ==
  LET power[e \in 0 .. 254] ==
        IF e = 0 THEN {0} ELSE Reduced({2 * b + (e % 2) : b \in power[e \div 2]})
  IN SubSeq([e \in 1 .. 255 |-> power[e - 1]], 1, 255)
ValueAt(codeword, i) ==
  LET n == Len(codeword)
      terms == {t \in (1 .. n) \X (0 .. 7) : t[2] \in codeword[t[1]]}
      with(b) == {t \in terms : b \in Powers[(((n - t[1]) * i + t[2]) % 255) + 1]}
  IN {b \in 0 .. 7 : Cardinality(with(b)) % 2 = 1}
IsCodeword(codeword, degree) == \A i \in 0 .. degree - 1 : ValueAt(codeword, i) = {}

(* The data of a block and its remainder are together a codeword of the    *)
(* Reed-Solomon code: zero at every root a reader tests.                   *)
RemaindersCorrect ==
  Posed("reed") =>
    LET data == [k \in 1 .. 16 |-> Q!BitsOf((args[2] * 37 + k * k * 11) % 256)] IN
    IsCodeword(data \o Q!rs_getRemainder(Q!rs_init(args[1]), data), args[1])

(* A reader of bits: mode, count, then groups of the length of the mode    *)
NumberAt(bits, from, n) == FoldLeft(LAMBDA v, b : 2 * v + b, 0, SubSeq(bits, from + 1, from + n))
Alphabet == [k \in 0 .. 44 |-> CHOOSE c \in 0 .. 255 : Q!getAlphanumeric(c) = k]
CountBits(version, mode) ==
  CASE mode = 1 -> IF version < 10 THEN 10 ELSE IF version < 27 THEN 12 ELSE 14
    [] mode = 2 -> IF version < 10 THEN 9 ELSE IF version < 27 THEN 11 ELSE 13
    [] mode = 4 -> IF version < 10 THEN 8 ELSE 16
ReadText(bits, version) ==
  LET mode == NumberAt(bits, 0, 4)
      count == NumberAt(bits, 4, CountBits(version, mode))
      from == 4 + CountBits(version, mode)
      digit(i) ==
        LET in == IF 3 * (i \div 3) + 3 <= count THEN 3 ELSE count % 3 IN
        48 + ((NumberAt(bits, from + 10 * (i \div 3), 3 * in + 1) \div 10^(in - 1 - (i % 3))) % 10)
      sign(i) ==
        LET in == IF 2 * (i \div 2) + 2 <= count THEN 2 ELSE 1 IN
        Alphabet[(NumberAt(bits, from + 11 * (i \div 2), 5 * in + 1) \div 45^(in - 1 - (i % 2))) % 45]
  IN [k \in 1 .. count |-> CASE mode = 1 -> digit(k - 1)
                             [] mode = 2 -> sign(k - 1)
                             [] mode = 4 -> NumberAt(bits, from + 8 * (k - 1), 8)]

(* A text that fits is read back from the bits, and terminator and padding *)
(* bring them to exactly the capacity of the version, also when fewer than *)
(* four bits are left.                                                     *)
TextsReadBack ==
  Posed("text") =>
    LET text == TextOf(args[1], args[2])
        bits == Q!encodeDataCodewords(text, args[3])
        capacity == Q!DataCapacity(args[3], 1)
        padded == Q!Padded(bits, capacity)
    IN Q!Fits(text, args[3], 1) =>
         /\ Len(padded) = 8 * capacity
         /\ ReadText(padded, args[3]) = text
         /\ \A i \in Len(bits) + 1 .. Len(bits) + 4 : i <= Len(padded) => padded[i] = 0

(* The path of a reader through the symbol: pairs of columns, the first    *)
(* up, the next down                                                       *)
ReaderPath(size) ==
  LET pair(k) == IF size - 1 - 2 * k > 6 THEN size - 1 - 2 * k ELSE size - 2 - 2 * k IN
  [n \in 1 .. size * (size - 1) |->
     LET k == (n - 1) \div (2 * size)
         row == ((n - 1) \div 2) % size
     IN <<pair(k) - ((n - 1) % 2), IF k % 2 = 0 THEN size - 1 - row ELSE row>>]

(* The codewords of a symbol: the modules along the path, without the     *)
(* mask                                                                    *)
ReadCodewords(symbol, mask, version, taken) ==
  LET path == SelectSeq(ReaderPath(Q!Size(version)), LAMBDA p : p \notin taken)
      light(n) == symbol[path[n]] = Q!Inverts(mask, path[n])
  IN [i \in 1 .. Q!Codewords(version) |-> {b \in 0 .. 7 : ~light(8 * i - b)}]

(* The data among the codewords, put back in the order of the text, and    *)
(* the codewords of a block                                                *)
PutBack(read, order) ==
  [d \in 1 .. Len(order) |-> read[CHOOSE i \in DOMAIN order : order[i] = d - 1]]
ReadBlock(b, read, data, version, level, degree) ==
  LET from == Q!BlockStart(version, level)[b] IN
  SubSeq(data, from + 1, from + Q!BlockSize(b, version, level))
    \o [i \in 1 .. degree |-> read[Len(data) + (i - 1) * Q!BlocksOf(version, level) + b]]

BlocksHold(read, data, version, level, text) ==
  LET degree == Q!EccOf(version, level) \div Q!BlocksOf(version, level) IN
  /\ \A b \in 1 .. Q!BlocksOf(version, level) :
       IsCodeword(ReadBlock(b, read, data, version, level, degree), degree)
  /\ ReadText([n \in 1 .. 8 * Len(data) |->
                 IF 7 - ((n - 1) % 8) \in data[((n - 1) \div 8) + 1] THEN 1 ELSE 0], version) = text

(* What a reader finds: a format word that names the level, then the text  *)
FormatWord(symbol) == {i \in 0 .. 14 : symbol[Q!FirstCopy(i)]}
FormatIn(symbol) ==
  CHOOSE f \in (0 .. 3) \X (0 .. 7) : Q!FormatBits(f[1], f[2]) = FormatWord(symbol)
Holds(read, version, level, text) ==
  BlocksHold(read, PutBack(read, ByColumns(version, level)), version, level, text)
ReadsAs(symbol, format, version, ecc, text) ==
  /\ Q!FormatBits(format[1], format[2]) = FormatWord(symbol)
  /\ format[1] = Q!FormatBitsOf(ecc)
  /\ Holds(ReadCodewords(symbol, format[2], version,
                         DOMAIN Q!drawFunctionPatterns(version, format[1])), version, format[1], text)
FoundIn(symbol, version, ecc, text) == ReadsAs(symbol, FormatIn(symbol), version, ecc, text)

(* The finished symbol, read: its format word names the level that was     *)
(* asked for and a mask; without the mask the modules along the path are   *)
(* the interleaved blocks, each a codeword, and their data is the text.    *)
SymbolsReadBack ==
  Posed("symbol") =>
    LET text == TextOf(args[3], args[4]) IN
    FoundIn(Q!qrcode_initBytes(args[1], args[2], text), args[1], args[2], text)

(* The penalty for runs counts each run of five modules or more once, by   *)
(* its whole length.                                                       *)
RunsCountOnce ==
  Posed("penalty") =>
    LET ends == {r \in (DOMAIN args) \X (DOMAIN args) :
                   /\ r[1] + 4 <= r[2]
                   /\ \A i \in r[1] .. r[2] : args[i] = args[r[1]]
                   /\ r[1] > 1 => args[r[1] - 1] /= args[r[1]]
                   /\ r[2] < Len(args) => args[r[2] + 1] /= args[r[2]]}
    IN Q!RunPenalty(args) = MapThenSumSet(LAMBDA r : r[2] - r[1] + 1 - 2, ends)

-----------------------------------------------------------------------------
Send(sender, bits) ==
  CASE sender = "NEC" -> I!sendNEC(bits)
    [] sender = "PANASONIC" -> I!sendPanasonic(bits)
    [] sender = "JVC" -> I!sendJVC(bits)
    [] sender = "SAMSUNG" -> I!sendSAMSUNG(bits)
    [] sender = "DENON" -> I!sendDenon(bits)
    [] sender = "WHYNTER" -> I!sendWhynter(bits)
    [] sender = "LG" -> I!sendLG(bits)
    [] sender = "SONY" -> I!sendSony(bits)
    [] sender = "RC5" -> I!sendRC5(bits)
    [] sender = "RC6" -> I!sendRC6(bits)
    [] sender = "AIWA" -> I!sendAiwaRCT501(bits)
    [] sender = "SHARP" -> I!sendSharpRaw(bits)
    [] sender = "LEGO" -> I!sendLegoPowerFunctions(bits)
    [] sender = "DISH" -> I!sendDISH(bits)
LongGap == 800     (* ticks: the decoders of Sony and Sanyo want that many *)
Widths(sender, six, lag) == I!Recorded(Send(sender, Value(six, Senders[sender])), lag)

Hash == [type |-> "UNKNOWN", value |-> <<"hash">>, bits |-> 32]
(* Whose frame the receiver takes it for.  NEC's decoder is tried before   *)
(* Aiwa's and takes the frame for an inverted one of its own; Sharp, Lego  *)
(* and Dish have no decoder: Denon's takes some of Sharp's frames when the *)
(* marks come long, and Dish's is over at the space of its header.         *)
Claimed(sender, bits, lag) ==
  CASE sender = "AIWA" -> I!Decoded("NEC", [k \in 1 .. 32 |-> 1 - (I!AiwaPre \o bits)[k]])
    [] sender = "SHARP" /\ lag = 100 /\ bits[1] = 0 -> I!Decoded("DENON", Tail(bits))
    [] sender = "SHARP" /\ ~(lag = 100 /\ bits[1] = 0) -> Hash
    [] sender = "LEGO" -> Hash
    [] sender = "DISH" -> I!Nothing
    [] OTHER -> I!Decoded(sender, bits)

(* What a send function puts on the air is decoded as that protocol and    *)
(* that value, or as what Claimed says, although thirteen decoders are     *)
(* tried in turn and the detector lengthens marks by up to the 100us the   *)
(* decoders expect.                                                        *)
SentIsDecoded ==
  Posed("remote") =>
    LET sender == args[1]
        bits == Value(args[2], Senders[sender])
    IN I!decode(I!Results(LongGap, Widths(sender, args[2], args[3]), <<>>)) =
         Claimed(sender, bits, args[3])

(* A frame that was cut short, and an earlier one of the same remote       *)
(* control behind it in rawbuf                                             *)
Cut == SubSeq(Widths(args[1], args[3], 50), 1, args[2])
IsCut == args[2] < Len(Widths(args[1], args[3], 50))
Found(earlier) == I!decode(I!Results(LongGap, Cut, earlier))

(* The decoders that read more widths than they ask for: from how many on, *)
(* and up to which.  LG's and JVC's leave the header and the stop bit out  *)
(* of the count, Panasonic's does not count.                               *)
ReadsOn == [LG |-> 56 .. 58, JVC |-> 32 .. 34, PANASONIC |-> 1 .. 97]

(* What a decoder other than these makes of a frame does not depend on     *)
(* what an earlier frame left behind it; these take the bits that are      *)
(* missing from there, and no others.                                      *)
StaleWidthsUnused ==
  (Posed("cut") /\ IsCut) =>
    LET before == Widths(args[1], args[4], 50)
        found == Found(before)
        own == Found(Widths(args[1], args[3], 50))
    IN \/ found = Found(<<>>)
       \/ /\ found.type \in DOMAIN ReadsOn /\ args[2] \in ReadsOn[found.type]
          /\ own.type = found.type
          /\ \A i \in 1 .. found.bits : 2 * i + 2 <= args[2] => found.value[i] = own.value[i]

(* "Check we have the right amount of data" (ir_LG.cpp:27): no decoder     *)
(* reads a width that was not received.  Not so (AlgorithmsStale.cfg).     *)
OnlyWhatWasReceived ==
  (Posed("cut") /\ IsCut) => Found(Widths(args[1], args[4], 50)) = Found(<<>>)

-----------------------------------------------------------------------------
(* How a browser encodes a value                                           *)
HexDigit(n) == IF n < 10 THEN 48 + n ELSE 55 + n
Encoded(c) ==
  CASE c \in (48 .. 57) \cup (65 .. 90) \cup (97 .. 122) -> <<c>>
    [] c = H!Blank -> <<H!PlusSign>>
    [] OTHER -> <<H!PercentSign, HexDigit(c \div 16), HexDigit(c % 16)>>
Encoding(text) == FlattenSeq([i \in DOMAIN text |-> Encoded(text[i])])

(* urlDecode() gives back every value, also one that ends with an escaped  *)
(* character.                                                              *)
EscapesReadBack == Posed("escape") => H!urlDecode(Encoding(args)) = args

(* The parts of a query between ampersands, those with an equal sign       *)
Parts(text) ==
  LET n == Len(text)
      cuts == SelectSeq([i \in 1 .. n + 1 |-> i], LAMBDA i : i = n + 1 \/ text[i] = H!Ampersand)
  IN [k \in DOMAIN cuts |-> SubSeq(text, (IF k = 1 THEN 0 ELSE cuts[k - 1]) + 1, cuts[k] - 1)]
HasSign(part) == \E i \in DOMAIN part : part[i] = H!EqualSign
Argument(part) ==
  LET sign == CHOOSE i \in DOMAIN part : part[i] = H!EqualSign /\ \A j \in 1 .. i - 1 : part[j] /= H!EqualSign
  IN [key |-> SubSeq(part, 1, sign - 1), value |-> H!urlDecode(SubSeq(part, sign + 1, Len(part)))]

(* The arguments of a query are its parts with an equal sign, in order,    *)
(* whatever empty, repeated or signless parts stand between them.          *)
ArgumentsAreParts ==
  Posed("query") =>
    LET parts == SelectSeq(Parts(args), HasSign) IN
    H!_parseArguments(args) = [k \in DOMAIN parts |-> Argument(parts[k])]

(* The fields of a form as a browser sends them; keys are single letters   *)
Field(k, value) == <<96 + k, H!EqualSign>> \o value
FormBody(values) ==
  FlattenSeq([k \in DOMAIN values |->
                (IF k = 1 THEN <<>> ELSE <<H!Ampersand>>) \o Field(k, Encoding(values[k]))])
Has(value, c) == \E i \in DOMAIN value : value[i] = c
FieldsAs(query, values, made(_)) ==
  (IF query = <<>> THEN <<>> ELSE H!_parseArguments(query))
  \o [k \in DOMAIN values |-> [key |-> <<96 + k>>, value |-> made(values[k])]]

(* The body of an encoded form is unescaped, and every value once more: a  *)
(* value without "%", "+" and "&" arrives as it was typed, one with "%" or *)
(* "+" unescaped as if it had been an escape, and the fields stay apart as *)
(* long as none of them has an "&".                                        *)
FieldsArrive ==
  Posed("form") =>
    ((\A k \in DOMAIN args[2] : ~Has(args[2][k], H!Ampersand))
     => LET twice(v) == IF Has(v, H!PercentSign) \/ Has(v, H!PlusSign) THEN H!urlDecode(v) ELSE v IN
        H!EncodedForm(args[1], FormBody(args[2])) = FieldsAs(args[1], args[2], twice))

(* What was typed is what the sketch gets.  Not so (AlgorithmsForms.cfg).  *)
FieldsUnharmed ==
  Posed("form") =>
    LET same(v) == v IN
    H!EncodedForm(args[1], FormBody(args[2])) = FieldsAs(args[1], args[2], same)

(* An uploaded file arrives as it was sent, although pieces of the         *)
(* delimiter occur in it, when it is sent to its end over a connection     *)
(* that lasts and each CR LF "--" in it has as many bytes after it as the  *)
(* boundary has.  Otherwise the reader waits, or gives up, or has the      *)
(* file: never a part of it or something else, unless the peer pauses for  *)
(* longer than a timeout within the bytes after a CR LF "--", or the       *)
(* memory in and behind the buffer happens to hold what is missing of a    *)
(* boundary.                                                               *)
Bytes == SubSeq(Body(args[1]), 1, args[2])
AfterDelimiter(i) ==
  \E k \in 1 .. i - 3 :
    SubSeq(Bytes, k, k + 3) = H!Delimiter /\ i < k + 3 + Len(Boundary)
Roomy(file) ==
  \A i \in 1 .. Len(file) - 3 :
    SubSeq(file, i, i + 3) = H!Delimiter => i + 3 + Len(Boundary) <= Len(file)
FileGot == H!_parseFormFile(Bytes, Boundary, args[3], args[4], args[5])
FilesArrive ==
  (Posed("upload") /\ ~AfterDelimiter(args[4])) =>
    /\ (args[2] = Len(Body(args[1])) /\ args[3] = Forever /\ Roomy(args[1])
        /\ args[5] = Clean) => FileGot = args[1]
    /\ \/ FileGot \in {args[1], H!Waiting, H!Aborted}
       \/ args[5] /= Clean /\ IsPrefix(FileGot, args[1])
    /\ args[3] = Forever => FileGot /= H!Aborted

(* A file that is sent to its end arrives.  Not so (AlgorithmsForms.cfg).  *)
WholeFilesArrive ==
  (Posed("upload") /\ args[2] = Len(Body(args[1])) /\ args[3] = Forever /\ args[4] = 0) =>
    FileGot = args[1]

-----------------------------------------------------------------------------
(* The Gregorian calendar, from 2000 on                                    *)
MonthLength(y, m) ==
  CASE m \in {4, 6, 9, 11} -> 30
    [] m = 2 -> IF (2000 + y) % 4 = 0 /\ ((2000 + y) % 100 /= 0 \/ (2000 + y) % 400 = 0) THEN 29 ELSE 28
    [] OTHER -> 31
NextDay(y, m, d) ==
  CASE d < MonthLength(y, m) -> <<y, m, d + 1>>
    [] d = MonthLength(y, m) /\ m < 12 -> <<y, m + 1, 1>>
    [] d = MonthLength(y, m) /\ m = 12 -> <<y + 1, 1, 1>>

(* Of every date to 2099/12/31 the days since 2000 give the date back, the *)
(* next number is the next date of the calendar, and the day of the week   *)
(* goes on by one from a Saturday on.                                      *)
DatesReadBack ==
  Posed("year") =>
    /\ C!dayOfWeek(0, 1, 1) = 6
    /\ \A m \in 1 .. 12 : \A d \in 1 .. MonthLength(args[1], m) :
         LET days == C!date2days(args[1], m, d)
             next == NextDay(args[1], m, d)
         IN /\ C!DateOf(days) = <<args[1], m, d>>
            /\ C!date2days(next[1], next[2], next[3]) = days + 1
            /\ C!dayOfWeek(next[1], next[2], next[3]) = (C!dayOfWeek(args[1], m, d) + 1) % 7

(* An alarm field reads back as it was set, brought into its range, or as  *)
(* not set; no value reaches the bit that switches the field off.          *)
AlarmsReadBack ==
  Posed("alarm") =>
    LET f == C!Fields[args[1]] IN
    C!getAlarm(args[1], C!setAlarm(args[1], args[2])) =
      (CASE args[2] >= 99 -> 99
         [] args[2] < f.least -> f.least
         [] args[2] > f.most /\ args[2] < 99 -> f.most
         [] OTHER -> args[2])
-----------------------------------------------------------------------------
(* Display.cpp draws and fills what it says, to the pixel.                 *)
ShapesAreExact ==
  /\ LinesAreStraight /\ CirclesAreFilled /\ EllipsesAreFilled
  /\ RoundRectsAreFilled /\ TrianglesAreFilled

(* A symbol that qrcode.c makes is one a reader can read.                  *)
SymbolsAreRight ==
  /\ EveryModuleOnce /\ WordsAreFarApart /\ BlocksInterleave /\ RemaindersCorrect
  /\ TextsReadBack /\ SymbolsReadBack /\ RunsCountOnce

(* What a remote control sends is what the receiver understands, but for   *)
(* the four of Claimed, and from the widths it has received alone, but for *)
(* the three decoders of ReadsOn.                                          *)
RemotesUnderstood == SentIsDecoded /\ StaleWidthsUnused

(* Texts, queries, forms and files arrive as the parts above say: but for  *)
(* values that are unescaped twice and files that swallow their delimiter. *)
FormsArrive == EscapesReadBack /\ ArgumentsAreParts /\ FieldsArrive /\ FilesArrive

(* Dates and alarms go into the clocks' registers and back.                *)
ClocksReadBack == DatesReadBack /\ AlarmsReadBack
=============================================================================
