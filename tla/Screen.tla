------------------------------- MODULE Screen -------------------------------
(***************************************************************************)
(* The display driver, utility/Display.cpp: the window registers of the    *)
(* ILI9341 and what the driver remembers of them, and the transactions in  *)
(* which it uses an SPI bus that the SD card uses as well.                 *)
(*                                                                         *)
(* A call of the sketch is the sequence of steps it takes on the bus;      *)
(* between two of them another task may run.  Colours are left out: a      *)
(* picture is the set of pixels written.                                   *)
(***************************************************************************)
EXTENDS Shapes

CONSTANTS
  TFT_WIDTH, TFT_HEIGHT,
  Calls          (* what the sketch calls: records of op and arguments     *)

ASSUME ScreenAssumption == TFT_WIDTH \in 1 .. 1000 /\ TFT_HEIGHT \in 1 .. 1000

Unknown == 65535

VARIABLES
  rotation, addr_col, addr_row, locked, inTransaction,
  lcd,        (* the controller: the columns and rows of its window, from  *)
              (* and to, and how many pixels it has had since RAMWR        *)
  bus,        (* who has the SPI bus: "lcd", "sd" or nobody, "free"        *)
  todo,       (* the steps that are left of the call                       *)
  call,       (* the call                                                  *)
  drawn,      (* history: the pixels of the glass that the call has written*)
  flat,       (* history: fillTriangle() left by its early return, and no  *)
              (* call since has ended a transaction of its own             *)
  stray       (* history: the call sent something outside a transaction    *)

cache == <<addr_col, addr_row>>
transaction == <<locked, inTransaction, bus>>
history == <<drawn, flat, stray>>
vars == <<rotation, cache, transaction, lcd, todo, call, history>>

(* What the driver takes for the screen                                    *)
Portrait(m) == m \in {0, 2, 6}
Width(m) == IF Portrait(m) THEN TFT_WIDTH ELSE TFT_HEIGHT
Height(m) == IF Portrait(m) THEN TFT_HEIGHT ELSE TFT_WIDTH
_width == Width(rotation)
_height == Height(rotation)
Canvas == (0 .. _width - 1) \X (0 .. _height - 1)

(* and what MADCTL makes of the glass: the bit MV exchanges its columns    *)
(* and rows.  Rotation 5 is sent without that bit.                         *)
Exchanged(m) == m \in {1, 3, 4, 7}
Across(m) == IF Exchanged(m) THEN TFT_HEIGHT ELSE TFT_WIDTH
Down(m) == IF Exchanged(m) THEN TFT_WIDTH ELSE TFT_HEIGHT
Glass == (0 .. Across(rotation) - 1) \X (0 .. Down(rotation) - 1)

-----------------------------------------------------------------------------
(* What a sketch may call, with any arguments.  The primitives of a "draw" *)
(* or a "shape" are those of a shape of Shapes; the corners of a triangle  *)
(* and the set pixels of a character are points.  Left out are the public  *)
(* parts of these calls that open no transaction and know nothing of the   *)
(* others: setAddrWindow(), writePixel(s)(), writecommand(), writedata().  *)
Prims ==
  {p \in [op : {"pixel", "vline", "hline", "rect"}, x : Int, y : Int, w : Int, h : Int] :
     p.op = "pixel" => p.w = 1 /\ p.h = 1}
Points == Int \X Int
SketchCalls ==
  [op : {"draw", "shape"}, prims : Seq(Prims)]
  \cup [op : {"drawTriangle", "fillTriangle"}, a : Points, b : Points, c : Points]
  \cup [op : {"drawChar"}, x : Int, y : Int]
  \cup [op : {"bigChar"}, x : Int, y : Int, w : Nat, h : Nat, size : Nat, dots : Seq(Points)]
  \cup [op : {"image"}, p : Prims, parts : Seq(Nat)]
  \cup [op : {"pushRect"}, x : Int, y : Int, w : Nat, h : Nat]
  \cup [op : {"drawJpgFile"}, x : Int, y : Int, maxW : Nat, maxH : Nat, jpgW : Nat, jpgH : Nat,
        offX : Nat, offY : Nat, block : Nat \ {0}]
  \cup [op : {"setRotation"}, m : Nat]

ASSUME CallsAssumption == Calls \subseteq SketchCalls

-----------------------------------------------------------------------------
(* the steps *)
Begin == [op |-> "begin"]         (* spi_begin()                           *)
End == [op |-> "end"]             (* spi_end()                             *)
Enter == [op |-> "enter"]         (* inTransaction = true                  *)
Leave == [op |-> "leave"]         (* inTransaction = false                 *)
Window(x0, y0, x1, y1) == [op |-> "window", x0 |-> x0, y0 |-> y0, x1 |-> x1, y1 |-> y1]
Words(n) == [op |-> "words", n |-> n]                (* n pixels           *)
Dot(x, y) == [op |-> "dot", x |-> x, y |-> y]        (* drawPixel()        *)
Madctl(m) == [op |-> "madctl", m |-> m]
Forget == [op |-> "forget"]       (* addr_row = addr_col = 0xFFFF          *)

(* Clipping.  _width and _height are unsigned, and so is a comparison with *)
(* them: whatever begins left of or above the screen is not drawn at all.  *)
Least(m, n) == IF m < n THEN m ELSE n
Seen(p) ==
  /\ p.x >= 0 /\ p.y >= 0 /\ p.w >= 1 /\ p.h >= 1
  /\ IF p.op = "rect" THEN p.x <= _width /\ p.y <= _height
     ELSE p.x < _width /\ p.y < _height
Clipped(p) ==
  LET cutW == IF p.op = "rect" THEN p.x + p.w - 1 > _width ELSE p.x + p.w - 1 >= _width
      cutH == IF p.op = "rect" THEN p.y + p.h - 1 > _height ELSE p.y + p.h - 1 >= _height
  IN [p EXCEPT !.w = IF cutW THEN _width - p.x ELSE p.w,
               !.h = IF cutH THEN _height - p.y ELSE p.h]

WindowOf(p) == Window(p.x, p.y, p.x + p.w - 1, p.y + p.h - 1)

SentBare(window, n) == <<window, Words(n), End>>         \* defect: no spi_begin()
Sent(window, n) == <<Begin, window, Words(n), End>>

(* drawPixel(), drawFastVLine(), drawFastHLine(), fillRect()               *)
Primitive(p) ==
  IF ~Seen(p) THEN <<>>
  ELSE IF p.op = "pixel" THEN <<Begin, Dot(p.x, p.y), End>>
  ELSE LET q == Clipped(p) IN Sent(WindowOf(q), q.w * q.h)
Draw(prims) == FlattenSeq([i \in DOMAIN prims |-> Primitive(prims[i])])

(* A shape keeps one transaction open for all its primitives.              *)
NeverEnds(prims) == <<Begin, Enter>> \o Draw(prims)   \* defect: like fillTriangle()
Shape(prims) == <<Begin, Enter>> \o Draw(prims) \o <<Leave, End>>

(* three lines in the transaction of the triangle: the first to end ends it*)
TriangleLines(a, b, c) ==
  <<Begin, Enter>> \o Shape(drawLine(a[1], a[2], b[1], b[2]))
  \o Shape(drawLine(b[1], b[2], c[1], c[2])) \o Shape(drawLine(c[1], c[2], a[1], a[2]))
  \o <<Leave, End>>

(* the early return of fillTriangle() passes over the end                  *)
FilledTriangle(a, b, c) ==
  IF Flat(a, b, c) THEN <<Begin, Enter>> \o Draw(fillTriangle(a, b, c))
  ELSE Shape(fillTriangle(a, b, c))

(* drawChar() of font 1, size 1, on a background: 6 columns and 9 rows of  *)
(* which 8 are written                                                     *)
Cell(x, y) ==
  IF x >= _width \/ y >= _height \/ x + 5 < 0 \/ y + 7 < 0 THEN <<>>
  ELSE Sent(Window(x, y, x + 5, y + 8), 48)

(* drawChar() of an RLE font, enlarged, on a background: fillRect() begins *)
(* and ends a transaction inside that of the character.  dots: the pixels  *)
(* of the character that are set                                           *)
BigCharacter(x, y, w, h, size, dots) ==
  <<Begin>> \o Primitive(Rect(x, y, w * size, h * size))
  \o FlattenSeq([i \in DOMAIN dots |->
       LET px == x + size * dots[i][1]
           py == y + size * dots[i][2]
       IN <<Window(px, py, px + size - 1, py + size - 1), Words(size * size)>>])
  \o <<End>>

(* setWindow() and then pushColors() of the next part of the picture, again*)
(* and again: as a sketch shows a file                                     *)
Image(p, parts) ==
  <<Begin, WindowOf(p), End>>
  \o FlattenSeq([i \in DOMAIN parts |-> <<Begin, Words(parts[i]), End>>])

(* drawJpgFile(): the decoder calls jpgWrite() with one block of the       *)
(* picture after the other, and reads the file in between.  What lies      *)
(* outside of the wanted part is cut off.                                  *)
CutNever(j, b) == [left |-> 0, right |-> 0]     \* defect: the margins are drawn as well
CutOff(j, b) ==
  [left |-> IF b.left < j.offX THEN j.offX - b.left ELSE 0,
   right |-> IF b.right >= j.offX + j.outW THEN b.right + 1 - (j.offX + j.outW) ELSE 0]
jpgWrite(j, b) ==
  LET above == IF b.top < j.offY THEN j.offY - b.top ELSE 0
      below == IF b.bottom >= j.offY + j.outH THEN b.bottom + 1 - (j.offY + j.outH) ELSE 0
      w == b.right + 1 - b.left - CutOff(j, b).left - CutOff(j, b).right
      h == b.bottom + 1 - b.top - above - below
      x == b.left - j.offX + j.x + CutOff(j, b).left
      y == b.top + above - j.offY + j.y
  IN IF \/ b.right < j.offX \/ b.left >= j.offX + j.outW
        \/ b.bottom < j.offY \/ b.top >= j.offY + j.outH THEN <<>>
     ELSE Sent(Window(x, y, x + w - 1, y + h - 1), w * h)

(* maxWidth and maxHeight of 0 are what is left of the screen              *)
Wanted(c) ==
  LET maxW == IF c.maxW = 0 THEN _width - c.x ELSE c.maxW
      maxH == IF c.maxH = 0 THEN _height - c.y ELSE c.maxH
  IN [x |-> c.x, y |-> c.y, offX |-> c.offX, offY |-> c.offY,
      outW |-> Least(c.jpgW - c.offX, maxW), outH |-> Least(c.jpgH - c.offY, maxH)]
Refused(c) ==
  \/ c.x + c.maxW > _width \/ c.y + c.maxH > _height
  \/ c.offX >= c.jpgW \/ c.offY >= c.jpgH
Blocks(c) ==
  LET columns == (c.jpgW + c.block - 1) \div c.block
      rows == (c.jpgH + c.block - 1) \div c.block
  IN [i \in 1 .. columns * rows |->
       LET left == c.block * ((i - 1) % columns)
           top == c.block * ((i - 1) \div columns)
       IN [left |-> left, top |-> top, right |-> Least(left + c.block, c.jpgW) - 1,
           bottom |-> Least(top + c.block, c.jpgH) - 1]]
Jpeg(c) ==
  IF Refused(c) THEN <<>>
  ELSE FlattenSeq([i \in DOMAIN Blocks(c) |-> jpgWrite(Wanted(c), Blocks(c)[i])])

Steps(c) ==
  CASE c.op = "draw"         -> Draw(c.prims)
    [] c.op = "shape"        -> Shape(c.prims)
    [] c.op = "drawTriangle" -> TriangleLines(c.a, c.b, c.c)
    [] c.op = "fillTriangle" -> FilledTriangle(c.a, c.b, c.c)
    [] c.op = "drawChar"     -> Cell(c.x, c.y)
    [] c.op = "bigChar"      -> BigCharacter(c.x, c.y, c.w, c.h, c.size, c.dots)
    [] c.op = "image"        -> Image(c.p, c.parts)
    [] c.op = "drawJpgFile"  -> Jpeg(c)
    [] c.op = "pushRect"     -> IF c.x > _width \/ c.y > _height \/ c.w = 0 \/ c.h = 0 THEN <<>>
                                ELSE Sent(WindowOf(c), c.w * c.h)
    [] c.op = "setRotation"  -> <<Begin, Madctl(c.m), End, Forget>>

-----------------------------------------------------------------------------
(* the controller *)
Span(r) == r[2] - r[1] + 1
Open(l) == Span(l.cols) > 0 /\ Span(l.rows) > 0

(* where the i-th pixel since RAMWR goes; what is not on the glass is      *)
(* ignored, and a window that ends before it begins takes nothing          *)
Spot(l, i) == <<l.cols[1] + (i % Span(l.cols)), l.rows[1] + ((i \div Span(l.cols)) % Span(l.rows))>>
Written(l, n) ==
  IF Open(l) THEN {Spot(l, i) : i \in l.next .. l.next + n - 1} \cap Glass ELSE {}

(* ((uint32_t)a << 16) | b, for int32_t a and b                            *)
Halves(a, b) == <<IF b < 0 THEN 65535 ELSE a % 65536, b % 65536>>

-----------------------------------------------------------------------------
Doing(op) == todo # <<>> /\ Head(todo).op = op
step == Head(todo)
Sends == stray' = (stray \/ bus # "lcd")

Init ==
  /\ rotation = 0 /\ addr_col = Unknown /\ addr_row = Unknown
  /\ locked = TRUE /\ inTransaction = FALSE /\ bus = "free"
  /\ lcd = [cols |-> <<0, TFT_WIDTH - 1>>, rows |-> <<0, TFT_HEIGHT - 1>>, next |-> 0]
  /\ todo = <<>> /\ call = [op |-> "init"]
  /\ drawn = {} /\ flat = FALSE /\ stray = FALSE

Calling(c) ==
  /\ todo = <<>>
  /\ call' = c /\ todo' = Steps(c) /\ drawn' = {} /\ stray' = FALSE
  /\ flat' = (flat \/ (c.op = "fillTriangle" /\ Flat(c.a, c.b, c.c)))
  /\ UNCHANGED <<rotation, cache, transaction, lcd>>

StaysLocked == locked' = TRUE     \* defect: the flag is not cleared
Unlocks == locked' = FALSE

(* beginTransaction() waits until nobody has the bus                       *)
BeginTransaction ==
  /\ Doing("begin") /\ todo' = Tail(todo)
  /\ \/ locked /\ bus = "free" /\ Unlocks /\ bus' = "lcd"
     \/ ~locked /\ UNCHANGED <<locked, bus>>
  /\ UNCHANGED <<rotation, cache, inTransaction, lcd, call, history>>

Ends == ~inTransaction /\ ~locked

EndTransaction ==
  /\ Doing("end") /\ todo' = Tail(todo)
  /\ \/ Ends /\ locked' = TRUE /\ bus' = "free"
     \/ ~Ends /\ UNCHANGED <<locked, bus>>
  /\ UNCHANGED <<rotation, cache, inTransaction, lcd, call, history>>

EnterTransaction ==
  /\ Doing("enter") /\ todo' = Tail(todo)
  /\ inTransaction' = TRUE
  /\ UNCHANGED <<rotation, cache, locked, bus, lcd, call, history>>

LeaveTransaction ==
  /\ Doing("leave") /\ todo' = Tail(todo)
  /\ inTransaction' = FALSE /\ flat' = FALSE
  /\ UNCHANGED <<rotation, cache, locked, bus, lcd, call, drawn, stray>>

Remembers == UNCHANGED cache      \* defect: the window is no longer that pixel's
Forgets == addr_col' = Unknown /\ addr_row' = Unknown

setAddrWindow ==
  /\ Doing("window") /\ todo' = Tail(todo)
  /\ lcd' = [cols |-> Halves(step.x0, step.x1), rows |-> Halves(step.y0, step.y1), next |-> 0]
  /\ Forgets /\ Sends
  /\ UNCHANGED <<rotation, transaction, call, drawn, flat>>

drawPixel ==
  /\ Doing("dot") /\ todo' = Tail(todo)
  /\ LET l == [cols |-> IF addr_col # step.x THEN <<step.x, step.x>> ELSE lcd.cols,
               rows |-> IF addr_row # step.y THEN <<step.y, step.y>> ELSE lcd.rows, next |-> 0]
     IN /\ lcd' = [l EXCEPT !.next = 1]
        /\ drawn' = drawn \cup Written(l, 1)
  /\ addr_col' = step.x /\ addr_row' = step.y
  /\ Sends
  /\ UNCHANGED <<rotation, transaction, call, flat>>

PushPixels ==
  /\ Doing("words") /\ todo' = Tail(todo)
  /\ drawn' = drawn \cup Written(lcd, step.n)
  /\ lcd' = [lcd EXCEPT !.next = IF Open(lcd)
                                 THEN (@ + step.n) % (Span(lcd.cols) * Span(lcd.rows)) ELSE @]
  /\ Sends
  /\ UNCHANGED <<rotation, cache, transaction, call, flat>>

AsGiven(m) == m                   \* defect: a number that is no rotation
Limited(m) == m % 8

SetMadctl ==
  /\ Doing("madctl") /\ todo' = Tail(todo)
  /\ rotation' = Limited(step.m)
  /\ Sends
  /\ UNCHANGED <<cache, transaction, lcd, call, drawn, flat>>

ForgetWindow ==
  /\ Doing("forget") /\ todo' = Tail(todo)
  /\ Forgets
  /\ UNCHANGED <<rotation, transaction, lcd, call, history>>

(* another task that uses the bus, through beginTransaction() as well      *)
SdTakes ==
  /\ bus = "free" /\ bus' = "sd"
  /\ UNCHANGED <<rotation, cache, locked, inTransaction, lcd, todo, call, history>>
SdGives ==
  /\ bus = "sd" /\ bus' = "free"
  /\ UNCHANGED <<rotation, cache, locked, inTransaction, lcd, todo, call, history>>

Step ==
  \/ BeginTransaction \/ EndTransaction \/ EnterTransaction \/ LeaveTransaction
  \/ setAddrWindow \/ drawPixel \/ PushPixels \/ SetMadctl \/ ForgetWindow
Next == (\E c \in Calls : Calling(c)) \/ Step \/ SdTakes \/ SdGives

Spec == Init /\ [][Next]_vars

(* A call does not stop half way, unless it has to wait for the bus.       *)
FairSpec == Spec /\ WF_vars(Step)

-----------------------------------------------------------------------------
TypeOK ==
  /\ rotation \in 0 .. 7 /\ locked \in BOOLEAN /\ inTransaction \in BOOLEAN
  /\ bus \in {"free", "lcd", "sd"} /\ flat \in BOOLEAN /\ stray \in BOOLEAN
  /\ addr_col \in Nat /\ addr_row \in Nat
  /\ drawn \subseteq Glass

(* What the driver remembers is what the controller has: where drawPixel() *)
(* leaves out the column or the row, the window is that pixel's.           *)
CacheTrue ==
  /\ addr_col # Unknown => lcd.cols = <<addr_col, addr_col>>
  /\ addr_row # Unknown => lcd.rows = <<addr_row, addr_row>>

(* The lock flag says who has the bus.                                     *)
LockMatches == locked <=> bus # "lcd"

(* A call gives the bus back before it returns, and the flags are as they  *)
(* were (but for the early return of fillTriangle(): see README).          *)
GivesBack == todo = <<>> /\ ~flat => locked /\ ~inTransaction

(* All that is sent is sent while the bus is the driver's (but for the     *)
(* enlarged characters on a background: see README).                       *)
OnlyInTransaction == stray => call.op = "bigChar"

(* The bus is taken and given by the flags alone, used in between, and     *)
(* given back before a call returns.                                       *)
BusSound == TypeOK /\ LockMatches /\ OnlyInTransaction /\ GivesBack

(* "protect from interference from other libraries" (Display.cpp:27): no   *)
(* call sends anything outside a transaction.                              *)
Protected == ~stray

(* Where the driver takes the screen to be, a call that returns has drawn  *)
(* its picture, as far as the glass goes, and nothing else; a primitive    *)
(* that begins left of the screen or above it is left out.  The blocks of  *)
(* a JPEG, and the parts of an image, fit together.  In every rotation but *)
(* 5, where the glass goes on beyond the canvas, that is all there is.     *)
Cut(p) == IF p.x < 0 \/ p.y < 0 THEN {} ELSE Area(p) \cap Canvas
Picture(prims) == UNION {Cut(prims[i]) : i \in DOMAIN prims}
PictureOf(c) ==
  CASE c.op \in {"draw", "shape"} -> Picture(c.prims)
    [] c.op = "drawTriangle" -> Picture(drawTriangle(c.a, c.b, c.c))
    [] c.op = "fillTriangle" -> Picture(fillTriangle(c.a, c.b, c.c))
    [] c.op = "drawChar"     -> Cut(Rect(c.x, c.y, 6, 8))
    [] c.op = "bigChar"      -> Cut(Rect(c.x, c.y, c.w * c.size, c.h * c.size))
    [] c.op = "pushRect"     -> Cut(c)
    [] c.op = "image"        -> Cut(c.p)
    [] c.op = "drawJpgFile"  -> IF Refused(c) THEN {}
                                ELSE Cut(Rect(c.x, c.y, Wanted(c).outW, Wanted(c).outH))
    [] OTHER -> {}
Drawn ==
  todo = <<>> => /\ drawn \cap Canvas = PictureOf(call) \cap Glass
                 /\ rotation # 5 => drawn = PictureOf(call)

(* "_width, _height; // Display w/h as modified by current rotation"       *)
(* (Display.h:600): the driver's screen is the glass.                      *)
SizesAgree == Canvas = Glass

(* The bus comes back from the driver, also to a task that draws nothing.  *)
BusComesBack == bus = "lcd" ~> bus # "lcd" \/ flat
=============================================================================
