------------------------------- MODULE Shapes -------------------------------
(***************************************************************************)
(* The drawing algorithms of utility/Display.cpp.  Every shape is drawn    *)
(* with four primitives: drawPixel, drawFastVLine, drawFastHLine and       *)
(* fillRect.  A shape is the sequence of its primitives, before clipping.  *)
(* The integers of the code are 32 bits wide and no intermediate result    *)
(* leaves that range for coordinates that come near a screen.              *)
(***************************************************************************)
EXTENDS Integers, Sequences, SequencesExt

Prim(op, x, y, w, h) == [op |-> op, x |-> x, y |-> y, w |-> w, h |-> h]
Pixel(x, y) == Prim("pixel", x, y, 1, 1)
VLine(x, y, h) == Prim("vline", x, y, 1, h)
HLine(x, y, w) == Prim("hline", x, y, w, 1)
Rect(x, y, w, h) == Prim("rect", x, y, w, h)

(* the pixels a primitive stands for, and a sequence of them               *)
Area(p) == (p.x .. p.x + p.w - 1) \X (p.y .. p.y + p.h - 1)
Covered(prims) == UNION {Area(prims[i]) : i \in DOMAIN prims}

Abs(n) == IF n < 0 THEN -n ELSE n
Half(n) == n \div 2                            (* n >> 1                   *)
Quot(n, d) ==                                  (* n / d, towards zero      *)
  IF (n < 0) = (d < 0) THEN Abs(n) \div Abs(d) ELSE -(Abs(n) \div Abs(d))

(* The passes of a loop: its state before the loop and after every pass.   *)
Passes(goes(_), pass(_), s, bound) ==
  FoldLeft(LAMBDA done, i : IF goes(Last(done)) THEN Append(done, pass(Last(done))) ELSE done,
           <<s>>, [i \in 1 .. bound |-> i])
AfterEach(states, prims(_)) ==
  FlattenSeq([i \in 1 .. Len(states) - 1 |-> prims(states[i + 1])])
BeforeEach(states, prims(_)) ==
  FlattenSeq([i \in 1 .. Len(states) - 1 |-> prims(states[i])])

-----------------------------------------------------------------------------
(* drawLine(): Bresenham's, in runs of the faster axis.  at(s) is the run  *)
(* that ends with s.dlen pixels.                                           *)
Run(steep, xs, y, dlen) ==
  CASE dlen = 0 -> <<>>
    [] dlen > 0 /\ steep -> <<VLine(y, xs, dlen)>>
    [] dlen > 0 /\ ~steep -> <<HLine(xs, y, dlen)>>
OneRun(steep, xs, y, dlen) ==
  IF dlen = 1 THEN <<IF steep THEN Pixel(y, xs) ELSE Pixel(xs, y)>> ELSE Run(steep, xs, y, dlen)

StaysBehind(s, x) == s.xs     \* defect: a run begins where the last one did
RunBegins(s, x) == x + 1

drawLine(ax, ay, bx, by) ==
  LET steep == Abs(by - ay) > Abs(bx - ax)
      p == IF steep THEN <<ay, ax>> ELSE <<ax, ay>>
      q == IF steep THEN <<by, bx>> ELSE <<bx, by>>
      from == IF p[1] > q[1] THEN q ELSE p
      to == IF p[1] > q[1] THEN p ELSE q
      dx == to[1] - from[1]
      dy == Abs(to[2] - from[2])
      ystep == IF from[2] < to[2] THEN 1 ELSE -1
      pass(s) ==
        IF s.err - dy < 0
        THEN [x |-> s.x + 1, y |-> s.y + ystep, err |-> s.err - dy + dx, dlen |-> 0,
              xs |-> RunBegins(s, s.x), out |-> s.out \o OneRun(steep, s.xs, s.y, s.dlen + 1)]
        ELSE [s EXCEPT !.x = @ + 1, !.err = @ - dy, !.dlen = @ + 1]
      end == Last(Passes(LAMBDA s : s.x <= to[1], pass,
                         [x |-> from[1], y |-> from[2], err |-> Half(dx), dlen |-> 0,
                          xs |-> from[1], out |-> <<>>], dx + 1))
  IN end.out \o Run(steep, end.xs, end.y, end.dlen)

-----------------------------------------------------------------------------
(* drawCircle() and fillCircle(): the midpoint algorithm, one octant       *)
Octant(r) ==
  LET pass(s) ==
        LET down == s.p >= 0
            dy == IF down THEN s.dy - 2 ELSE s.dy
        IN [x |-> s.x + 1, r |-> IF down THEN s.r - 1 ELSE s.r, dy |-> dy, dx |-> s.dx + 2,
            p |-> (IF down THEN s.p - dy ELSE s.p) + s.dx + 2]
  IN Passes(LAMBDA s : s.x < s.r, pass,
            [x |-> 0, r |-> r, dx |-> 1, dy |-> r + r, p |-> -Half(r)], r)

drawCircle(x0, y0, r) ==
  <<Pixel(x0 + r, y0), Pixel(x0 - r, y0), Pixel(x0, y0 - r), Pixel(x0, y0 + r)>>
  \o AfterEach(Octant(r), LAMBDA s :
       <<Pixel(x0 + s.x, y0 + s.r), Pixel(x0 - s.x, y0 + s.r),
         Pixel(x0 - s.x, y0 - s.r), Pixel(x0 + s.x, y0 - s.r),
         Pixel(x0 + s.r, y0 + s.x), Pixel(x0 - s.r, y0 + s.x),
         Pixel(x0 - s.r, y0 - s.x), Pixel(x0 + s.r, y0 - s.x)>>)

ShortChord(n) == 2 * n        \* defect: the middle pixel is not counted
Chord(n) == 2 * n + 1

fillCircle(x0, y0, r) ==
  <<VLine(x0, y0 - r, Chord(r))>>
  \o AfterEach(Octant(r), LAMBDA s :
       <<VLine(x0 + s.x, y0 - s.r, Chord(s.r)), VLine(x0 - s.x, y0 - s.r, Chord(s.r)),
         VLine(x0 + s.r, y0 - s.x, Chord(s.x)), VLine(x0 - s.r, y0 - s.x, Chord(s.x))>>)

(* drawCircleHelper() and fillCircleHelper(): the same, another start.     *)
(* corners: of cornername, the bits that are set                           *)
Corner(r) ==
  LET pass(s) ==
        LET down == s.f >= 0
            ddF_y == IF down THEN s.ddF_y + 2 ELSE s.ddF_y
        IN [x |-> s.x + 1, r |-> IF down THEN s.r - 1 ELSE s.r, ddF_x |-> s.ddF_x + 2,
            ddF_y |-> ddF_y, f |-> (IF down THEN s.f + ddF_y ELSE s.f) + s.ddF_x + 2]
  IN Passes(LAMBDA s : s.x < s.r, pass,
            [x |-> 0, r |-> r, f |-> 1 - r, ddF_x |-> 1, ddF_y |-> -2 * r], r)

drawCircleHelper(x0, y0, r, corners) ==
  AfterEach(Corner(r), LAMBDA s :
    (IF 4 \in corners THEN <<Pixel(x0 + s.x, y0 + s.r), Pixel(x0 + s.r, y0 + s.x)>> ELSE <<>>) \o
    (IF 2 \in corners THEN <<Pixel(x0 + s.x, y0 - s.r), Pixel(x0 + s.r, y0 - s.x)>> ELSE <<>>) \o
    (IF 8 \in corners THEN <<Pixel(x0 - s.r, y0 + s.x), Pixel(x0 - s.x, y0 + s.r)>> ELSE <<>>) \o
    (IF 1 \in corners THEN <<Pixel(x0 - s.r, y0 - s.x), Pixel(x0 - s.x, y0 - s.r)>> ELSE <<>>))

SameDelta(delta) == delta     \* defect: the two middle rows are counted as one
MoreDelta(delta) == delta + 1

fillCircleHelper(x0, y0, r, corners, delta) ==
  LET d == MoreDelta(delta) IN
  AfterEach(Corner(r), LAMBDA s :
    (IF 1 \in corners THEN <<VLine(x0 + s.x, y0 - s.r, 2 * s.r + d),
                             VLine(x0 + s.r, y0 - s.x, 2 * s.x + d)>> ELSE <<>>) \o
    (IF 2 \in corners THEN <<VLine(x0 - s.x, y0 - s.r, 2 * s.r + d),
                             VLine(x0 - s.r, y0 - s.x, 2 * s.x + d)>> ELSE <<>>))

-----------------------------------------------------------------------------
(* drawEllipse() and fillEllipse(): from the top down to where the slope   *)
(* is one, then from the side up.  a is the half axis that is walked along *)
EllipseArc(a, b) ==
  LET a2 == a * a
      b2 == b * b
      pass(s) ==
        [u |-> s.u + 1, v |-> IF s.s >= 0 THEN s.v - 1 ELSE s.v,
         s |-> (IF s.s >= 0 THEN s.s + 4 * a2 * (1 - s.v) ELSE s.s) + b2 * (4 * s.u + 6)]
  IN Passes(LAMBDA s : b2 * s.u <= a2 * s.v, pass,
            [u |-> 0, v |-> b, s |-> 2 * b2 + a2 * (1 - 2 * b)], a + b)

FourPixels(x0, y0, x, y) ==
  <<Pixel(x0 + x, y0 + y), Pixel(x0 - x, y0 + y), Pixel(x0 - x, y0 - y), Pixel(x0 + x, y0 - y)>>
UpperLine(x0, y0, x, y) ==    \* defect: only the upper half is filled
  <<HLine(x0 - x, y0 - y, x + x + 1)>>
TwoLines(x0, y0, x, y) ==
  <<HLine(x0 - x, y0 - y, x + x + 1), HLine(x0 - x, y0 + y, x + x + 1)>>

Ellipse(x0, y0, rx, ry, prims(_, _, _, _)) ==
  IF rx < 2 \/ ry < 2 THEN <<>>
  ELSE BeforeEach(EllipseArc(rx, ry), LAMBDA s : prims(x0, y0, s.u, s.v)) \o
       BeforeEach(EllipseArc(ry, rx), LAMBDA s : prims(x0, y0, s.v, s.u))
drawEllipse(x0, y0, rx, ry) == Ellipse(x0, y0, rx, ry, FourPixels)
fillEllipse(x0, y0, rx, ry) == Ellipse(x0, y0, rx, ry, TwoLines)

-----------------------------------------------------------------------------
drawRect(x, y, w, h) ==
  <<HLine(x, y, w), HLine(x, y + h - 1, w), VLine(x, y, h), VLine(x + w - 1, y, h)>>

drawRoundRect(x, y, w, h, r) ==
  <<HLine(x + r, y, w - r - r), HLine(x + r, y + h - 1, w - r - r),
    VLine(x, y + r, h - r - r), VLine(x + w - 1, y + r, h - r - r)>>
  \o drawCircleHelper(x + r, y + r, r, {1})
  \o drawCircleHelper(x + w - r - 1, y + r, r, {2})
  \o drawCircleHelper(x + w - r - 1, y + h - r - 1, r, {4})
  \o drawCircleHelper(x + r, y + h - r - 1, r, {8})

fillRoundRect(x, y, w, h, r) ==
  <<Rect(x + r, y, w - r - r, h)>>
  \o fillCircleHelper(x + w - r - 1, y + r, r, {1}, h - r - r - 1)
  \o fillCircleHelper(x + r, y + r, r, {2}, h - r - r - 1)

-----------------------------------------------------------------------------
drawTriangle(a, b, c) ==
  drawLine(a[1], a[2], b[1], b[2]) \o drawLine(b[1], b[2], c[1], c[2])
  \o drawLine(c[1], c[2], a[1], a[2])

(* fillTriangle() sorts the corners by y with three swaps                  *)
Sorted(a, b, c) ==
  LET s1 == IF a[2] > b[2] THEN <<b, a, c>> ELSE <<a, b, c>>
      s2 == IF s1[2][2] > s1[3][2] THEN <<s1[1], s1[3], s1[2]>> ELSE s1
  IN IF s2[1][2] > s2[2][2] THEN <<s2[2], s2[1], s2[3]>> ELSE s2

Flat(a, b, c) == a[2] = b[2] /\ b[2] = c[2]

FlatLine(s) ==
  LET xs == {s[1][1], s[2][1], s[3][1]}
      left == CHOOSE x \in xs : \A o \in xs : x <= o
      right == CHOOSE x \in xs : \A o \in xs : x >= o
  IN HLine(left, s[1][2], right - left + 1)

(* the row y of a triangle with these sorted corners, by the two edges it  *)
(* crosses; the row of the middle corner is drawn with the lower part      *)
CrossesLate(p, q, y) ==     \* defect: the edge lags by a row
  p[1] + Quot((q[1] - p[1]) * (y - p[2] - 1), q[2] - p[2])
Crossing(p, q, y) == p[1] + Quot((q[1] - p[1]) * (y - p[2]), q[2] - p[2])
UpperPart(s, y) == y < s[2][2] \/ s[2][2] = s[3][2]
Row(s, y) ==
  LET a == IF UpperPart(s, y) THEN Crossing(s[1], s[2], y) ELSE Crossing(s[2], s[3], y)
      b == Crossing(s[1], s[3], y)
  IN IF a > b THEN HLine(b, y, a - b + 1) ELSE HLine(a, y, b - a + 1)

fillTriangle(a, b, c) ==
  LET s == Sorted(a, b, c) IN
  IF Flat(a, b, c) THEN <<FlatLine(s)>>
  ELSE [i \in 1 .. s[3][2] - s[1][2] + 1 |-> Row(s, s[1][2] + i - 1)]
=============================================================================
