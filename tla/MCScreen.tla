------------------------------ MODULE MCScreen ------------------------------
(***************************************************************************)
(* Calls for a screen of a few pixels: every primitive at and over the     *)
(* edges, each kind of shape, text, and pictures pushed into a window.     *)
(***************************************************************************)
EXTENDS Screen

Drawing(prims) == [op |-> "draw", prims |-> prims]
Shaping(prims) == [op |-> "shape", prims |-> prims]

MCCalls ==
  {Drawing(<<Pixel(x, y)>>) : x \in {-1, 1, TFT_WIDTH}, y \in {0, 2}}
  \cup {Drawing(<<p>>) : p \in {VLine(1, 1, 20), HLine(-1, 1, 4), HLine(2, 1, 20),
                                Rect(0, 0, 3, 2), Rect(TFT_WIDTH - 1, 1, 2, 20),
                                Rect(TFT_WIDTH, 0, 1, 1), Rect(1, -1, 2, 3)}}
  \cup {Shaping(s) : s \in {drawLine(0, 0, 3, 1), drawLine(1, 3, 2, 0), drawCircle(1, 1, 1),
                            fillCircle(2, 2, 2), fillEllipse(2, 2, 2, 2),
                            drawRect(0, 1, 3, 3), fillRoundRect(0, 0, 4, 4, 1)}}
  \cup {[op |-> "drawTriangle", a |-> <<0, 0>>, b |-> <<3, 1>>, c |-> <<1, 2>>]}
  \cup {[op |-> "fillTriangle", a |-> <<0, 0>>, b |-> <<3, y>>, c |-> <<1, 2 * y>>] : y \in {0, 1}}
  \cup {[op |-> "drawChar", x |-> x, y |-> 0] : x \in {-2, 1, TFT_WIDTH}}
  \cup {[op |-> "bigChar", x |-> 0, y |-> 0, w |-> 2, h |-> 2, size |-> 2,
         dots |-> <<<<0, 0>>, <<1, 1>>>>]}
  \cup {[op |-> "pushRect", x |-> x, y |-> 1, w |-> 2, h |-> h] : x \in {1, 9}, h \in {0, 2}}
  \cup {[op |-> "image", p |-> Rect(1, 1, 3, 2), parts |-> <<2, 4>>]}
  \cup {[op |-> "drawJpgFile", x |-> x, y |-> 1, maxW |-> maxW, maxH |-> 0, jpgW |-> 7, jpgH |-> 5,
          offX |-> offX, offY |-> 1, block |-> 2] : x \in {0, 1}, maxW \in {0, 3, 5}, offX \in {0, 1, 7}}
  \cup {[op |-> "setRotation", m |-> m] : m \in {0, 1, 5, 14}}
=============================================================================
