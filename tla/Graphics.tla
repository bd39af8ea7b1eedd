------------------------------ MODULE Graphics ------------------------------
(***************************************************************************)
(* Drawing through a clipping rectangle (graphics/graphics.c and           *)
(* graphics_op.c) on a frame buffer (drivers/framebuf.c).  A rectangle is  *)
(* given by left, top, right and bottom; the pixels of right and bottom    *)
(* are not in it, but they are in the window of the device.  Each call     *)
(* works out what is left of its figure and sends the device a window and  *)
(* a number of pixels, or single pixels.  Coordinates are so small that    *)
(* the 16 bits of a short do not matter.                                   *)
(***************************************************************************)
EXTENDS Integers

CONSTANTS
    Width, Height,  \* of the screen
    ByteBits,       \* bits of a byte of bit data: 8
    MaxSize,        \* bound: width and height of what is drawn
    Rates           \* how much bit data is enlarged

ASSUME GraphicsAssumption ==
    /\ {Width, Height, ByteBits, MaxSize} \subseteq Nat \ {0}
    /\ Rates \subseteq Nat \ {0}

VARIABLES
    clip_rect,
    figure,    \* the figure that a call was to draw, "none" between calls
    drawn      \* the pixels it has written: <<x, y, what>>

graphicsVars == <<clip_rect, figure, drawn>>

Rect(l, t, r, b) == [left |-> l, top |-> t, right |-> r, bottom |-> b]
Screen == Rect(0, 0, Width, Height)
Least(a, b) == IF a < b THEN a ELSE b
Most(a, b) == IF a > b THEN a ELSE b
Distance(a, b) == IF a > b THEN a - b ELSE b - a
NoFigure == [op |-> "none"]
Pen == <<0, 0>>  \* what is written where there is no bit data

\* Where calls draw, also partly beside the screen.
Xs == -1..(Width - 1)
Ys == -1..(Height - 1)
Sizes == 0..MaxSize

GraphicsInit == clip_rect = Screen /\ figure = NoFigure /\ drawn = {}

-----------------------------------------------------------------------------
(* The device. *)

\* A count below zero does not end: framebuf_repeat_data() counts it down.
Overrun == {<<-1, -1, Pen>>}

\* Filled from its left top corner, line by line.
RepeatData(w, count) ==
    LET n == Most(w.right - w.left + 1, 1) IN
    IF count < 0 THEN Overrun
    ELSE {<<w.left + (k % n), w.top + k \div n, Pen>> : k \in 0..(count - 1)}

HLineOf(x, y, xe) == RepeatData(Rect(x, y, xe - 1, y), xe - x)
VLineOf(x, y, ye) == RepeatData(Rect(x, y, x, ye - 1), ye - y)

-----------------------------------------------------------------------------
(* Rectangles. *)

AndRect(s1, s2) ==
    IF \/ s1.top > s2.bottom \/ s1.bottom < s2.top
       \/ s1.left > s2.right \/ s1.right < s2.left
    THEN Rect(0, 0, 0, 0)
    ELSE Rect(Most(s1.left, s2.left), Most(s1.top, s2.top),
              Least(s1.right, s2.right), Least(s1.bottom, s2.bottom))

EmptyRect(r) == r.left = r.right \/ r.top = r.bottom

FillRectOf(r) ==
    RepeatData([r EXCEPT !.right = IF r.left < r.right THEN @ - 1 ELSE @,
                         !.bottom = IF r.top < r.bottom THEN @ - 1 ELSE @],
               (r.right - r.left) * (r.bottom - r.top))

-----------------------------------------------------------------------------
(* The pixels that a call writes. *)

DrawPoint(x, y) ==
    IF \/ clip_rect.top > y \/ clip_rect.bottom <= y
       \/ clip_rect.left > x \/ clip_rect.right <= x
    THEN {} ELSE {<<x, y, Pen>>}

DrawHLine(x, y, width) ==
    LET from == Most(x, clip_rect.left)
        xe == Least(x + width, clip_rect.right)
    IN  IF \/ clip_rect.top > y \/ clip_rect.bottom <= y
           \/ clip_rect.right <= x \/ from >= xe
        THEN {} ELSE HLineOf(from, y, xe)

\* Unlike draw_h_line() it does not look whether anything is left.
DrawVLine(x, y, height) ==
    IF \/ clip_rect.left > x \/ clip_rect.right <= x \/ clip_rect.bottom <= y
    THEN {}
    ELSE VLineOf(x, Most(y, clip_rect.top), Least(y + height, clip_rect.bottom))

\* The mistake of not clipping what is not empty.
DrawFillRect_Whole(r) == IF EmptyRect(AndRect(r, clip_rect)) THEN {} ELSE FillRectOf(r)

DrawFillRect(r) ==
    LET d == AndRect(r, clip_rect) IN IF EmptyRect(d) THEN {} ELSE FillRectOf(d)

\* Top, left, bottom and right, each without the corners that are drawn already.
DrawRect(r) ==
    LET d == AndRect(r, clip_rect)
        cuts(e, from, to) == from <= e /\ e <= to
        top == cuts(r.top, clip_rect.top, clip_rect.bottom)
        tw == IF top THEN 1 ELSE 0
        left == cuts(r.left, clip_rect.left, clip_rect.right) /\ d.top + tw < d.bottom
        lw == IF left THEN 1 ELSE 0
        bottom == cuts(r.bottom, clip_rect.top, clip_rect.bottom) /\ d.left + lw < d.right
        bw == IF bottom THEN 1 ELSE 0
        right == cuts(r.right, clip_rect.left, clip_rect.right) /\ d.top + tw < d.bottom - bw
    IN  IF EmptyRect(d) THEN {}
        ELSE UNION {IF top THEN HLineOf(d.left, d.top, d.right) ELSE {},
                    IF left THEN VLineOf(d.left, d.top + tw, d.bottom) ELSE {},
                    IF bottom THEN HLineOf(d.left + lw, d.bottom - 1, d.right) ELSE {},
                    IF right THEN VLineOf(d.right - 1, d.top + tw, d.bottom - bw) ELSE {}}

\* Bit data of width x height, each bit drawn rate by rate (draw_bitdata() for 1).
\* What is clipped at the top and the left is skipped in the data: whole bytes
\* first, then bits, then the part of an enlarged bit.
DrawBits(x, y, width, height, rate) ==
    LET w == Rect(x, y, x + width * rate, y + height * rate)
        d == AndRect(w, clip_rect)
        above == IF clip_rect.top <= w.top /\ w.top < clip_rect.bottom
                   THEN 0 ELSE clip_rect.top - w.top
        before == IF clip_rect.left <= w.left /\ w.left < clip_rect.right
                    THEN 0 ELSE clip_rect.left - w.left
        bytes == (before \div rate) \div ByteBits
        offset == (before \div rate) % ByteBits
        column(i) == (bytes * ByteBits) + offset + ((i + (before % rate)) \div rate)
        line(j) == (above \div rate) + ((j + (above % rate)) \div rate)
    IN  IF rate = 0 \/ EmptyRect(d) THEN {}
        ELSE {<<d.left + i, d.top + j, <<column(i), line(j)>>>> :
                i \in 0..(d.right - d.left - 1), j \in 0..(d.bottom - d.top - 1)}

-----------------------------------------------------------------------------
(* Lines. *)

\* Division as C has it.
Quotient(a, b) ==
    LET q == Distance(a, 0) \div Distance(b, 0) IN IF (a < 0) = (b < 0) THEN q ELSE -q

Point(x, y) == [x |-> x, y |-> y]
Outside == Point(-1, -1)   \* no end of a clipped line

CalcSeqCode(p) ==
    {side \in {"left", "right", "top", "bottom"} :
        CASE side = "left" -> p.x < clip_rect.left
          [] side = "right" -> p.x >= clip_rect.right
          [] side = "top" -> p.y < clip_rect.top
          [] side = "bottom" -> p.y >= clip_rect.bottom}

\* Where the line from p to q meets a column or a row.
AtColumn(p, q, x) == Point(x, Quotient((q.y - p.y) * (x - p.x), q.x - p.x) + p.y)
AtRow(p, q, y) == Point(Quotient((q.x - p.x) * (y - p.y), q.y - p.y) + p.x, y)

\* The sides of the code are tried in this order.
CalcClippedPoint(code, p, q) ==
    LET last == Point(clip_rect.right - 1, clip_rect.bottom - 1)
        onV(c) == c.y >= clip_rect.top /\ c.y <= last.y
        onH(c) == c.x >= clip_rect.left /\ c.x <= last.x
    IN  IF "left" \in code /\ onV(AtColumn(p, q, clip_rect.left)) THEN AtColumn(p, q, clip_rect.left)
        ELSE IF "right" \in code /\ onV(AtColumn(p, q, last.x)) THEN AtColumn(p, q, last.x)
        ELSE IF "top" \in code /\ onH(AtRow(p, q, clip_rect.top)) THEN AtRow(p, q, clip_rect.top)
        ELSE IF "bottom" \in code /\ onH(AtRow(p, q, last.y)) THEN AtRow(p, q, last.y)
        ELSE Outside

\* The second end is cut on the line from the first one, cut already.
Clipping(p, q) ==
    LET code0 == CalcSeqCode(p)
        code1 == CalcSeqCode(q)
        p1 == IF code0 = {} THEN p ELSE CalcClippedPoint(code0, p, q)
        q1 == IF code1 = {} \/ p1 = Outside THEN q ELSE CalcClippedPoint(code1, p1, q)
    IN  IF code0 \cap code1 # {} THEN <<Outside, Outside>> ELSE <<p1, q1>>

\* line(): a step along the longer side, and one along the other when the error
\* says so.
LineOf(p, q) ==
    LET dx == Distance(p.x, q.x)
        dy == Distance(p.y, q.y)
        sx == IF q.x > p.x THEN 1 ELSE -1
        sy == IF q.y > p.y THEN 1 ELSE -1
        long == Most(dx, dy)
        short == Least(dx, dy)
        side[i \in 0..long] ==
            IF i = 0 THEN [steps |-> 0, error |-> -long]
            ELSE LET last == side[i - 1]
                     e == last.error + 2 * short
                 IN  IF e >= 0 THEN [steps |-> last.steps + 1, error |-> e - 2 * long]
                     ELSE [last EXCEPT !.error = e]
    IN  {IF dx >= dy THEN <<p.x + sx * i, p.y + sy * side[i].steps, Pen>>
         ELSE <<p.x + sx * side[i].steps, p.y + sy * i, Pen>> : i \in 0..long}

\* Its right or lower end is not drawn.
DrawLine(x, y, xe, ye) ==
    LET ends == Clipping(Point(IF x > xe THEN x - 1 ELSE x, IF y > ye THEN y - 1 ELSE y),
                         Point(IF xe > x THEN xe - 1 ELSE xe, IF ye > y THEN ye - 1 ELSE ye))
    IN  IF (x = xe /\ y = ye) \/ ends[1] = Outside \/ ends[2] = Outside THEN {}
        ELSE LineOf(ends[1], ends[2])

-----------------------------------------------------------------------------
(* Calls. *)

\* A clipping rectangle that has something on the screen.
SetClipRect ==
    /\ figure = NoFigure
    /\ \E l \in Xs, t \in Ys, r \in 1..(Width + 1), b \in 1..(Height + 1) :
         /\ l < r /\ t < b
         /\ clip_rect' = Rect(Most(l, 0), Most(t, 0), Least(r, Width), Least(b, Height))
    /\ UNCHANGED <<figure, drawn>>

ClearClipRect ==
    figure = NoFigure /\ clip_rect' = Screen /\ UNCHANGED <<figure, drawn>>

Draws(what, pixels) ==
    figure = NoFigure /\ figure' = what /\ drawn' = pixels /\ UNCHANGED clip_rect

DrawsLines ==
    \E x \in Xs, y \in Ys, n \in Sizes :
      \/ Draws([op |-> "point", x |-> x, y |-> y], DrawPoint(x, y))
      \/ Draws([op |-> "hline", x |-> x, y |-> y, n |-> n], DrawHLine(x, y, n))
      \/ Draws([op |-> "vline", x |-> x, y |-> y, n |-> n], DrawVLine(x, y, n))
      \/ \E xe \in -1..(Width + 1), ye \in -1..(Height + 1) :
           Draws([op |-> "line", x |-> x, y |-> y, xe |-> xe, ye |-> ye], DrawLine(x, y, xe, ye))

DrawsAreas ==
    \E x \in Xs, y \in Ys, w \in Sizes, h \in Sizes :
      LET r == Rect(x, y, x + w, y + h) IN
      \/ Draws([op |-> "rect", rect |-> r], DrawRect(r))
      \/ Draws([op |-> "fillrect", rect |-> r], DrawFillRect(r))
      \/ \E rate \in Rates :
           Draws([op |-> "bits", rect |-> Rect(x, y, x + w * rate, y + h * rate), rate |-> rate],
                 DrawBits(x, y, w, h, rate))

Returns == figure # NoFigure /\ figure' = NoFigure /\ drawn' = {} /\ UNCHANGED clip_rect

GraphicsNext == SetClipRect \/ ClearClipRect \/ DrawsLines \/ DrawsAreas \/ Returns

GraphicsSpec == GraphicsInit /\ [][GraphicsNext]_graphicsVars

-----------------------------------------------------------------------------
(* Properties. *)

GraphicsTypeOK ==
    /\ clip_rect \in [left : 0..Width, top : 0..Height, right : 0..Width, bottom : 0..Height]
    /\ clip_rect.left < clip_rect.right /\ clip_rect.top < clip_rect.bottom

\* What a pixel of the figure is written with, were nothing clipped: nothing, the
\* pen or a bit of the data.
In(x, y, r) == x \in r.left..(r.right - 1) /\ y \in r.top..(r.bottom - 1)
OnEdge(x, y, r) == x \in {r.left, r.right - 1} \/ y \in {r.top, r.bottom - 1}
Asked(x, y) ==
    CASE figure.op = "point" -> IF x = figure.x /\ y = figure.y THEN {Pen} ELSE {}
      [] figure.op = "hline" ->
           IF y = figure.y /\ x \in figure.x..(figure.x + figure.n - 1) THEN {Pen} ELSE {}
      [] figure.op = "vline" ->
           IF x = figure.x /\ y \in figure.y..(figure.y + figure.n - 1) THEN {Pen} ELSE {}
      [] figure.op = "fillrect" -> IF In(x, y, figure.rect) THEN {Pen} ELSE {}
      [] figure.op = "rect" ->
           IF In(x, y, figure.rect) /\ OnEdge(x, y, figure.rect) THEN {Pen} ELSE {}
      [] figure.op = "bits" ->
           IF In(x, y, figure.rect)
             THEN {<<(x - figure.rect.left) \div figure.rate,
                     (y - figure.rect.top) \div figure.rate>>}
             ELSE {}

\* A vertical line that ends above the clipping rectangle.
EndsAbove == figure.op = "vline" /\ figure.y + figure.n < clip_rect.top

\* What is drawn is the figure, each pixel of it with its own bit of the data,
\* as far as it is inside the clipping rectangle, and nothing else.  Excepted is
\* the vertical line for which draw_v_line() sends the device a count below zero.
FiguresAreClipped ==
    figure.op \notin {"none", "line"} /\ ~ EndsAbove =>
        drawn = UNION {{<<x, y, what>> : what \in Asked(x, y)} :
                         x \in clip_rect.left..(clip_rect.right - 1),
                         y \in clip_rect.top..(clip_rect.bottom - 1)}

\* A line stays in the clipping rectangle, wherever it is cut, and has one pixel
\* in each column, or in each row.
LinesAreClipped ==
    figure.op = "line" =>
        /\ \A p \in drawn : In(p[1], p[2], clip_rect)
        /\ \/ \A p, q \in drawn : p[1] = q[1] => p = q
           \/ \A p, q \in drawn : p[2] = q[2] => p = q

\* Drawing keeps to the clipping rectangle.
GraphicsInv == GraphicsTypeOK /\ FiguresAreClipped /\ LinesAreClipped

=============================================================================
