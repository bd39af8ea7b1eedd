---------------------------- MODULE DisplayProofs ----------------------------
(*****************************************************************************)
(* What is shown to the user, and how a song is decoded.  Graphics: what is  *)
(* drawn is the figure that was asked for, cut at the clipping rectangle,    *)
(* for every size of the screen and of what is drawn.  LogBuf: a search of   *)
(* the log ends, finds the record that is sought and prints that one alone,  *)
(* for every size of the log and of its stamps.  LineEdit: the terminal      *)
(* shows the line that is edited, for every length of a line and of the      *)
(* history.  SoundPlay: the player and the task that decodes its songs stay  *)
(* in step, as long as no wait of the player times out.                      *)
(*****************************************************************************)
EXTENDS Graphics, LogBuf, LineEdit, SoundPlay, SeqLemmas

-----------------------------------------------------------------------------
(* Numbers. *)

\* Division with a remainder.
LEMMA Division ==
    ASSUME NEW k \in Int, NEW n \in Nat \ {0}
    PROVE  k \div n \in Int /\ k % n \in 0 .. (n - 1) /\ k = n * (k \div n) + (k % n)
OBVIOUS

\* A smaller quotient leaves room for the divisor.
LEMMA SmallerProducts ==
    ASSUME NEW n \in Nat \ {0}, NEW q \in Int, NEW h \in Int, q < h
    PROVE  n * q + n <= n * h
<1>1. q + 1 <= h /\ h - (q + 1) \in Nat
  OBVIOUS
<1>2. n * (h - (q + 1)) >= 0
  BY <1>1
<1>3. n * (h - (q + 1)) = n * h - n * q - n
  OBVIOUS
<1>4. n * h \in Int /\ n * q \in Int
  OBVIOUS
<1> QED
  BY <1>2, <1>3, <1>4

\* There is only one way to divide.
LEMMA DivisionIsUnique ==
    ASSUME NEW k \in Int, NEW n \in Nat \ {0}, NEW q \in Int, NEW r \in 0 .. (n - 1),
           k = n * q + r
    PROVE  k \div n = q /\ k % n = r
<1> DEFINE d == k \div n
           m == k % n
<1>1. d \in Int /\ m \in 0 .. (n - 1) /\ k = n * d + m
  BY Division
<1> HIDE DEF d, m
<1>2. n * q \in Int /\ n * d \in Int
  BY <1>1
<1>3. ~ (d < q)
  BY <1>1, <1>2, SmallerProducts
<1>4. ~ (q < d)
  BY <1>1, <1>2, SmallerProducts
<1>5. d = q
  BY <1>1, <1>3, <1>4
<1>6. m = r
  BY <1>1, <1>2, <1>5
<1> QED
  BY <1>5, <1>6 DEF d, m

-----------------------------------------------------------------------------
(* Drawing. *)

\* The device fills a window of n columns and h rows with n * h pixels.
Window(l, t, b, n, h) == RepeatData(Rect(l, t, l + n - 1, b), n * h)

\* Each pixel of the window, and no other, is written.
LEMMA FilledWindow ==
    ASSUME NEW l \in Int, NEW t \in Int, NEW b, NEW n \in Nat \ {0}, NEW h \in Nat, NEW p
    PROVE  p \in Window(l, t, b, n, h) <=>
              \E x \in l .. (l + n - 1), y \in t .. (t + h - 1) : p = <<x, y, Pen>>
<1> DEFINE w == Rect(l, t, l + n - 1, b)
<1>1. n * h \in Nat /\ ~ (n * h < 0)
  OBVIOUS
<1>2. w.left = l /\ w.top = t /\ w.right = l + n - 1
  BY DEF Rect
<1>3. Most(w.right - w.left + 1, 1) = n
  BY <1>2 DEF Most
<1> HIDE DEF w
<1>4. RepeatData(w, n * h) = {<<l + (k % n), t + k \div n, Pen>> : k \in 0 .. (n * h - 1)}
  BY <1>1, <1>2, <1>3 DEF RepeatData
<1>5. ASSUME NEW k \in 0 .. (n * h - 1), p = <<l + (k % n), t + k \div n, Pen>>
      PROVE  \E x \in l .. (l + n - 1), y \in t .. (t + h - 1) : p = <<x, y, Pen>>
  <2>1. k \in Int /\ n * h \in Int /\ 0 <= k /\ k < n * h
    BY <1>1
  <2> DEFINE q == k \div n
             m == k % n
  <2>2. q \in Int /\ m \in 0 .. (n - 1) /\ k = n * q + m
    BY <2>1, Division
  <2> HIDE DEF q, m
  <2>3. n * q \in Int
    BY <2>2
  <2>4. q < h
    <3>1. CASE q = h
      BY <2>1, <2>2, <3>1
    <3>2. CASE h < q
      <4>1. n * h + n <= n * q
        BY <2>2, <3>2, SmallerProducts
      <4> QED
        BY <2>1, <2>2, <2>3, <4>1
    <3> QED
      BY <2>2, <3>1, <3>2
  <2>5. 0 <= q
    <3>1. CASE q < 0
      <4>1. n * q + n <= n * 0
        BY <2>2, <3>1, SmallerProducts
      <4>2. n * 0 = 0
        OBVIOUS
      <4> QED
        BY <2>1, <2>2, <2>3, <4>1, <4>2
    <3> QED
      BY <2>2, <3>1
  <2>6. l + m \in l .. (l + n - 1) /\ t + q \in t .. (t + h - 1)
    BY <2>2, <2>4, <2>5
  <2>7. p = <<l + m, t + q, Pen>>
    BY <1>5 DEF q, m
  <2> QED
    BY <2>6, <2>7
<1>6. ASSUME NEW x \in l .. (l + n - 1), NEW y \in t .. (t + h - 1), p = <<x, y, Pen>>
      PROVE  \E k \in 0 .. (n * h - 1) : p = <<l + (k % n), t + k \div n, Pen>>
  <2> DEFINE q == y - t
             m == x - l
             k == n * q + m
  <2>1. q \in Nat /\ q < h /\ m \in 0 .. (n - 1)
    OBVIOUS
  <2> HIDE DEF q, m
  <2>2. n * q \in Nat /\ n * q + n <= n * h
    BY <2>1, SmallerProducts
  <2>3. k \in 0 .. (n * h - 1)
    BY <1>1, <2>1, <2>2
  <2>4. k \div n = q /\ k % n = m
    BY <2>1, <2>2, DivisionIsUnique
  <2>5. p = <<l + m, t + q, Pen>>
    BY <1>6 DEF q, m
  <2> HIDE DEF k
  <2> QED
    BY <2>3, <2>4, <2>5
<1> QED
  BY <1>4, <1>5, <1>6 DEF w, Window

\* A horizontal line and a vertical one.
LEMMA HLinePixels ==
    ASSUME NEW x \in Int, NEW y \in Int, NEW xe \in Int, x < xe, NEW p
    PROVE  p \in HLineOf(x, y, xe) <=> \E i \in x .. (xe - 1) : p = <<i, y, Pen>>
<1>1. PICK n \in Nat \ {0}, h \in Nat : n = xe - x /\ h = 1
  OBVIOUS
<1>2. xe - 1 = x + n - 1 /\ xe - x = n * h /\ y .. (y + h - 1) = {y}
  BY <1>1
<1>3. p \in Window(x, y, y, n, h) <=>
         \E i \in x .. (x + n - 1), j \in y .. (y + h - 1) : p = <<i, j, Pen>>
  BY FilledWindow
<1> QED
  BY <1>2, <1>3 DEF HLineOf, Window

\* A column of pixels.
LEMMA VLinePixels ==
    ASSUME NEW x \in Int, NEW y \in Int, NEW ye \in Int, y <= ye, NEW p
    PROVE  p \in VLineOf(x, y, ye) <=> \E j \in y .. (ye - 1) : p = <<x, j, Pen>>
<1>1. PICK n \in Nat \ {0}, h \in Nat : n = 1 /\ h = ye - y
  OBVIOUS
<1>2. x = x + n - 1 /\ ye - y = n * h /\ y + h - 1 = ye - 1 /\ x .. x = {x}
  BY <1>1
<1>3. p \in Window(x, y, ye - 1, n, h) <=>
         \E i \in x .. (x + n - 1), j \in y .. (y + h - 1) : p = <<i, j, Pen>>
  BY FilledWindow
<1> QED
  BY <1>2, <1>3 DEF VLineOf, Window

\* The clipping rectangle, and its numbers.
LEMMA ClipNumbers ==
    ASSUME GraphicsTypeOK
    PROVE  /\ clip_rect.left \in Int /\ clip_rect.top \in Int
           /\ clip_rect.right \in Int /\ clip_rect.bottom \in Int
           /\ clip_rect.left < clip_rect.right /\ clip_rect.top < clip_rect.bottom
           /\ 0 <= clip_rect.left /\ 0 <= clip_rect.top
           /\ clip_rect.right <= Width /\ clip_rect.bottom <= Height
           /\ Width \in Nat \ {0} /\ Height \in Nat \ {0}
BY GraphicsAssumption DEF GraphicsTypeOK

\* Which pixels each call writes.
LEMMA PointPixels ==
    ASSUME GraphicsTypeOK, NEW x \in Int, NEW y \in Int, NEW p
    PROVE  p \in DrawPoint(x, y) <=> In(x, y, clip_rect) /\ p = <<x, y, Pen>>
BY ClipNumbers DEF DrawPoint, In

\* A horizontal line, as far as it is inside (draw_h_line()).
LEMMA HLineClipped ==
    ASSUME GraphicsTypeOK, NEW x \in Int, NEW y \in Int, NEW n \in Nat, NEW p
    PROVE  p \in DrawHLine(x, y, n) <=>
              \E i \in x .. (x + n - 1) : In(i, y, clip_rect) /\ p = <<i, y, Pen>>
<1> DEFINE from == Most(x, clip_rect.left)
           xe == Least(x + n, clip_rect.right)
<1>1. from \in Int /\ xe \in Int
      /\ \A i \in Int : i \in from .. (xe - 1) <=>
            i \in x .. (x + n - 1) /\ i \in clip_rect.left .. (clip_rect.right - 1)
  BY ClipNumbers DEF Most, Least
<1>2. DrawHLine(x, y, n) =
         IF \/ clip_rect.top > y \/ clip_rect.bottom <= y
            \/ clip_rect.right <= x \/ from >= xe
         THEN {} ELSE HLineOf(from, y, xe)
  BY DEF DrawHLine
<1>3. clip_rect.right <= x => from >= xe
  BY ClipNumbers DEF Most, Least
<1> HIDE DEF from, xe
<1>4. CASE from >= xe \/ clip_rect.top > y \/ clip_rect.bottom <= y
  BY <1>1, <1>2, <1>4, ClipNumbers DEF In
<1>5. CASE from < xe /\ y \in clip_rect.top .. (clip_rect.bottom - 1)
  <2>1. DrawHLine(x, y, n) = HLineOf(from, y, xe)
    BY <1>1, <1>2, <1>3, <1>5, ClipNumbers
  <2>2. p \in HLineOf(from, y, xe) <=> \E i \in from .. (xe - 1) : p = <<i, y, Pen>>
    BY <1>1, <1>5, HLinePixels
  <2> QED
    BY <1>1, <1>5, <2>1, <2>2 DEF In
<1> QED
  BY <1>1, <1>4, <1>5, ClipNumbers

\* A vertical line that does not end above (draw_v_line()).
LEMMA VLineClipped ==
    ASSUME GraphicsTypeOK, NEW x \in Int, NEW y \in Int, NEW n \in Nat,
           ~ (y + n < clip_rect.top), NEW p
    PROVE  p \in DrawVLine(x, y, n) <=>
              \E j \in y .. (y + n - 1) : In(x, j, clip_rect) /\ p = <<x, j, Pen>>
<1> DEFINE from == Most(y, clip_rect.top)
           ye == Least(y + n, clip_rect.bottom)
<1>1. from \in Int /\ ye \in Int
      /\ \A j \in Int : j \in from .. (ye - 1) <=>
            j \in y .. (y + n - 1) /\ j \in clip_rect.top .. (clip_rect.bottom - 1)
  BY ClipNumbers DEF Most, Least
<1>2. DrawVLine(x, y, n) =
         IF \/ clip_rect.left > x \/ clip_rect.right <= x \/ clip_rect.bottom <= y
         THEN {} ELSE VLineOf(x, from, ye)
  BY DEF DrawVLine
<1>3. /\ clip_rect.bottom <= y => from >= ye
      /\ clip_rect.bottom > y => from <= ye
  BY ClipNumbers DEF Most, Least
<1> HIDE DEF from, ye
<1>4. CASE clip_rect.left > x \/ clip_rect.right <= x \/ clip_rect.bottom <= y
  BY <1>1, <1>2, <1>3, <1>4, ClipNumbers DEF In
<1>5. CASE x \in clip_rect.left .. (clip_rect.right - 1) /\ clip_rect.bottom > y
  <2>1. DrawVLine(x, y, n) = VLineOf(x, from, ye)
    BY <1>2, <1>5, ClipNumbers
  <2>2. p \in VLineOf(x, from, ye) <=> \E j \in from .. (ye - 1) : p = <<x, j, Pen>>
    BY <1>1, <1>3, <1>5, VLinePixels
  <2> QED
    BY <1>1, <1>5, <2>1, <2>2 DEF In
<1> QED
  BY <1>4, <1>5, ClipNumbers

\* What is left of a rectangle.
LEMMA Intersection ==
    ASSUME GraphicsTypeOK, NEW l \in Int, NEW t \in Int, NEW r \in Int, NEW b \in Int,
           l <= r, t <= b
    PROVE  LET d == AndRect(Rect(l, t, r, b), clip_rect)
           IN  /\ d.left \in Int /\ d.top \in Int /\ d.right \in Int /\ d.bottom \in Int
               /\ d = Rect(d.left, d.top, d.right, d.bottom)
               /\ EmptyRect(d) => \A x, y \in Int : ~ (In(x, y, Rect(l, t, r, b)) /\ In(x, y, clip_rect))
               /\ ~ EmptyRect(d) =>
                     /\ d.left < d.right /\ d.top < d.bottom
                     /\ d.left = Most(l, clip_rect.left) /\ d.right = Least(r, clip_rect.right)
                     /\ d.top = Most(t, clip_rect.top) /\ d.bottom = Least(b, clip_rect.bottom)
                     /\ \A x, y \in Int :
                           In(x, y, d) <=> In(x, y, Rect(l, t, r, b)) /\ In(x, y, clip_rect)
<1> DEFINE s == Rect(l, t, r, b)
           d == AndRect(s, clip_rect)
<1>1. s.left = l /\ s.top = t /\ s.right = r /\ s.bottom = b
  BY DEF Rect
<1>2. d = IF \/ t > clip_rect.bottom \/ b < clip_rect.top
             \/ l > clip_rect.right \/ r < clip_rect.left
          THEN Rect(0, 0, 0, 0)
          ELSE Rect(Most(l, clip_rect.left), Most(t, clip_rect.top),
                    Least(r, clip_rect.right), Least(b, clip_rect.bottom))
  BY <1>1 DEF AndRect
<1> HIDE DEF s, d
<1>3. CASE \/ t > clip_rect.bottom \/ b < clip_rect.top
           \/ l > clip_rect.right \/ r < clip_rect.left
  <2>1. /\ d = Rect(0, 0, 0, 0) /\ d.left = 0 /\ d.top = 0 /\ d.right = 0 /\ d.bottom = 0
    BY <1>2, <1>3 DEF Rect
  <2>2. \A x, y \in Int : ~ (In(x, y, s) /\ In(x, y, clip_rect))
    BY <1>1, <1>3, ClipNumbers DEF In
  <2> QED
    BY <2>1, <2>2 DEF EmptyRect, s, d
<1>4. CASE ~ (\/ t > clip_rect.bottom \/ b < clip_rect.top
              \/ l > clip_rect.right \/ r < clip_rect.left)
  <2>1. /\ d.left = Most(l, clip_rect.left) /\ d.right = Least(r, clip_rect.right)
        /\ d.top = Most(t, clip_rect.top) /\ d.bottom = Least(b, clip_rect.bottom)
        /\ d = Rect(d.left, d.top, d.right, d.bottom)
    BY <1>2, <1>4 DEF Rect
  <2>2. /\ d.left \in Int /\ d.top \in Int /\ d.right \in Int /\ d.bottom \in Int
        /\ d.left <= d.right /\ d.top <= d.bottom
    BY <1>4, <2>1, ClipNumbers DEF Most, Least
  <2>3. \A x, y \in Int : In(x, y, d) <=> In(x, y, s) /\ In(x, y, clip_rect)
    BY <1>1, <2>1, ClipNumbers DEF In, Most, Least
  <2>4. EmptyRect(d) => \A x, y \in Int : ~ In(x, y, d)
    BY <2>2 DEF In, EmptyRect
  <2>5. ~ EmptyRect(d) => d.left < d.right /\ d.top < d.bottom
    BY <2>2 DEF EmptyRect
  <2> QED
    BY <2>1, <2>2, <2>3, <2>4, <2>5 DEF s, d
<1> QED
  BY <1>3, <1>4

\* The pixels of a rectangle that is not empty.
LEMMA FillRectPixels ==
    ASSUME NEW l \in Int, NEW t \in Int, NEW r \in Int, NEW b \in Int, l < r, t < b, NEW p
    PROVE  p \in FillRectOf(Rect(l, t, r, b)) <=>
              \E x \in l .. (r - 1), y \in t .. (b - 1) : p = <<x, y, Pen>>
<1>1. PICK n \in Nat \ {0}, h \in Nat : n = r - l /\ h = b - t
  OBVIOUS
<1>2. FillRectOf(Rect(l, t, r, b)) = RepeatData(Rect(l, t, r - 1, b - 1), (r - l) * (b - t))
  <2>1. [Rect(l, t, r, b) EXCEPT !.right = r - 1, !.bottom = b - 1] = Rect(l, t, r - 1, b - 1)
    <3> DEFINE s == Rect(l, t, r, b)
               e == [s EXCEPT !.right = r - 1, !.bottom = b - 1]
    <3>1. /\ s \in [left : Int, top : Int, right : Int, bottom : Int]
          /\ s.left = l /\ s.top = t /\ s.right = r /\ s.bottom = b
      BY DEF Rect
    <3> HIDE DEF s
    <3>2. /\ e \in [left : Int, top : Int, right : Int, bottom : Int]
          /\ e.left = l /\ e.top = t /\ e.right = r - 1 /\ e.bottom = b - 1
      <4>1. e \in [left : Int, top : Int, right : Int, bottom : Int]
        <5>1. r - 1 \in Int /\ b - 1 \in Int
          OBVIOUS
        <5> QED
          BY <3>1, <5>1
      <4>2. e.left = l /\ e.top = t
        BY <3>1
      <4>3. e.right = r - 1
        BY <3>1
      <4>4. e.bottom = b - 1
        BY <3>1
      <4> QED
        BY <4>1, <4>2, <4>3, <4>4
    <3> HIDE DEF e
    <3>3. e = Rect(l, t, r - 1, b - 1)
      BY <3>2 DEF Rect
    <3> QED
      BY <3>3 DEF e, s
  <2>2. /\ Rect(l, t, r, b).left = l /\ Rect(l, t, r, b).top = t
        /\ Rect(l, t, r, b).right = r /\ Rect(l, t, r, b).bottom = b
    BY DEF Rect
  <2> QED
    BY <2>1, <2>2 DEF FillRectOf
<1>3. FillRectOf(Rect(l, t, r, b)) = Window(l, t, b - 1, n, h)
  <2>1. l + n - 1 = r - 1 /\ (r - l) * (b - t) = n * h
    BY <1>1
  <2> QED
    BY <1>2, <2>1 DEF Window
<1>4. p \in Window(l, t, b - 1, n, h) <=>
         \E x \in l .. (l + n - 1), y \in t .. (t + h - 1) : p = <<x, y, Pen>>
  BY FilledWindow
<1>5. l + n - 1 = r - 1 /\ t + h - 1 = b - 1
  BY <1>1
<1> QED
  BY <1>3, <1>4, <1>5

\* A filled rectangle is filled as far as it is inside (draw_fill_rect()).
LEMMA FillRectClipped ==
    ASSUME GraphicsTypeOK, NEW l \in Int, NEW t \in Int, NEW r \in Int, NEW b \in Int,
           l <= r, t <= b, NEW p
    PROVE  p \in DrawFillRect(Rect(l, t, r, b)) <=>
              \E x, y \in Int : /\ In(x, y, Rect(l, t, r, b)) /\ In(x, y, clip_rect)
                               /\ p = <<x, y, Pen>>
<1> DEFINE s == Rect(l, t, r, b)
           d == AndRect(s, clip_rect)
<1>1. /\ d.left \in Int /\ d.top \in Int /\ d.right \in Int /\ d.bottom \in Int
      /\ d = Rect(d.left, d.top, d.right, d.bottom)
      /\ EmptyRect(d) => \A x, y \in Int : ~ (In(x, y, s) /\ In(x, y, clip_rect))
      /\ ~ EmptyRect(d) => /\ d.left < d.right /\ d.top < d.bottom
                           /\ \A x, y \in Int :
                                 In(x, y, d) <=> In(x, y, s) /\ In(x, y, clip_rect)
  BY Intersection
<1>2. DrawFillRect(s) = IF EmptyRect(d) THEN {} ELSE FillRectOf(d)
  BY DEF DrawFillRect
<1> HIDE DEF s, d
<1>3. CASE EmptyRect(d)
  BY <1>1, <1>2, <1>3 DEF s
<1>4. CASE ~ EmptyRect(d)
  <2>1. p \in FillRectOf(d) <=>
           \E x \in d.left .. (d.right - 1), y \in d.top .. (d.bottom - 1) : p = <<x, y, Pen>>
    <3>1. PICK dl \in Int, dt \in Int, dr \in Int, db \in Int :
             /\ dl = d.left /\ dt = d.top /\ dr = d.right /\ db = d.bottom
             /\ dl < dr /\ dt < db /\ d = Rect(dl, dt, dr, db)
      BY <1>1, <1>4
    <3>2. p \in FillRectOf(Rect(dl, dt, dr, db)) <=>
             \E x \in dl .. (dr - 1), y \in dt .. (db - 1) : p = <<x, y, Pen>>
      <4>1. dl < dr /\ dt < db
        BY <3>1
      <4> QED
        BY <4>1, FillRectPixels, SMTT(30)
    <3> QED
      BY <3>1, <3>2
  <2>2. p \in FillRectOf(d) <=> \E x, y \in Int : In(x, y, d) /\ p = <<x, y, Pen>>
    BY <1>1, <2>1 DEF In
  <2> QED
    BY <1>1, <1>2, <1>4, <2>2 DEF s
<1> QED
  BY <1>3, <1>4

\* The four edges, without drawing a corner twice (draw_rect()).
LEMMA RectClipped ==
    ASSUME GraphicsTypeOK, NEW l \in Int, NEW t \in Int, NEW r \in Int, NEW b \in Int,
           l <= r, t <= b, NEW p
    PROVE  p \in DrawRect(Rect(l, t, r, b)) <=>
              \E x, y \in Int : /\ In(x, y, Rect(l, t, r, b)) /\ OnEdge(x, y, Rect(l, t, r, b))
                               /\ In(x, y, clip_rect) /\ p = <<x, y, Pen>>
<1> DEFINE s == Rect(l, t, r, b)
           d == AndRect(s, clip_rect)
           top == clip_rect.top <= t /\ t <= clip_rect.bottom
           tw == IF top THEN 1 ELSE 0
           left == clip_rect.left <= l /\ l <= clip_rect.right /\ d.top + tw < d.bottom
           lw == IF left THEN 1 ELSE 0
           bottom == clip_rect.top <= b /\ b <= clip_rect.bottom /\ d.left + lw < d.right
           bw == IF bottom THEN 1 ELSE 0
           right == clip_rect.left <= r /\ r <= clip_rect.right /\ d.top + tw < d.bottom - bw
<1>1. /\ d.left \in Int /\ d.top \in Int /\ d.right \in Int /\ d.bottom \in Int
      /\ EmptyRect(d) => \A x, y \in Int : ~ (In(x, y, s) /\ In(x, y, clip_rect))
      /\ ~ EmptyRect(d) =>
            /\ d.left < d.right /\ d.top < d.bottom
            /\ d.left = Most(l, clip_rect.left) /\ d.right = Least(r, clip_rect.right)
            /\ d.top = Most(t, clip_rect.top) /\ d.bottom = Least(b, clip_rect.bottom)
            /\ \A x, y \in Int : In(x, y, d) <=> In(x, y, s) /\ In(x, y, clip_rect)
  BY Intersection
<1>2. s.left = l /\ s.top = t /\ s.right = r /\ s.bottom = b
  BY DEF Rect
<1>3. DrawRect(s) =
         IF EmptyRect(d) THEN {}
         ELSE UNION {IF top THEN HLineOf(d.left, d.top, d.right) ELSE {},
                     IF left THEN VLineOf(d.left, d.top + tw, d.bottom) ELSE {},
                     IF bottom THEN HLineOf(d.left + lw, d.bottom - 1, d.right) ELSE {},
                     IF right THEN VLineOf(d.right - 1, d.top + tw, d.bottom - bw) ELSE {}}
  <2> HIDE DEF d
  <2>1. AndRect(s, clip_rect) = d
    BY DEF d
  <2> HIDE DEF s
  <2> QED
    BY <1>2, <2>1 DEF DrawRect
<1>4. CASE EmptyRect(d)
  <2> HIDE DEF s, d
  <2> QED
    BY <1>1, <1>3, <1>4 DEF s
<1>5. CASE ~ EmptyRect(d)
  <2>1. PICK dl \in Int, dt \in Int, dr \in Int, db \in Int :
           dl = d.left /\ dt = d.top /\ dr = d.right /\ db = d.bottom
    BY <1>1
  <2>2. /\ dl < dr /\ dt < db
        /\ dl = Most(l, clip_rect.left) /\ dr = Least(r, clip_rect.right)
        /\ dt = Most(t, clip_rect.top) /\ db = Least(b, clip_rect.bottom)
    BY <1>1, <1>5, <2>1
  <2>3. PICK etw \in {0, 1}, elw \in {0, 1}, ebw \in {0, 1} :
           etw = tw /\ elw = lw /\ ebw = bw
    OBVIOUS
  <2>4. p \in DrawRect(s) <=>
           \/ top /\ p \in HLineOf(dl, dt, dr)
           \/ left /\ p \in VLineOf(dl, dt + etw, db)
           \/ bottom /\ p \in HLineOf(dl + elw, db - 1, dr)
           \/ right /\ p \in VLineOf(dr - 1, dt + etw, db - ebw)
    <3> HIDE DEF s, d, top, tw, left, lw, bottom, bw, right
    <3> QED
      BY <1>3, <1>5, <2>1, <2>3
  <2>5. /\ etw = (IF top THEN 1 ELSE 0)
        /\ elw = (IF left THEN 1 ELSE 0)
        /\ ebw = (IF bottom THEN 1 ELSE 0)
        /\ left <=> clip_rect.left <= l /\ l <= clip_rect.right /\ dt + etw < db
        /\ bottom <=> clip_rect.top <= b /\ b <= clip_rect.bottom /\ dl + elw < dr
        /\ right <=> clip_rect.left <= r /\ r <= clip_rect.right /\ dt + etw < db - ebw
    BY <2>1, <2>3
  <2>6. top <=> clip_rect.top <= t /\ t <= clip_rect.bottom
    OBVIOUS
  <2>7. \A x, y \in Int : In(x, y, s) /\ In(x, y, clip_rect) <=>
                           x \in dl .. (dr - 1) /\ y \in dt .. (db - 1)
    <3> HIDE DEF s, d
    <3> QED
      BY <1>1, <1>5, <2>1 DEF In
  <2>8. \A x, y \in Int : OnEdge(x, y, s) <=> x \in {l, r - 1} \/ y \in {t, b - 1}
    BY <1>2 DEF OnEdge
  <2> HIDE DEF s, d, top, tw, left, lw, bottom, bw, right
  <2>9. p \in DrawRect(s) <=>
           \/ top /\ \E i \in dl .. (dr - 1) : p = <<i, dt, Pen>>
           \/ left /\ \E j \in (dt + etw) .. (db - 1) : p = <<dl, j, Pen>>
           \/ bottom /\ \E i \in (dl + elw) .. (dr - 1) : p = <<i, db - 1, Pen>>
           \/ right /\ \E j \in (dt + etw) .. (db - ebw - 1) : p = <<dr - 1, j, Pen>>
    <3>1. top => (p \in HLineOf(dl, dt, dr) <=> \E i \in dl .. (dr - 1) : p = <<i, dt, Pen>>)
      <4>1. PICK x \in Int, y \in Int, xe \in Int : x = dl /\ y = dt /\ xe = dr /\ x < xe
        BY <2>2
      <4>2. p \in HLineOf(x, y, xe) <=> \E i \in x .. (xe - 1) : p = <<i, y, Pen>>
        BY <4>1, HLinePixels
      <4> QED
        BY <4>1, <4>2
    <3>2. left => (p \in VLineOf(dl, dt + etw, db) <=>
                     \E j \in (dt + etw) .. (db - 1) : p = <<dl, j, Pen>>)
      <4>1. PICK y \in Int : y = dt + etw
        OBVIOUS
      <4>2. left => y <= db
        BY <2>5, <4>1
      <4>3. left => (p \in VLineOf(dl, y, db) <=> \E j \in y .. (db - 1) : p = <<dl, j, Pen>>)
        BY <4>2, VLinePixels
      <4> QED
        BY <4>1, <4>3
    <3>3. bottom => (p \in HLineOf(dl + elw, db - 1, dr) <=>
                       \E i \in (dl + elw) .. (dr - 1) : p = <<i, db - 1, Pen>>)
      <4>1. PICK x \in Int, y \in Int : x = dl + elw /\ y = db - 1
        OBVIOUS
      <4>2. bottom => x < dr
        BY <2>5, <4>1
      <4>3. bottom => (p \in HLineOf(x, y, dr) <=> \E i \in x .. (dr - 1) : p = <<i, y, Pen>>)
        BY <4>2, HLinePixels
      <4> QED
        BY <4>1, <4>3
    <3>4. right => (p \in VLineOf(dr - 1, dt + etw, db - ebw) <=>
                      \E j \in (dt + etw) .. (db - ebw - 1) : p = <<dr - 1, j, Pen>>)
      <4>1. PICK x \in Int, y \in Int, ye \in Int : x = dr - 1 /\ y = dt + etw /\ ye = db - ebw
        OBVIOUS
      <4>2. right => y <= ye
        BY <2>5, <4>1
      <4>3. right => (p \in VLineOf(x, y, ye) <=> \E j \in y .. (ye - 1) : p = <<x, j, Pen>>)
        BY <4>2, VLinePixels
      <4> QED
        BY <4>1, <4>3
    <3> QED
      BY <2>4, <3>1, <3>2, <3>3, <3>4
  <2>10. ASSUME NEW x \in Int, NEW y \in Int
         PROVE  In(x, y, s) /\ OnEdge(x, y, s) /\ In(x, y, clip_rect) <=>
                   \/ top /\ x \in dl .. (dr - 1) /\ y = dt
                   \/ left /\ x = dl /\ y \in (dt + etw) .. (db - 1)
                   \/ bottom /\ x \in (dl + elw) .. (dr - 1) /\ y = db - 1
                   \/ right /\ x = dr - 1 /\ y \in (dt + etw) .. (db - ebw - 1)
    <3>1. In(x, y, s) /\ OnEdge(x, y, s) /\ In(x, y, clip_rect) <=>
             x \in dl .. (dr - 1) /\ y \in dt .. (db - 1) /\ (x \in {l, r - 1} \/ y \in {t, b - 1})
      BY <2>7, <2>8
    <3>2. top <=> dt = t
      BY <2>2, <2>6, ClipNumbers DEF Most, Least
    <3>3. left <=> dl = l /\ dt + etw < db
      BY <2>2, <2>5, ClipNumbers DEF Most, Least
    <3>4. bottom <=> db = b /\ dl + elw < dr
      BY <2>2, <2>5, ClipNumbers DEF Most, Least
    <3>5. right <=> dr = r /\ dt + etw < db - ebw
      BY <2>2, <2>5, ClipNumbers DEF Most, Least
    <3>6. /\ x \in dl .. (dr - 1) /\ x = l => dl = l
          /\ x \in dl .. (dr - 1) /\ x = r - 1 => dr = r
          /\ y \in dt .. (db - 1) /\ y = t => dt = t
          /\ y \in dt .. (db - 1) /\ y = b - 1 => db = b
      BY <2>2, ClipNumbers DEF Most, Least
    <3> QED
      BY <2>2, <2>5, <3>1, <3>2, <3>3, <3>4, <3>5, <3>6
  <2>11. p \in DrawRect(s) <=>
            \E x, y \in Int : /\ p = <<x, y, Pen>>
                             /\ \/ top /\ x \in dl .. (dr - 1) /\ y = dt
                                \/ left /\ x = dl /\ y \in (dt + etw) .. (db - 1)
                                \/ bottom /\ x \in (dl + elw) .. (dr - 1) /\ y = db - 1
                                \/ right /\ x = dr - 1 /\ y \in (dt + etw) .. (db - ebw - 1)
    BY <2>9
  <2> QED
    BY <2>10, <2>11 DEF s
<1> QED
  BY <1>4, <1>5

\* Products of sums.
LEMMA Distributes ==
    ASSUME NEW n \in Int, NEW q \in Int, NEW u \in Int
    PROVE  n * (q + u) = n * q + n * u /\ n * q \in Int /\ n * u \in Int /\ n * (q + u) \in Int
OBVIOUS

\* What is skipped in whole parts and in a rest is skipped all.
LEMMA SkippedParts ==
    ASSUME NEW k \in Int, NEW i \in Int, NEW n \in Nat \ {0}
    PROVE  k \div n + (i + (k % n)) \div n = (k + i) \div n
<1>1. PICK q \in Int, m \in Int : q = k \div n /\ m = k % n /\ k = n * q + m
  <2>1. k \div n \in Int /\ k % n \in 0 .. (n - 1) /\ k = n * (k \div n) + (k % n)
    BY Division
  <2> QED
    BY <2>1
<1>2. PICK u \in Int, v \in Int : /\ u = (i + m) \div n /\ v \in 0 .. (n - 1)
                                /\ i + m = n * u + v
  <2>1. PICK z \in Int : z = i + m
    OBVIOUS
  <2>2. z \div n \in Int /\ z % n \in 0 .. (n - 1) /\ z = n * (z \div n) + (z % n)
    BY Division
  <2> QED
    BY <2>1, <2>2
<1>3. k + i = n * (q + u) + v
  <2>1. n * (q + u) = n * q + n * u /\ n * q \in Int /\ n * u \in Int /\ n * (q + u) \in Int
    BY Distributes
  <2>2. PICK nq \in Int, nu \in Int, nqu \in Int : nq = n * q /\ nu = n * u /\ nqu = n * (q + u)
    BY <2>1
  <2>3. nqu = nq + nu /\ k = nq + m /\ i + m = nu + v
    BY <1>1, <1>2, <2>1, <2>2
  <2>4. \A g, h, j \in Int : \A c, d \in Int : c = h + j /\ d + j = g + v => c + d = h + g + v
    BY <1>2
  <2>5. k + i = nqu + v
    BY ONLY <2>2, <2>3, <2>4, k \in Int, i \in Int, m \in Int
  <2> QED
    BY <2>2, <2>5
<1>4. PICK a \in Int, e \in Int : a = k + i /\ e = q + u
  OBVIOUS
<1>5. a \div n = e
  <2>1. a = n * e + v
    BY <1>3, <1>4
  <2> QED
    BY <1>2, <2>1, DivisionIsUnique
<1> QED
  BY <1>1, <1>2, <1>4, <1>5

\* Bytes, bits of a byte and parts of an enlarged bit.
LEMMA SkippedBits ==
    ASSUME NEW k \in Int, NEW i \in Int, NEW rate \in Nat \ {0}
    PROVE  ((k \div rate) \div ByteBits) * ByteBits + ((k \div rate) % ByteBits)
             + ((i + (k % rate)) \div rate) = (k + i) \div rate
<1>1. PICK q \in Int : q = k \div rate
  BY Division
<1>2. ByteBits \in Nat \ {0}
  BY GraphicsAssumption
<1>3. (q \div ByteBits) * ByteBits + (q % ByteBits) = q
  <2>1. /\ q \div ByteBits \in Int /\ q % ByteBits \in 0 .. (ByteBits - 1)
        /\ q = ByteBits * (q \div ByteBits) + (q % ByteBits)
    BY <1>2, Division
  <2>2. PICK u \in Int, v \in Int : u = q \div ByteBits /\ v = q % ByteBits
    BY <2>1
  <2>3. q = ByteBits * u + v /\ ByteBits * u = u * ByteBits
    BY <1>2, <2>1, <2>2
  <2> QED
    BY <2>2, <2>3
<1>4. q + (i + (k % rate)) \div rate = (k + i) \div rate
  BY <1>1, SkippedParts
<1> QED
  BY <1>1, <1>3, <1>4

\* A window by its places and by the steps from its corner.
ByPlaces(l, t, r, b, x, y, rate, p) ==
    \E u, v \in Int : /\ u \in l .. (r - 1) /\ v \in t .. (b - 1)
                     /\ p = <<u, v, <<(u - x) \div rate, (v - y) \div rate>>>>

BySteps(l, t, r, b, x, y, rate, p) ==
    \E i \in 0 .. (r - l - 1), j \in 0 .. (b - t - 1) :
       p = <<l + i, t + j, <<((l - x) + i) \div rate, ((t - y) + j) \div rate>>>>

\* Counting from the corner names the same pixels as the coordinates.
LEMMA GridPlaces ==
    ASSUME NEW l \in Int, NEW t \in Int, NEW r \in Int, NEW b \in Int,
           NEW x \in Int, NEW y \in Int, NEW rate \in Nat \ {0}, NEW p
    PROVE  BySteps(l, t, r, b, x, y, rate, p) <=> ByPlaces(l, t, r, b, x, y, rate, p)
<1>1. ASSUME NEW i \in 0 .. (r - l - 1), NEW j \in 0 .. (b - t - 1),
             p = <<l + i, t + j, <<((l - x) + i) \div rate, ((t - y) + j) \div rate>>>>
      PROVE  \E u, v \in Int : /\ u \in l .. (r - 1) /\ v \in t .. (b - 1)
                              /\ p = <<u, v, <<(u - x) \div rate, (v - y) \div rate>>>>
  <2>1. PICK u \in Int, v \in Int : u = l + i /\ v = t + j
    OBVIOUS
  <2>2. u \in l .. (r - 1) /\ v \in t .. (b - 1) /\ (l - x) + i = u - x /\ (t - y) + j = v - y
    BY <2>1
  <2>3. p = <<u, v, <<(u - x) \div rate, (v - y) \div rate>>>>
    BY <1>1, <2>1, <2>2
  <2> QED
    BY <2>2, <2>3
<1>2. ASSUME NEW u \in Int, NEW v \in Int, u \in l .. (r - 1), v \in t .. (b - 1),
             p = <<u, v, <<(u - x) \div rate, (v - y) \div rate>>>>
      PROVE  \E i \in 0 .. (r - l - 1), j \in 0 .. (b - t - 1) :
              p = <<l + i, t + j, <<((l - x) + i) \div rate, ((t - y) + j) \div rate>>>>
  <2>1. PICK i \in Int, j \in Int : i = u - l /\ j = v - t
    OBVIOUS
  <2>2. /\ i \in 0 .. (r - l - 1) /\ j \in 0 .. (b - t - 1)
        /\ l + i = u /\ t + j = v /\ (l - x) + i = u - x /\ (t - y) + j = v - y
    BY <1>2, <2>1
  <2>3. p = <<l + i, t + j, <<((l - x) + i) \div rate, ((t - y) + j) \div rate>>>>
    BY <1>2, <2>2
  <2> QED
    BY <2>2, <2>3
<1> QED
  BY <1>1, <1>2 DEF BySteps, ByPlaces

\* The rectangle of bit data of a width and a height that is enlarged.
Enlarged(x, y, width, height, rate) == Rect(x, y, x + width * rate, y + height * rate)

ShowsBit(p, x, y, width, height, rate) ==
    \E u, v \in Int : /\ In(u, v, Enlarged(x, y, width, height, rate)) /\ In(u, v, clip_rect)
                     /\ p = <<u, v, <<(u - x) \div rate, (v - y) \div rate>>>>

\* Each pixel shows its own bit, also where bits were skipped (draw_bitdata_rate()).
LEMMA BitsClipped ==
    ASSUME GraphicsTypeOK, NEW x \in Int, NEW y \in Int, NEW width \in Nat, NEW height \in Nat,
           NEW rate \in Nat \ {0}, NEW p
    PROVE  p \in DrawBits(x, y, width, height, rate) <=> ShowsBit(p, x, y, width, height, rate)
<1> DEFINE w == Rect(x, y, x + width * rate, y + height * rate)
           d == AndRect(w, clip_rect)
           above == IF clip_rect.top <= w.top /\ w.top < clip_rect.bottom
                      THEN 0 ELSE clip_rect.top - w.top
           before == IF clip_rect.left <= w.left /\ w.left < clip_rect.right
                       THEN 0 ELSE clip_rect.left - w.left
           column(i) == ((before \div rate) \div ByteBits) * ByteBits + ((before \div rate) % ByteBits)
                          + ((i + (before % rate)) \div rate)
           line(j) == (above \div rate) + ((j + (above % rate)) \div rate)
<1>1. PICK r \in Int, b \in Int : /\ r = x + width * rate /\ b = y + height * rate
                                /\ x <= r /\ y <= b
  <2>1. width * rate \in Nat /\ height * rate \in Nat
    OBVIOUS
  <2> QED
    BY <2>1
<1>2. w = Rect(x, y, r, b)
  BY <1>1
<1>3. w.left = x /\ w.top = y
  BY DEF Rect
<1>4. DrawBits(x, y, width, height, rate) =
         IF rate = 0 \/ EmptyRect(d) THEN {}
         ELSE {<<d.left + i, d.top + j, <<column(i), line(j)>>>> :
                 i \in 0 .. (d.right - d.left - 1), j \in 0 .. (d.bottom - d.top - 1)}
  BY DEF DrawBits
<1> HIDE DEF w
<1>5. /\ d.left \in Int /\ d.top \in Int /\ d.right \in Int /\ d.bottom \in Int
      /\ EmptyRect(d) => \A u, v \in Int : ~ (In(u, v, w) /\ In(u, v, clip_rect))
      /\ ~ EmptyRect(d) =>
            /\ d.left < d.right /\ d.top < d.bottom
            /\ d.left = Most(x, clip_rect.left) /\ d.right = Least(r, clip_rect.right)
            /\ d.top = Most(y, clip_rect.top) /\ d.bottom = Least(b, clip_rect.bottom)
            /\ \A u, v \in Int : In(u, v, d) <=> In(u, v, w) /\ In(u, v, clip_rect)
  <2> DEFINE e == AndRect(Rect(x, y, r, b), clip_rect)
  <2>1. x <= r /\ y <= b
    BY <1>1
  <2>2. /\ e.left \in Int /\ e.top \in Int /\ e.right \in Int /\ e.bottom \in Int
        /\ EmptyRect(e) => \A u, v \in Int : ~ (In(u, v, Rect(x, y, r, b)) /\ In(u, v, clip_rect))
        /\ ~ EmptyRect(e) =>
            /\ e.left < e.right /\ e.top < e.bottom
            /\ e.left = Most(x, clip_rect.left) /\ e.right = Least(r, clip_rect.right)
            /\ e.top = Most(y, clip_rect.top) /\ e.bottom = Least(b, clip_rect.bottom)
            /\ \A u, v \in Int :
                  In(u, v, e) <=> In(u, v, Rect(x, y, r, b)) /\ In(u, v, clip_rect)
    BY ONLY <2>1, GraphicsTypeOK, x \in Int, y \in Int, r \in Int, b \in Int, Intersection
  <2>3. d = e
    BY <1>2
  <2> HIDE DEF d, e
  <2> QED
    BY <1>2, <2>2, <2>3
<1> HIDE DEF d
<1>6. ASSUME EmptyRect(d)
      PROVE  p \in DrawBits(x, y, width, height, rate) <=>
               \E u, v \in Int : /\ In(u, v, w) /\ In(u, v, clip_rect)
                                /\ p = <<u, v, <<(u - x) \div rate, (v - y) \div rate>>>>
  <2>1. DrawBits(x, y, width, height, rate) = {}
    BY <1>4, <1>6
  <2> QED
    BY <1>5, <1>6, <2>1
<1>7. ASSUME ~ EmptyRect(d)
      PROVE  p \in DrawBits(x, y, width, height, rate) <=>
               \E u, v \in Int : /\ In(u, v, w) /\ In(u, v, clip_rect)
                                /\ p = <<u, v, <<(u - x) \div rate, (v - y) \div rate>>>>
  <2>1. PICK dl \in Int, dt \in Int, dr \in Int, db \in Int :
            dl = d.left /\ dt = d.top /\ dr = d.right /\ db = d.bottom
    BY <1>5
  <2>2. above = dt - y /\ before = dl - x
    BY <1>3, <1>5, <1>7, <2>1, ClipNumbers DEF Most, Least
  <2>3. PICK k \in Int, m \in Int : k = dl - x /\ m = dt - y
    OBVIOUS
  <2>4. ASSUME NEW i \in Int
        PROVE  column(i) = ((dl - x) + i) \div rate
    <3>1. column(i) = ((k \div rate) \div ByteBits) * ByteBits + ((k \div rate) % ByteBits)
                          + ((i + (k % rate)) \div rate)
      BY <2>2, <2>3
    <3> HIDE DEF column
    <3> QED
      BY <2>3, <3>1, SkippedBits, ZenonT(40)
  <2>5. ASSUME NEW j \in Int
        PROVE  line(j) = ((dt - y) + j) \div rate
    <3>1. line(j) = (m \div rate) + ((j + (m % rate)) \div rate)
      BY <2>2, <2>3
    <3> HIDE DEF line
    <3> QED
      BY <2>3, <3>1, SkippedParts, ZenonT(40)
  <2> HIDE DEF column, line
  <2>6. DrawBits(x, y, width, height, rate) =
           {<<dl + i, dt + j, <<column(i), line(j)>>>> :
                 i \in 0 .. (dr - dl - 1), j \in 0 .. (db - dt - 1)}
    BY <1>4, <1>7, <2>1
  <2>7. p \in DrawBits(x, y, width, height, rate) <=> BySteps(dl, dt, dr, db, x, y, rate, p)
    <3> DEFINE cells(i) == ((dl - x) + i) \div rate
               rows(j) == ((dt - y) + j) \div rate
    <3>1. \A i \in 0 .. (dr - dl - 1) : column(i) = cells(i)
      BY <2>4
    <3>2. \A j \in 0 .. (db - dt - 1) : line(j) = rows(j)
      BY <2>5
    <3>3. BySteps(dl, dt, dr, db, x, y, rate, p) <=>
            \E i \in 0 .. (dr - dl - 1), j \in 0 .. (db - dt - 1) :
               p = <<dl + i, dt + j, <<cells(i), rows(j)>>>>
      BY DEF BySteps
    <3> HIDE DEF cells, rows
    <3>4. p \in DrawBits(x, y, width, height, rate) <=>
            \E i \in 0 .. (dr - dl - 1), j \in 0 .. (db - dt - 1) :
               p = <<dl + i, dt + j, <<column(i), line(j)>>>>
      BY <2>6
    <3> QED
      BY <3>1, <3>2, <3>3, <3>4
  <2>8. p \in DrawBits(x, y, width, height, rate) <=> ByPlaces(dl, dt, dr, db, x, y, rate, p)
    BY <2>7, GridPlaces
  <2>9. \A u, v \in Int : u \in dl .. (dr - 1) /\ v \in dt .. (db - 1)
                            <=> In(u, v, w) /\ In(u, v, clip_rect)
    BY <1>5, <1>7, <2>1 DEF In
  <2> QED
    BY <2>8, <2>9 DEF ByPlaces
<1>8. p \in DrawBits(x, y, width, height, rate) <=>
         \E u, v \in Int : /\ In(u, v, w) /\ In(u, v, clip_rect)
                          /\ p = <<u, v, <<(u - x) \div rate, (v - y) \div rate>>>>
  BY <1>6, <1>7
<1>9. w = Enlarged(x, y, width, height, rate)
  BY DEF w, Enlarged
<1> QED
  BY <1>8, <1>9 DEF ShowsBit

-----------------------------------------------------------------------------
(* Lines. *)

\* One round of the loop of line().
StepAside(last, long, short) ==
    LET e == last.error + 2 * short
    IN  IF e >= 0 THEN [steps |-> last.steps + 1, error |-> e - 2 * long]
        ELSE [last EXCEPT !.error = e]

StepsFrom(side, long, short) ==
    [i \in 0 .. long |-> IF i = 0 THEN [steps |-> 0, error |-> -long]
                         ELSE StepAside(side[i - 1], long, short)]

\* Its rounds, as line() counts them.
StepsAside(long, short) == CHOOSE side : side = StepsFrom(side, long, short)

\* What they come to: the line rises by short on the length long.
Rounded(i, long, short) ==
    [steps |-> (2 * short * i + long) \div (2 * long),
     error |-> ((2 * short * i + long) % (2 * long)) - 2 * long]

\* line() by its rounds.
LEMMA LineBySteps ==
    ASSUME NEW p, NEW q
    PROVE  LineOf(p, q) =
             LET dx == Distance(p.x, q.x)
                 dy == Distance(p.y, q.y)
                 sx == IF q.x > p.x THEN 1 ELSE -1
                 sy == IF q.y > p.y THEN 1 ELSE -1
                 side == StepsAside(Most(dx, dy), Least(dx, dy))
             IN  {IF dx >= dy THEN <<p.x + sx * i, p.y + sy * side[i].steps, Pen>>
                  ELSE <<p.x + sx * side[i].steps, p.y + sy * i, Pen>> : i \in 0 .. Most(dx, dy)}
BY DEF LineOf, StepsAside, StepsFrom, StepAside

\* A round either carries into the quotient or does not.
LEMMA CarryIntoQuotient ==
    ASSUME NEW d \in Nat \ {0}, NEW a \in Int, NEW s \in Nat, s <= d
    PROVE  /\ (a % d) - d + s >= 0 => /\ (a + s) \div d = a \div d + 1
                                     /\ (a + s) % d = (a % d) + s - d
           /\ (a % d) - d + s < 0 => /\ (a + s) \div d = a \div d
                                    /\ (a + s) % d = (a % d) + s
<1>1. PICK q \in Int, m \in Int : q = a \div d /\ m = a % d /\ a = d * q + m /\ m \in 0 .. (d - 1)
  <2>1. a \div d \in Int /\ a % d \in 0 .. (d - 1) /\ a = d * (a \div d) + (a % d)
    BY Division
  <2> QED
    BY <2>1
<1>2. PICK b \in Int : b = a + s
  OBVIOUS
<1>3. PICK x \in Int, y \in Int : x = d * q /\ y = d * (q + 1) /\ y = x + d
  <2>1. d * q \in Int /\ d * (q + 1) \in Int /\ d * (q + 1) = d * q + d * 1 /\ d * 1 = d
    BY <1>1, Distributes
  <2> QED
    BY <2>1
<1>4. m - d + s >= 0 => b = d * (q + 1) + (m + s - d) /\ m + s - d \in 0 .. (d - 1)
  BY <1>1, <1>2, <1>3
<1>5. m - d + s < 0 => b = d * q + (m + s) /\ m + s \in 0 .. (d - 1)
  BY <1>1, <1>2, <1>3
<1>6. CASE m - d + s >= 0
  <2>1. PICK k \in Int, n \in Int : k = q + 1 /\ n = m + s - d
    OBVIOUS
  <2>2. b \div d = k /\ b % d = n
    <3>1. b = d * k + n /\ n \in 0 .. (d - 1)
      BY <1>4, <1>6, <2>1
    <3> QED
      BY <3>1, DivisionIsUnique
  <2> QED
    BY <1>1, <1>2, <1>6, <2>1, <2>2
<1>7. CASE m - d + s < 0
  <2>1. PICK n \in Int : n = m + s
    OBVIOUS
  <2>2. b \div d = q /\ b % d = n
    BY <1>5, <1>7, <2>1, DivisionIsUnique
  <2> QED
    BY <1>1, <1>2, <1>7, <2>1, <2>2
<1> QED
  BY <1>1, <1>6, <1>7

\* A round of line() leads from one rounded value to the next.
LEMMA RoundedStep ==
    ASSUME NEW long \in Nat \ {0}, NEW short \in Nat, short <= long, NEW i \in Nat
    PROVE  Rounded(i + 1, long, short) = StepAside(Rounded(i, long, short), long, short)
<1>1. PICK d \in Nat \ {0}, s \in Nat : d = 2 * long /\ s = 2 * short /\ s <= d
  OBVIOUS
<1>2. PICK a \in Int, b \in Int : /\ a = 2 * short * i + long
                                /\ b = 2 * short * (i + 1) + long /\ b = a + s
  <2>1. s * (i + 1) = s * i + s /\ s * i \in Int /\ s * (i + 1) \in Int
    BY Distributes
  <2> QED
    BY <1>1, <2>1
<1>3. PICK q \in Int, m \in Int, k \in Int, n \in Int :
         /\ q = a \div d /\ m = a % d /\ k = b \div d /\ n = b % d
  <2>1. /\ a \div d \in Int /\ a % d \in 0 .. (d - 1)
        /\ b \div d \in Int /\ b % d \in 0 .. (d - 1)
    BY Division
  <2> QED
    BY <2>1
<1>4. /\ Rounded(i, long, short) = [steps |-> q, error |-> m - d]
      /\ Rounded(i + 1, long, short) = [steps |-> k, error |-> n - d]
  BY <1>1, <1>2, <1>3 DEF Rounded
<1>5. /\ m - d + s >= 0 => k = q + 1 /\ n = m + s - d
      /\ m - d + s < 0 => k = q /\ n = m + s
  BY <1>1, <1>2, <1>3, CarryIntoQuotient
<1>6. StepAside([steps |-> q, error |-> m - d], long, short) =
         IF m - d + s >= 0 THEN [steps |-> q + 1, error |-> m - d + s - d]
         ELSE [steps |-> q, error |-> m - d + s]
  BY <1>1 DEF StepAside
<1> QED
  BY <1>4, <1>5, <1>6

\* line() steps aside as rounding says.
LEMMA RoundedIsReached ==
    ASSUME NEW long \in Nat \ {0}, NEW short \in Nat, short <= long
    PROVE  StepsAside(long, short) = [i \in 0 .. long |-> Rounded(i, long, short)]
<1> DEFINE r == [i \in 0 .. long |-> Rounded(i, long, short)]
           g == StepsAside(long, short)
<1>1. r = StepsFrom(r, long, short)
  <2>1. Rounded(0, long, short) = [steps |-> 0, error |-> -long]
    <3>1. PICK d \in Nat \ {0} : d = 2 * long
      OBVIOUS
    <3>2. long = d * 0 + long /\ long \in 0 .. (d - 1)
      BY <3>1
    <3>3. long \div d = 0 /\ long % d = long
      BY <3>2, DivisionIsUnique
    <3>4. 2 * short * 0 + long = long
      OBVIOUS
    <3>5. long - d = -long
      BY <3>1
    <3> QED
      BY <3>1, <3>3, <3>4, <3>5 DEF Rounded
  <2>2. ASSUME NEW i \in 0 .. long, i # 0
        PROVE  Rounded(i, long, short) = StepAside(r[i - 1], long, short)
    <3>1. PICK j \in Nat : j = i - 1 /\ i = j + 1 /\ j \in 0 .. long
      BY <2>2
    <3> QED
      BY <3>1, RoundedStep
  <2> QED
    BY <2>1, <2>2 DEF StepsFrom
<1>2. g = StepsFrom(g, long, short)
  <2> HIDE DEF r
  <2> QED
    BY <1>1 DEF StepsAside
<1> HIDE DEF g
<1>3. /\ \A i \in 0 .. long : g[i] = IF i = 0 THEN [steps |-> 0, error |-> -long]
                                   ELSE StepAside(g[i - 1], long, short)
      /\ \A i \in 0 .. long : r[i] = IF i = 0 THEN [steps |-> 0, error |-> -long]
                                   ELSE StepAside(r[i - 1], long, short)
      /\ DOMAIN g = 0 .. long
  <2> HIDE DEF r
  <2>1. ASSUME NEW f, f = StepsFrom(f, long, short)
        PROVE  /\ \A i \in 0 .. long : f[i] = IF i = 0 THEN [steps |-> 0, error |-> -long]
                                   ELSE StepAside(f[i - 1], long, short)
               /\ DOMAIN f = 0 .. long
    BY <2>1 DEF StepsFrom
  <2> QED
    BY <1>1, <1>2, <2>1
<1>4. g = [i \in 0 .. long |-> g[i]]
  BY <1>2 DEF StepsFrom
<1>5. \A i \in 0 .. long : g[i] = r[i]
  <2> DEFINE wrong == {i \in 0 .. long : g[i] # r[i]}
  <2> SUFFICES ASSUME wrong # {} PROVE FALSE
    OBVIOUS
  <2>1. PICK i \in wrong : \A j \in wrong : i <= j
    <3>1. wrong \subseteq Nat
      OBVIOUS
    <3> HIDE DEF wrong
    <3> QED
      BY <3>1, MinOfNaturals
  <2>2. i # 0
    BY <1>3
  <2>3. i - 1 \in 0 .. long /\ ~ (i <= i - 1)
    BY <2>2
  <2>4. g[i - 1] = r[i - 1]
    BY <2>1, <2>3
  <2> QED
    BY <1>3, <2>1, <2>2, <2>4
<1> QED
  BY <1>4, <1>5 DEF g

\* It never steps aside more often than the shorter side is long.
LEMMA StepsStayShort ==
    ASSUME NEW long \in Nat, NEW short \in Nat, short <= long, NEW i \in 0 .. long
    PROVE  StepsAside(long, short)[i].steps \in 0 .. short
<1>1. CASE long = 0
  <2> DEFINE f == [j \in 0 .. long |-> [steps |-> 0, error |-> -long]]
             g == StepsAside(long, short)
  <2>1. f = StepsFrom(f, long, short)
    BY <1>1 DEF StepsFrom
  <2>2. g = StepsFrom(g, long, short)
    <3> HIDE DEF f
    <3> QED
      BY <2>1 DEF StepsAside
  <2> HIDE DEF g
  <2>3. g[0] = [steps |-> 0, error |-> -long]
    BY <1>1, <2>2 DEF StepsFrom
  <2>4. g[0].steps = 0
    BY <2>3
  <2> QED
    BY <1>1, <2>4 DEF g
<1>2. CASE long > 0
  <2>1. PICK d \in Nat \ {0} : d = 2 * long
    BY <1>2
  <2>2. PICK a \in Int : a = 2 * short * i + long /\ 0 <= a /\ a < d * (short + 1)
    <3>1. short * i \in Nat /\ short * i <= short * long /\ short * long \in Nat
      OBVIOUS
    <3>2. 2 * short * i = 2 * (short * i) /\ d * (short + 1) = 2 * (short * long) + d
      BY <2>1
    <3> QED
      BY <1>2, <2>1, <3>1, <3>2
  <2>3. a \div d \in 0 .. short
    <3>1. PICK q \in Int, m \in Int : q = a \div d /\ m \in 0 .. (d - 1) /\ a = d * q + m
      BY Division
    <3>2. q >= 0
      <4>1. q < 0 => d * q <= -d
        OBVIOUS
      <4> QED
        BY <2>2, <3>1, <4>1
    <3>3. q <= short
      <4>1. q > short => d * q >= d * (short + 1)
        OBVIOUS
      <4> QED
        BY <2>2, <3>1, <4>1
    <3> QED
      BY <3>1, <3>2, <3>3
  <2>4. StepsAside(long, short)[i] = Rounded(i, long, short)
    BY <1>2, RoundedIsReached
  <2> QED
    BY <2>1, <2>2, <2>3, <2>4 DEF Rounded
<1> QED
  BY <1>1, <1>2

Points == [x : Int, y : Int]

\* Quotients are numbers, unless the divisor is zero.
LEMMA QuotientIsInt ==
    ASSUME NEW a \in Int, NEW b \in Int, b # 0
    PROVE  Quotient(a, b) \in Int
<1>1. PICK n \in Int, d \in Nat \ {0} : n = Distance(a, 0) /\ d = Distance(b, 0)
  BY DEF Distance
<1>2. PICK q \in Int : q = n \div d
  BY Division
<1> QED
  BY <1>1, <1>2 DEF Quotient

\* From one coordinate to another one by one.
Along(a, b) ==
    LET s == IF b > a THEN 1 ELSE -1 IN
    /\ \A i \in 0 .. Distance(a, b) :
          a + s * i \in Int /\ ((a <= a + s * i /\ a + s * i <= b) \/
               (b <= a + s * i /\ a + s * i <= a))
    /\ \A i, j \in 0 .. Distance(a, b) : a + s * i = a + s * j => i = j

LEMMA OneByOne ==
    ASSUME NEW a \in Int, NEW b \in Int
    PROVE  Along(a, b)
<1> USE DEF Along
<1>1. CASE b > a
  <2>1. PICK n \in Nat : n = Distance(a, b) /\ n = b - a
    BY <1>1 DEF Distance
  <2> DEFINE s == IF b > a THEN 1 ELSE -1
  <2>2. s = 1
    BY <1>1
  <2> HIDE DEF s
  <2>3. \A i \in Int : s * i = i
    BY <2>2
  <2>4. \A i \in 0 .. n :
              a + s * i \in Int /\ ((a <= a + s * i /\ a + s * i <= b) \/
               (b <= a + s * i /\ a + s * i <= a))
    BY <2>1, <2>3
  <2>5. \A i, j \in 0 .. n : a + s * i = a + s * j => i = j
    BY <2>3
  <2>6. /\ \A i \in 0 .. Distance(a, b) :
              a + s * i \in Int /\ ((a <= a + s * i /\ a + s * i <= b) \/
               (b <= a + s * i /\ a + s * i <= a))
        /\ \A i, j \in 0 .. Distance(a, b) : a + s * i = a + s * j => i = j
    BY <2>1, <2>4, <2>5, Zenon
  <2> QED
    BY <2>6 DEF s
<1>2. CASE ~ (b > a)
  <2>1. Distance(a, b) = a - b
    BY <1>2 DEF Distance
  <2>2. \A i \in Int : -1 * i = -i
    OBVIOUS
  <2> QED
    BY <1>2, <2>1, <2>2
<1> QED
  BY <1>1, <1>2

\* A line from a point in the clipping rectangle to another stays in it, and has
\* one pixel in each column or in each row.
LEMMA LineStaysInside ==
    ASSUME GraphicsTypeOK, NEW p \in Points, NEW q \in Points,
           In(p.x, p.y, clip_rect), In(q.x, q.y, clip_rect)
    PROVE  /\ \A d \in LineOf(p, q) : In(d[1], d[2], clip_rect)
           /\ \/ \A d, e \in LineOf(p, q) : d[1] = e[1] => d = e
              \/ \A d, e \in LineOf(p, q) : d[2] = e[2] => d = e
<1> DEFINE dx == Distance(p.x, q.x)
           dy == Distance(p.y, q.y)
           sx == IF q.x > p.x THEN 1 ELSE -1
           sy == IF q.y > p.y THEN 1 ELSE -1
           side == StepsAside(Most(dx, dy), Least(dx, dy))
           long == Most(dx, dy)
           short == Least(dx, dy)
<1>1. /\ p.x \in Int /\ p.y \in Int /\ q.x \in Int /\ q.y \in Int
      /\ dx \in Nat /\ dy \in Nat
  BY DEF Points, Distance
<1>2. /\ \A i \in 0 .. dx :
            p.x + sx * i \in Int /\ ((p.x <= p.x + sx * i /\ p.x + sx * i <= q.x) \/
               (q.x <= p.x + sx * i /\ p.x + sx * i <= p.x))
      /\ \A i, j \in 0 .. dx : p.x + sx * i = p.x + sx * j => i = j
  <2>1. Along(p.x, q.x)
    BY <1>1, OneByOne
  <2> QED
    BY <2>1, Zenon DEF Along
<1>3. /\ \A i \in 0 .. dy :
            p.y + sy * i \in Int /\ ((p.y <= p.y + sy * i /\ p.y + sy * i <= q.y) \/
               (q.y <= p.y + sy * i /\ p.y + sy * i <= p.y))
      /\ \A i, j \in 0 .. dy : p.y + sy * i = p.y + sy * j => i = j
  <2>1. Along(p.y, q.y)
    BY <1>1, OneByOne
  <2> QED
    BY <2>1, Zenon DEF Along
<1>4. ASSUME NEW i \in 0 .. dx, NEW j \in 0 .. dy
      PROVE  In(p.x + sx * i, p.y + sy * j, clip_rect)
  <2>1. PICK u \in Int, v \in Int : u = p.x + sx * i /\ v = p.y + sy * j
    BY <1>2, <1>3
  <2>2. /\ (p.x <= u /\ u <= q.x) \/ (q.x <= u /\ u <= p.x)
        /\ (p.y <= v /\ v <= q.y) \/ (q.y <= v /\ v <= p.y)
    BY <1>2, <1>3, <2>1
  <2>3. In(u, v, clip_rect)
    BY <1>1, <2>2, ClipNumbers DEF In
  <2> QED
    BY <2>1, <2>3
<1>5. LineOf(p, q) = {IF dx >= dy THEN <<p.x + sx * i, p.y + sy * side[i].steps, Pen>>
                      ELSE <<p.x + sx * side[i].steps, p.y + sy * i, Pen>> : i \in 0 .. long}
  BY LineBySteps
<1>6. /\ dx >= dy => long = dx /\ short = dy
      /\ ~ (dx >= dy) => long = dy /\ short = dx
      /\ short <= long /\ long \in Nat /\ short \in Nat
  BY <1>1 DEF Most, Least
<1>7. \A i \in 0 .. long : side[i].steps \in 0 .. short
  <2> HIDE DEF dx, dy, long, short
  <2> QED
    BY <1>6, StepsStayShort DEF side, long, short
<1> DEFINE X(i) == p.x + sx * i
           Y(i) == p.y + sy * i
<1>8. /\ \A i, j \in 0 .. dx : X(i) = X(j) => i = j
      /\ \A i, j \in 0 .. dy : Y(i) = Y(j) => i = j
      /\ \A i \in 0 .. dx, j \in 0 .. dy : In(X(i), Y(j), clip_rect)
  BY <1>2, <1>3, <1>4
<1>9. LineOf(p, q) = {IF dx >= dy THEN <<X(i), Y(side[i].steps), Pen>>
                      ELSE <<X(side[i].steps), Y(i), Pen>> : i \in 0 .. long}
  BY <1>5
<1> HIDE DEF X, Y, dx, dy, sx, sy, side, long, short
<1>10. CASE dx >= dy
  <2>1. ASSUME NEW d \in LineOf(p, q)
        PROVE  \E i \in 0 .. dx : d = <<X(i), Y(side[i].steps), Pen>> /\ side[i].steps \in 0 .. dy
    BY <1>6, <1>7, <1>9, <1>10
  <2> QED
    BY <1>8, <2>1
<1>11. CASE ~ (dx >= dy)
  <2>1. ASSUME NEW d \in LineOf(p, q)
        PROVE  \E i \in 0 .. dy : d = <<X(side[i].steps), Y(i), Pen>> /\ side[i].steps \in 0 .. dx
    BY <1>6, <1>7, <1>9, <1>11
  <2> QED
    BY <1>8, <2>1
<1> QED
  BY <1>10, <1>11

\* What a line is cut at lies in the clipping rectangle.
LEMMA CutInside ==
    ASSUME GraphicsTypeOK, NEW p \in Points, NEW q \in Points, NEW code,
           \A side \in code : /\ side \in {"left", "right"} => p.x # q.x
                              /\ side \in {"top", "bottom"} => p.y # q.y,
           CalcClippedPoint(code, p, q) # Outside
    PROVE  /\ CalcClippedPoint(code, p, q) \in Points
           /\ In(CalcClippedPoint(code, p, q).x, CalcClippedPoint(code, p, q).y, clip_rect)
<1> DEFINE bottom == clip_rect.bottom - 1
           right == clip_rect.right - 1
           onV(c) == c.y >= clip_rect.top /\ c.y <= bottom
           onH(c) == c.x >= clip_rect.left /\ c.x <= right
           c == CalcClippedPoint(code, p, q)
<1>1. /\ right \in Int /\ bottom \in Int /\ clip_rect.left <= right /\ clip_rect.top <= bottom
      /\ right \in clip_rect.left .. (clip_rect.right - 1)
      /\ clip_rect.left \in clip_rect.left .. (clip_rect.right - 1)
      /\ bottom \in clip_rect.top .. (clip_rect.bottom - 1)
      /\ clip_rect.top \in clip_rect.top .. (clip_rect.bottom - 1)
  BY ClipNumbers
<1>2. \/ "left" \in code /\ c = AtColumn(p, q, clip_rect.left) /\ onV(c)
      \/ "right" \in code /\ c = AtColumn(p, q, right) /\ onV(c)
      \/ "top" \in code /\ c = AtRow(p, q, clip_rect.top) /\ onH(c)
      \/ "bottom" \in code /\ c = AtRow(p, q, bottom) /\ onH(c)
  <2>1. Point(right, bottom).x = right /\ Point(right, bottom).y = bottom
    BY DEF Point
  <2> QED
    BY <2>1 DEF CalcClippedPoint
<1>3. p.x \in Int /\ p.y \in Int /\ q.x \in Int /\ q.y \in Int
  BY DEF Points
<1>4. ASSUME NEW x \in clip_rect.left .. (clip_rect.right - 1), c = AtColumn(p, q, x), onV(c), p.x # q.x
      PROVE  c \in Points /\ In(c.x, c.y, clip_rect)
  <2>1. x \in Int
    BY ClipNumbers
  <2>2. PICK a \in Int, b \in Int : a = (q.y - p.y) * (x - p.x) /\ b = q.x - p.x /\ b # 0
    BY <1>3, <1>4, <2>1
  <2>3. PICK y \in Int : y = Quotient(a, b) + p.y
    <3>1. Quotient(a, b) \in Int
      BY <2>2, QuotientIsInt
    <3> QED
      BY <1>3, <3>1
  <2>4. c = Point(x, y)
    BY <1>4, <2>2, <2>3 DEF AtColumn
  <2>5. c.x = x /\ c.y = y /\ c \in Points
    BY <2>1, <2>4 DEF Point, Points
  <2> HIDE DEF c
  <2>6. clip_rect.top <= y /\ y <= clip_rect.bottom - 1
    BY <1>4, <2>5
  <2> QED
    BY <2>5, <2>6, ClipNumbers DEF In
<1>5. ASSUME NEW y \in clip_rect.top .. (clip_rect.bottom - 1), c = AtRow(p, q, y), onH(c), p.y # q.y
      PROVE  c \in Points /\ In(c.x, c.y, clip_rect)
  <2>1. y \in Int
    BY ClipNumbers
  <2>2. PICK a \in Int, b \in Int : a = (q.x - p.x) * (y - p.y) /\ b = q.y - p.y /\ b # 0
    BY <1>3, <1>5, <2>1
  <2>3. PICK x \in Int : x = Quotient(a, b) + p.x
    <3>1. Quotient(a, b) \in Int
      BY <2>2, QuotientIsInt
    <3> QED
      BY <1>3, <3>1
  <2>4. c = Point(x, y)
    BY <1>5, <2>2, <2>3 DEF AtRow
  <2>5. c.x = x /\ c.y = y /\ c \in Points
    BY <2>1, <2>4 DEF Point, Points
  <2> HIDE DEF c
  <2>6. clip_rect.left <= x /\ x <= clip_rect.right - 1
    BY <1>5, <2>5
  <2> QED
    BY <2>5, <2>6, ClipNumbers DEF In
<1> HIDE DEF c
<1>6. c \in Points /\ In(c.x, c.y, clip_rect)
  BY <1>1, <1>2, <1>4, <1>5
<1> QED
  BY <1>6 DEF c

\* The codes say on which sides of the clipping rectangle a point is.
LEMMA SeqCodes ==
    ASSUME GraphicsTypeOK, NEW p \in Points
    PROVE  /\ "left" \in CalcSeqCode(p) <=> p.x < clip_rect.left
           /\ "right" \in CalcSeqCode(p) <=> p.x >= clip_rect.right
           /\ "top" \in CalcSeqCode(p) <=> p.y < clip_rect.top
           /\ "bottom" \in CalcSeqCode(p) <=> p.y >= clip_rect.bottom
           /\ CalcSeqCode(p) = {} => In(p.x, p.y, clip_rect)
           /\ CalcSeqCode(p) \subseteq {"left", "right", "top", "bottom"}
<1>1. /\ "left" \in CalcSeqCode(p) <=> p.x < clip_rect.left
      /\ "right" \in CalcSeqCode(p) <=> p.x >= clip_rect.right
      /\ "top" \in CalcSeqCode(p) <=> p.y < clip_rect.top
      /\ "bottom" \in CalcSeqCode(p) <=> p.y >= clip_rect.bottom
      /\ CalcSeqCode(p) \subseteq {"left", "right", "top", "bottom"}
  BY DEF CalcSeqCode
<1>2. ASSUME CalcSeqCode(p) = {}
      PROVE  In(p.x, p.y, clip_rect)
  <2>1. p.x \in Int /\ p.y \in Int
    BY DEF Points
  <2> QED
    BY <1>1, <1>2, <2>1, ClipNumbers DEF In
<1> QED
  BY <1>1, <1>2

\* Both ends of a clipped line are inside (clipping()).
LEMMA ClippedEnds ==
    ASSUME GraphicsTypeOK, NEW p \in Points, NEW q \in Points,
           Clipping(p, q)[1] # Outside, Clipping(p, q)[2] # Outside
    PROVE  \A i \in 1 .. 2 : /\ Clipping(p, q)[i] \in Points
                            /\ In(Clipping(p, q)[i].x, Clipping(p, q)[i].y, clip_rect)
<1> DEFINE code0 == CalcSeqCode(p)
           code1 == CalcSeqCode(q)
           p1 == IF code0 = {} THEN p ELSE CalcClippedPoint(code0, p, q)
           q1 == IF code1 = {} \/ p1 = Outside THEN q ELSE CalcClippedPoint(code1, p1, q)
<1>1. Clipping(p, q) = IF code0 \cap code1 # {} THEN <<Outside, Outside>> ELSE <<p1, q1>>
  BY DEF Clipping
<1> HIDE DEF p1, q1
<1>2. code0 \cap code1 = {} /\ Clipping(p, q) = <<p1, q1>> /\ p1 # Outside /\ q1 # Outside
  BY <1>1
<1>3. /\ p.x \in Int /\ p.y \in Int /\ q.x \in Int /\ q.y \in Int
  BY DEF Points
<1>4. p1 \in Points /\ In(p1.x, p1.y, clip_rect)
  <2>1. CASE code0 = {}
    BY <2>1, SeqCodes DEF p1
  <2>2. CASE code0 # {}
    <3>1. \A side \in code0 : /\ side \in {"left", "right"} => p.x # q.x
                              /\ side \in {"top", "bottom"} => p.y # q.y
      BY <1>2, SeqCodes
    <3>2. p1 = CalcClippedPoint(code0, p, q)
      BY <2>2 DEF p1
    <3> HIDE DEF code0
    <3> QED
      BY <1>2, <3>1, <3>2, CutInside
  <2> QED
    BY <2>1, <2>2
<1>5. q1 \in Points /\ In(q1.x, q1.y, clip_rect)
  <2>1. CASE code1 = {}
    BY <2>1, SeqCodes DEF q1
  <2>2. CASE code1 # {}
    <3>0. /\ clip_rect.left <= p1.x /\ p1.x < clip_rect.right
          /\ clip_rect.top <= p1.y /\ p1.y < clip_rect.bottom
          /\ p1.x \in Int /\ p1.y \in Int
      BY <1>4, ClipNumbers DEF In, Points
    <3>1. \A side \in code1 : /\ side \in {"left", "right"} => p1.x # q.x
                              /\ side \in {"top", "bottom"} => p1.y # q.y
      BY <1>3, <3>0, SeqCodes, ClipNumbers
    <3>2. q1 = CalcClippedPoint(code1, p1, q)
      BY <1>2, <2>2 DEF q1
    <3> HIDE DEF code1
    <3> QED
      BY <1>2, <1>4, <3>1, <3>2, CutInside
  <2> QED
    BY <2>1, <2>2
<1> QED
  BY <1>2, <1>4, <1>5

\* draw_line() stays inside.
LEMMA LineClipped ==
    ASSUME GraphicsTypeOK, NEW x \in Int, NEW y \in Int, NEW xe \in Int, NEW ye \in Int
    PROVE  /\ \A d \in DrawLine(x, y, xe, ye) : In(d[1], d[2], clip_rect)
           /\ \/ \A d, e \in DrawLine(x, y, xe, ye) : d[1] = e[1] => d = e
              \/ \A d, e \in DrawLine(x, y, xe, ye) : d[2] = e[2] => d = e
<1> DEFINE p == Point(IF x > xe THEN x - 1 ELSE x, IF y > ye THEN y - 1 ELSE y)
           q == Point(IF xe > x THEN xe - 1 ELSE xe, IF ye > y THEN ye - 1 ELSE ye)
           ends == Clipping(p, q)
<1>1. p \in Points /\ q \in Points
  BY DEF Point, Points
<1>2. DrawLine(x, y, xe, ye) =
         IF (x = xe /\ y = ye) \/ ends[1] = Outside \/ ends[2] = Outside THEN {}
         ELSE LineOf(ends[1], ends[2])
  BY DEF DrawLine
<1> HIDE DEF p, q
<1>3. CASE DrawLine(x, y, xe, ye) = {}
  BY <1>3
<1>4. CASE DrawLine(x, y, xe, ye) # {}
  <2>1. ends[1] # Outside /\ ends[2] # Outside /\ DrawLine(x, y, xe, ye) = LineOf(ends[1], ends[2])
    BY <1>2, <1>4
  <2>2. /\ ends[1] \in Points /\ In(ends[1].x, ends[1].y, clip_rect)
        /\ ends[2] \in Points /\ In(ends[2].x, ends[2].y, clip_rect)
    <3>1. 1 \in 1 .. 2 /\ 2 \in 1 .. 2
      OBVIOUS
    <3> QED
      BY <1>1, <2>1, <3>1, ClippedEnds
  <2> HIDE DEF ends
  <2> QED
    BY <2>1, <2>2, LineStaysInside
<1> QED
  BY <1>3, <1>4

-----------------------------------------------------------------------------
(* The invariant. *)

\* Asked() of any figure.
Wanted(f, x, y) ==
    CASE f.op = "point" -> IF x = f.x /\ y = f.y THEN {Pen} ELSE {}
      [] f.op = "hline" -> IF y = f.y /\ x \in f.x..(f.x + f.n - 1) THEN {Pen} ELSE {}
      [] f.op = "vline" -> IF x = f.x /\ y \in f.y..(f.y + f.n - 1) THEN {Pen} ELSE {}
      [] f.op = "fillrect" -> IF In(x, y, f.rect) THEN {Pen} ELSE {}
      [] f.op = "rect" -> IF In(x, y, f.rect) /\ OnEdge(x, y, f.rect) THEN {Pen} ELSE {}
      [] f.op = "bits" ->
           IF In(x, y, f.rect)
             THEN {<<(x - f.rect.left) \div f.rate, (y - f.rect.top) \div f.rate>>}
             ELSE {}

Cell(f, x, y) == {<<x, y, what>> : what \in Wanted(f, x, y)}

Picture(f, r) ==
    UNION {Cell(f, x, y) : x \in r.left..(r.right - 1), y \in r.top..(r.bottom - 1)}

Shows(pixels, f, r) ==
    \A p : p \in pixels <=> \E x, y \in Int : /\ In(x, y, r)
                                            /\ \E what \in Wanted(f, x, y) : p = <<x, y, what>>

\* A picture by its pixels.
LEMMA PixelsOfPicture ==
    ASSUME GraphicsTypeOK, NEW f, NEW pixels, Shows(pixels, f, clip_rect)
    PROVE  pixels = Picture(f, clip_rect)
<1>1. ASSUME NEW p
      PROVE  p \in pixels <=> p \in Picture(f, clip_rect)
  <2>1. p \in Picture(f, clip_rect) <=>
          \E x \in clip_rect.left..(clip_rect.right - 1), y \in clip_rect.top..(clip_rect.bottom - 1) :
             \E what \in Wanted(f, x, y) : p = <<x, y, what>>
    <3>1. p \in Picture(f, clip_rect) <=>
          \E x \in clip_rect.left..(clip_rect.right - 1), y \in clip_rect.top..(clip_rect.bottom - 1) :
             p \in Cell(f, x, y)
      <4> DEFINE A == clip_rect.left..(clip_rect.right - 1)
                 B == clip_rect.top..(clip_rect.bottom - 1)
                 cells == {Cell(f, x, y) : x \in A, y \in B}
      <4>1. Picture(f, clip_rect) = UNION cells
        BY DEF Picture
      <4> HIDE DEF A, B
      <4>2. \A c : c \in cells <=> \E x \in A, y \in B : c = Cell(f, x, y)
        OBVIOUS
      <4> HIDE DEF cells
      <4>3. p \in UNION cells <=> \E c \in cells : p \in c
        OBVIOUS
      <4>4. p \in UNION cells <=> \E x \in A, y \in B : p \in Cell(f, x, y)
        BY <4>2, <4>3
      <4> QED
        BY <4>1, <4>4 DEF A, B
    <3>2. \A x, y : p \in Cell(f, x, y) <=> \E what \in Wanted(f, x, y) : p = <<x, y, what>>
      BY Zenon DEF Cell
    <3> QED
      BY <3>1, <3>2, Zenon
  <2>2. p \in Picture(f, clip_rect) <=>
          \E x, y \in Int : In(x, y, clip_rect) /\ \E what \in Wanted(f, x, y) : p = <<x, y, what>>
    BY <2>1, ClipNumbers DEF In
  <2> QED
    BY <2>2 DEF Shows
<1> QED
  BY <1>1

\* FiguresAreClipped by the picture of the figure, before a step and after it.
LEMMA FiguresByPicture ==
    /\ FiguresAreClipped <=>
         (figure.op \notin {"none", "line"} /\ ~ EndsAbove => drawn = Picture(figure, clip_rect))
    /\ FiguresAreClipped' <=>
         (figure'.op \notin {"none", "line"} /\ ~ EndsAbove' => drawn' = Picture(figure', clip_rect'))
<1>1. /\ \A x, y : {<<x, y, what>> : what \in Asked(x, y)} = Cell(figure, x, y)
      /\ \A x, y : {<<x, y, what>> : what \in Asked(x, y)'} = Cell(figure', x, y)
  BY DEF Asked, Wanted, Cell
<1> DEFINE all == UNION {{<<x, y, what>> : what \in Asked(x, y)} :
                           x \in clip_rect.left..(clip_rect.right - 1),
                           y \in clip_rect.top..(clip_rect.bottom - 1)}
<1>2. all = Picture(figure, clip_rect) /\ all' = Picture(figure', clip_rect')
  BY <1>1 DEF Picture
<1>3. FiguresAreClipped <=> (figure.op \notin {"none", "line"} /\ ~ EndsAbove => drawn = all)
  BY DEF FiguresAreClipped
<1>4. FiguresAreClipped' <=>
         (figure'.op \notin {"none", "line"} /\ ~ EndsAbove' => drawn' = all')
  BY DEF FiguresAreClipped
<1> HIDE DEF all
<1> QED
  BY <1>2, <1>3, <1>4, Zenon

\* The pixels of a figure are its picture.
LEMMA DrawnAsAsked ==
    ASSUME GraphicsTypeOK, NEW f, NEW pixels, Draws(f, pixels), f.op # "line",
           \/ pixels = Picture(f, clip_rect)
           \/ f.op = "vline" /\ f.y + f.n < clip_rect.top
    PROVE  GraphicsInv'
<1>1. figure' = f /\ drawn' = pixels /\ clip_rect' = clip_rect
  BY DEF Draws
<1>2. GraphicsTypeOK'
  BY <1>1 DEF GraphicsTypeOK
<1>3. EndsAbove' <=> f.op = "vline" /\ f.y + f.n < clip_rect.top
  BY <1>1 DEF EndsAbove
<1>4. \A x, y : Asked(x, y)' = Wanted(f, x, y)
  BY <1>1 DEF Asked, Wanted
<1>5. FiguresAreClipped' <=>
         (f.op \notin {"none", "line"} /\ ~ EndsAbove' => drawn' = Picture(f, clip_rect))
  BY <1>1, FiguresByPicture
<1>6. FiguresAreClipped'
  BY <1>1, <1>3, <1>5
<1>7. LinesAreClipped'
  BY <1>1 DEF LinesAreClipped
<1> QED
  BY <1>2, <1>6, <1>7 DEF GraphicsInv

\* The numbers that calls are made with.
LEMMA ScreenNumbers ==
    /\ Width \in Nat \ {0} /\ Height \in Nat \ {0} /\ MaxSize \in Nat \ {0}
    /\ Xs \subseteq Int /\ Ys \subseteq Int /\ Sizes \subseteq Nat
    /\ \A rate \in Rates : rate \in Nat \ {0}
<1>1. Width \in Nat \ {0} /\ Height \in Nat \ {0} /\ MaxSize \in Nat \ {0}
  BY GraphicsAssumption DEF GraphicsAssumption
<1> QED
  BY <1>1, GraphicsAssumption DEF Xs, Ys, Sizes

\* Calls for points and lines.
LEMMA LinesKept ==
    ASSUME GraphicsInv, DrawsLines
    PROVE  GraphicsInv'
<1>0. GraphicsTypeOK
  BY DEF GraphicsInv
<1>1. PICK x \in Xs, y \in Ys, n \in Sizes :
        \/ Draws([op |-> "point", x |-> x, y |-> y], DrawPoint(x, y))
        \/ Draws([op |-> "hline", x |-> x, y |-> y, n |-> n], DrawHLine(x, y, n))
        \/ Draws([op |-> "vline", x |-> x, y |-> y, n |-> n], DrawVLine(x, y, n))
        \/ \E xe \in -1..(Width + 1), ye \in -1..(Height + 1) :
             Draws([op |-> "line", x |-> x, y |-> y, xe |-> xe, ye |-> ye], DrawLine(x, y, xe, ye))
  BY DEF DrawsLines
<1>2. x \in Int /\ y \in Int /\ n \in Nat
  BY ScreenNumbers
<1>3. ASSUME Draws([op |-> "point", x |-> x, y |-> y], DrawPoint(x, y))
      PROVE  GraphicsInv'
  <2> DEFINE f == [op |-> "point", x |-> x, y |-> y]
  <2>1. \A u, v : Wanted(f, u, v) = IF u = x /\ v = y THEN {Pen} ELSE {}
    BY DEF Wanted
  <2>2. f.op # "line"
    OBVIOUS
  <2> HIDE DEF f
  <2>3. DrawPoint(x, y) = Picture(f, clip_rect)
    <3>1. ASSUME NEW p
          PROVE  p \in DrawPoint(x, y) <=>
                    \E u, v \in Int : In(u, v, clip_rect) /\ \E what \in Wanted(f, u, v) : p = <<u, v, what>>
      BY <1>0, <1>2, <2>1, PointPixels
    <3>2. Shows(DrawPoint(x, y), f, clip_rect)
      BY <3>1 DEF Shows
    <3> QED
      BY <1>0, <3>2, PixelsOfPicture
  <2>4. Draws(f, DrawPoint(x, y))
    BY <1>3 DEF f
  <2> QED
    BY <1>0, <2>2, <2>3, <2>4, DrawnAsAsked
<1>4. ASSUME Draws([op |-> "hline", x |-> x, y |-> y, n |-> n], DrawHLine(x, y, n))
      PROVE  GraphicsInv'
  <2> DEFINE f == [op |-> "hline", x |-> x, y |-> y, n |-> n]
  <2>1. \A u, v : Wanted(f, u, v) = IF v = y /\ u \in x..(x + n - 1) THEN {Pen} ELSE {}
    BY DEF Wanted
  <2>2. f.op # "line"
    OBVIOUS
  <2> HIDE DEF f
  <2>3. DrawHLine(x, y, n) = Picture(f, clip_rect)
    <3>1. ASSUME NEW p
          PROVE  p \in DrawHLine(x, y, n) <=>
                    \E u, v \in Int : In(u, v, clip_rect) /\ \E what \in Wanted(f, u, v) : p = <<u, v, what>>
      <4>1. p \in DrawHLine(x, y, n) <=>
              \E i \in x .. (x + n - 1) : In(i, y, clip_rect) /\ p = <<i, y, Pen>>
        BY <1>0, <1>2, HLineClipped
      <4> QED
        BY <1>2, <2>1, <4>1
    <3>2. Shows(DrawHLine(x, y, n), f, clip_rect)
      BY <3>1 DEF Shows
    <3> QED
      BY <1>0, <3>2, PixelsOfPicture
  <2>4. Draws(f, DrawHLine(x, y, n))
    BY <1>4 DEF f
  <2> QED
    BY <1>0, <2>2, <2>3, <2>4, DrawnAsAsked
<1>5. ASSUME Draws([op |-> "vline", x |-> x, y |-> y, n |-> n], DrawVLine(x, y, n))
      PROVE  GraphicsInv'
  <2> DEFINE f == [op |-> "vline", x |-> x, y |-> y, n |-> n]
  <2>1. \A u, v : Wanted(f, u, v) = IF u = x /\ v \in y..(y + n - 1) THEN {Pen} ELSE {}
    BY DEF Wanted
  <2>2. f.op = "vline" /\ f.y = y /\ f.n = n
    OBVIOUS
  <2> HIDE DEF f
  <2>3. ASSUME ~ (y + n < clip_rect.top)
        PROVE  DrawVLine(x, y, n) = Picture(f, clip_rect)
    <3>1. ASSUME NEW p
          PROVE  p \in DrawVLine(x, y, n) <=>
                    \E u, v \in Int : In(u, v, clip_rect) /\ \E what \in Wanted(f, u, v) : p = <<u, v, what>>
      <4>1. p \in DrawVLine(x, y, n) <=>
              \E j \in y .. (y + n - 1) : In(x, j, clip_rect) /\ p = <<x, j, Pen>>
        BY <1>0, <1>2, <2>3, VLineClipped
      <4> QED
        BY <1>2, <2>1, <4>1
    <3>2. Shows(DrawVLine(x, y, n), f, clip_rect)
      BY <3>1 DEF Shows
    <3> QED
      BY <1>0, <3>2, PixelsOfPicture
  <2>4. Draws(f, DrawVLine(x, y, n))
    BY <1>5 DEF f
  <2>5. f.op # "line"
    BY <2>2
  <2> QED
    BY <1>0, <2>2, <2>3, <2>4, <2>5, DrawnAsAsked
<1>6. ASSUME NEW xe \in -1..(Width + 1), NEW ye \in -1..(Height + 1),
             Draws([op |-> "line", x |-> x, y |-> y, xe |-> xe, ye |-> ye], DrawLine(x, y, xe, ye))
      PROVE  GraphicsInv'
  <2>1. figure'.op = "line" /\ drawn' = DrawLine(x, y, xe, ye) /\ clip_rect' = clip_rect
    BY <1>6 DEF Draws
  <2>2. GraphicsTypeOK'
    BY <1>0, <2>1 DEF GraphicsTypeOK
  <2>3. FiguresAreClipped'
    BY <2>1 DEF FiguresAreClipped
  <2>4. LinesAreClipped'
    <3>1. xe \in Int /\ ye \in Int
      BY ScreenNumbers
    <3>2. /\ \A d \in DrawLine(x, y, xe, ye) : In(d[1], d[2], clip_rect)
          /\ \/ \A d, e \in DrawLine(x, y, xe, ye) : d[1] = e[1] => d = e
             \/ \A d, e \in DrawLine(x, y, xe, ye) : d[2] = e[2] => d = e
      BY <1>0, <1>2, <3>1, LineClipped
    <3> QED
      BY <2>1, <3>2 DEF LinesAreClipped
  <2> QED
    BY <2>2, <2>3, <2>4 DEF GraphicsInv
<1> QED
  BY <1>1, <1>3, <1>4, <1>5, <1>6

\* Calls for rectangles and bit data.
LEMMA AreasKept ==
    ASSUME GraphicsInv, DrawsAreas
    PROVE  GraphicsInv'
<1>0. GraphicsTypeOK
  BY DEF GraphicsInv
<1>1. PICK x \in Xs, y \in Ys, w \in Sizes, h \in Sizes :
        \/ Draws([op |-> "rect", rect |-> Rect(x, y, x + w, y + h)], DrawRect(Rect(x, y, x + w, y + h)))
        \/ Draws([op |-> "fillrect", rect |-> Rect(x, y, x + w, y + h)],
                 DrawFillRect(Rect(x, y, x + w, y + h)))
        \/ \E rate \in Rates :
             Draws([op |-> "bits", rect |-> Rect(x, y, x + w * rate, y + h * rate), rate |-> rate],
                   DrawBits(x, y, w, h, rate))
  BY DEF DrawsAreas
<1>2. x \in Int /\ y \in Int /\ w \in Nat /\ h \in Nat
  BY ScreenNumbers
<1>3. PICK r \in Int, b \in Int : r = x + w /\ b = y + h /\ x <= r /\ y <= b
  BY <1>2
<1>4. ASSUME Draws([op |-> "rect", rect |-> Rect(x, y, r, b)], DrawRect(Rect(x, y, r, b)))
      PROVE  GraphicsInv'
  <2> DEFINE s == Rect(x, y, r, b)
             f == [op |-> "rect", rect |-> s]
  <2>0. ASSUME NEW p
        PROVE  p \in DrawRect(s) <=> \E u, v \in Int : /\ In(u, v, s) /\ OnEdge(u, v, s)
                                                      /\ In(u, v, clip_rect) /\ p = <<u, v, Pen>>
    <3>1. x <= r /\ y <= b
      BY <1>3
    <3> QED
      BY ONLY <1>0, <1>2, <3>1, r \in Int, b \in Int, RectClipped, SMTT(30)
  <2> HIDE DEF s
  <2>1. \A u, v : Wanted(f, u, v) = IF In(u, v, s) /\ OnEdge(u, v, s) THEN {Pen} ELSE {}
    BY DEF Wanted
  <2>2. f.op # "line"
    OBVIOUS
  <2> HIDE DEF f
  <2>3. DrawRect(s) = Picture(f, clip_rect)
    <3>1. ASSUME NEW p
          PROVE  p \in DrawRect(s) <=>
                    \E u, v \in Int : In(u, v, clip_rect) /\ \E what \in Wanted(f, u, v) : p = <<u, v, what>>
      BY <2>0, <2>1
    <3>2. Shows(DrawRect(s), f, clip_rect)
      BY <3>1 DEF Shows
    <3> QED
      BY <1>0, <3>2, PixelsOfPicture
  <2>4. Draws(f, DrawRect(s))
    BY <1>4 DEF f, s
  <2> QED
    BY <1>0, <2>2, <2>3, <2>4, DrawnAsAsked
<1>5. ASSUME Draws([op |-> "fillrect", rect |-> Rect(x, y, r, b)], DrawFillRect(Rect(x, y, r, b)))
      PROVE  GraphicsInv'
  <2> DEFINE s == Rect(x, y, r, b)
             f == [op |-> "fillrect", rect |-> s]
  <2>0. ASSUME NEW p
        PROVE  p \in DrawFillRect(s) <=> \E u, v \in Int : /\ In(u, v, s) /\ In(u, v, clip_rect)
                                                          /\ p = <<u, v, Pen>>
    BY <1>0, <1>2, <1>3, FillRectClipped, SMTT(30)
  <2> HIDE DEF s
  <2>1. \A u, v : Wanted(f, u, v) = IF In(u, v, s) THEN {Pen} ELSE {}
    BY DEF Wanted
  <2>2. f.op # "line"
    OBVIOUS
  <2> HIDE DEF f
  <2>3. DrawFillRect(s) = Picture(f, clip_rect)
    <3>1. ASSUME NEW p
          PROVE  p \in DrawFillRect(s) <=>
                    \E u, v \in Int : In(u, v, clip_rect) /\ \E what \in Wanted(f, u, v) : p = <<u, v, what>>
      BY <2>0, <2>1
    <3>2. Shows(DrawFillRect(s), f, clip_rect)
      BY <3>1 DEF Shows
    <3> QED
      BY <1>0, <3>2, PixelsOfPicture
  <2>4. Draws(f, DrawFillRect(s))
    BY <1>5 DEF f, s
  <2> QED
    BY <1>0, <2>2, <2>3, <2>4, DrawnAsAsked
<1>6. ASSUME NEW rate \in Rates,
             Draws([op |-> "bits", rect |-> Rect(x, y, x + w * rate, y + h * rate), rate |-> rate],
                   DrawBits(x, y, w, h, rate))
      PROVE  GraphicsInv'
  <2> DEFINE s == Rect(x, y, x + w * rate, y + h * rate)
             f == [op |-> "bits", rect |-> s, rate |-> rate]
             bits == DrawBits(x, y, w, h, rate)
             bit(u, v) == <<(u - x) \div rate, (v - y) \div rate>>
  <2>0. ASSUME NEW p
        PROVE  p \in bits <=> \E u, v \in Int : /\ In(u, v, s) /\ In(u, v, clip_rect)
                                               /\ p = <<u, v, bit(u, v)>>
    <3>1. rate \in Nat \ {0}
      BY ScreenNumbers
    <3>2. p \in DrawBits(x, y, w, h, rate) <=> ShowsBit(p, x, y, w, h, rate)
      BY ONLY <1>0, <1>2, <3>1, BitsClipped
    <3> QED
      BY <3>2 DEF Enlarged, ShowsBit
  <2>1. s.left = x /\ s.top = y
    BY DEF Rect
  <2> HIDE DEF s
  <2>2. \A u, v : Wanted(f, u, v) = IF In(u, v, s) THEN {bit(u, v)} ELSE {}
    BY <2>1 DEF Wanted
  <2>3. f.op # "line"
    OBVIOUS
  <2> HIDE DEF f, bits, bit
  <2>4. bits = Picture(f, clip_rect)
    <3>1. ASSUME NEW p
          PROVE  p \in bits <=>
                    \E u, v \in Int : In(u, v, clip_rect) /\ \E what \in Wanted(f, u, v) : p = <<u, v, what>>
      BY <2>0, <2>2
    <3>2. Shows(bits, f, clip_rect)
      BY <3>1 DEF Shows
    <3> QED
      BY <1>0, <3>2, PixelsOfPicture
  <2>5. Draws(f, bits)
    BY <1>6 DEF f, s, bits
  <2> QED
    BY <1>0, <2>3, <2>4, <2>5, DrawnAsAsked
<1> QED
  BY <1>1, <1>3, <1>4, <1>5, <1>6

\* set_clip_rect() leaves something on the screen.
LEMMA ClippingKept ==
    ASSUME GraphicsInv, SetClipRect
    PROVE  GraphicsInv'
<1>1. PICK l \in Xs, t \in Ys, r \in 1..(Width + 1), b \in 1..(Height + 1) :
         /\ l < r /\ t < b
         /\ clip_rect' = Rect(Most(l, 0), Most(t, 0), Least(r, Width), Least(b, Height))
  BY DEF SetClipRect
<1>2. figure' = NoFigure
  BY DEF SetClipRect
<1>3. /\ Most(l, 0) \in 0..Width /\ Most(t, 0) \in 0..Height
      /\ Least(r, Width) \in 0..Width /\ Least(b, Height) \in 0..Height
      /\ Most(l, 0) < Least(r, Width) /\ Most(t, 0) < Least(b, Height)
  BY <1>1, ScreenNumbers DEF Most, Least, Xs, Ys
<1>4. GraphicsTypeOK'
  <2> HIDE DEF Most, Least
  <2> QED
    BY <1>1, <1>3 DEF GraphicsTypeOK, Rect
<1> QED
  BY <1>2, <1>4 DEF GraphicsInv, FiguresAreClipped, LinesAreClipped, NoFigure

\* At the start the whole screen may be drawn on.
LEMMA GraphicsBegins == GraphicsInit => GraphicsInv
<1> SUFFICES ASSUME GraphicsInit PROVE GraphicsInv
  OBVIOUS
<1>1. GraphicsTypeOK
  BY ScreenNumbers DEF GraphicsInit, GraphicsTypeOK, Screen, Rect
<1> QED
  BY <1>1 DEF GraphicsInit, GraphicsInv, FiguresAreClipped, LinesAreClipped, NoFigure

\* No step breaks the invariant.
LEMMA GraphicsKept == GraphicsInv /\ [GraphicsNext]_graphicsVars => GraphicsInv'
<1> SUFFICES ASSUME GraphicsInv, [GraphicsNext]_graphicsVars PROVE GraphicsInv'
  OBVIOUS
<1>1. CASE SetClipRect
  BY <1>1, ClippingKept
<1>2. CASE ClearClipRect
  <2>1. clip_rect' = Screen /\ figure' = NoFigure
    BY <1>2 DEF ClearClipRect
  <2>2. GraphicsTypeOK'
    BY <2>1, ScreenNumbers DEF GraphicsTypeOK, Screen, Rect
  <2> QED
    BY <2>1, <2>2 DEF GraphicsInv, FiguresAreClipped, LinesAreClipped, NoFigure
<1>3. CASE DrawsLines
  BY <1>3, LinesKept
<1>4. CASE DrawsAreas
  BY <1>4, AreasKept
<1>5. CASE Returns
  <2>1. clip_rect' = clip_rect /\ figure' = NoFigure
    BY <1>5 DEF Returns
  <2> QED
    BY <2>1 DEF GraphicsInv, GraphicsTypeOK, FiguresAreClipped, LinesAreClipped, NoFigure
<1>6. CASE UNCHANGED graphicsVars
  <2>1. clip_rect' = clip_rect /\ figure' = figure /\ drawn' = drawn
    BY <1>6 DEF graphicsVars
  <2>2. FiguresAreClipped'
    BY <2>1, FiguresByPicture DEF GraphicsInv, EndsAbove
  <2> QED
    BY <2>1, <2>2 DEF GraphicsInv, GraphicsTypeOK, LinesAreClipped
<1> QED
  BY <1>1, <1>2, <1>3, <1>4, <1>5, <1>6 DEF GraphicsNext

\* Every figure is drawn as far as it is inside the clipping rectangle, and
\* nothing else, each pixel with its own bit of the data; a line stays inside and has one
\* pixel in each column or row: for every size of the screen and of what is drawn
\* (graphics.c, graphics_op.c).
THEOREM GraphicsInvariant == GraphicsSpec => []GraphicsInv
BY GraphicsBegins, GraphicsKept, PTL DEF GraphicsSpec

-----------------------------------------------------------------------------
(* The log. *)

\* What the log tells apart.
LogChars == {"", "[", "]", "9", "t", "\n"}

\* The cells that a search has before it, from the head and from the tail.
CellsToEnd(s) == IF s.rp <= s.ep THEN s.ep - s.rp ELSE s.ep - s.rp + (LogSize - 1)
CellsToStart(s) == IF s.sp <= s.rp THEN s.rp - s.sp ELSE s.rp - s.sp + LogSize

\* What a search may hold.
Searches ==
    [doing : {"idle", "head", "tail", "outside"}, kind : {"none", "head", "tail"},
     recnum : Nat, rp : Int, sp : LogCells, ep : LogCells,
     stat : {0, 1}, tcount : 0..StampLength, reccount : Nat, looked : Nat]

\* What a search that does not stray has looked at and what it has before it are
\* together no more than the log; one that strays stays inside until it has left.
SearchFits ==
    /\ search.doing \in {"head", "tail"} =>
          search.kind = search.doing /\ search.rp \in LogCells
    /\ search.doing = "outside" => Strays
    /\ ~ Strays => CASE search.doing = "head" -> /\ search.rp # LogSize - 1
                                                 /\ search.looked + CellsToEnd(search) <= LogSize - 2
                     [] search.doing = "tail" -> search.looked + CellsToStart(search) <= LogSize - 1
                     [] OTHER -> search.looked <= LogSize

\* What holds at each moment.
LogBufInd ==
    /\ log_buf \in [LogCells -> LogChars] /\ log_wp \in LogCells
    /\ log_message \in Seq(LogChars)
    /\ log_rp \in (-StampLength - 1)..(LogSize - 1)
    /\ to_print \in 0..(2 * LogSize)
    /\ search \in Searches
    /\ SearchFits

\* The sizes.
LEMMA LogNumbers ==
    /\ LogSize \in Nat /\ StampLength \in Nat \ {0} /\ LogSize > StampLength + 2
    /\ LogCells = 0..(LogSize - 1) /\ MaxRecords \in Nat
    /\ 0 \in LogCells
<1>1. LogSize \in Nat /\ StampLength \in Nat \ {0} /\ LogSize > StampLength + 2
  BY LogBufAssumption DEF LogSize
<1>2. MaxRecords \in Nat
  <2>1. PICK n \in Nat \ {0} : n = StampLength + 2
    BY <1>1
  <2>2. LogSize \div n \in Nat
    BY <1>1
  <2> QED
    BY <2>1, <2>2 DEF MaxRecords
<1> QED
  BY <1>1, <1>2 DEF LogCells

\* No search is a search.
LEMMA NoScanFits ==
    /\ NoScan \in Searches
    /\ NoScan.doing = "idle" /\ NoScan.kind = "none" /\ NoScan.rp = 0 /\ NoScan.sp = 0
    /\ NoScan.ep = 0 /\ NoScan.looked = 0 /\ NoScan.stat = 0 /\ NoScan.tcount = 0
<1>1. 0 \in LogCells /\ 0 \in 0..StampLength
  BY LogNumbers
<1> QED
  BY <1>1 DEF NoScan, Searches

\* Stamps and texts are made of what the log tells apart.
LEMMA StampChars ==
    /\ Stamp \in Seq(LogChars)
    /\ <<>> \in Seq(LogChars) /\ <<"t">> \in Seq(LogChars) /\ <<"\n">> \in Seq(LogChars)
<1>1. /\ <<"[">> \in Seq(LogChars) /\ <<"]">> \in Seq(LogChars)
      /\ <<>> \in Seq(LogChars) /\ <<"t">> \in Seq(LogChars) /\ <<"\n">> \in Seq(LogChars)
  BY DEF LogChars
<1>2. [i \in 1..StampLength |-> "9"] \in Seq(LogChars)
  <2>1. "9" \in LogChars /\ StampLength \in Nat
    BY LogNumbers DEF LogChars
  <2> QED
    BY <2>1
<1> HIDE DEF LogChars
<1> QED
  BY <1>1, <1>2 DEF Stamp

\* It holds of an empty log.
LEMMA LogBufBegins == LogBufInit => LogBufInd
<1> SUFFICES ASSUME LogBufInit PROVE LogBufInd
  OBVIOUS
<1>1. log_buf \in [LogCells -> LogChars]
  BY DEF LogBufInit, LogChars
<1>2. log_wp \in LogCells /\ log_rp \in (-StampLength - 1)..(LogSize - 1) /\ to_print \in 0..(2 * LogSize)
  <2>1. 0 \in (-StampLength - 1)..(LogSize - 1) /\ 0 \in 0..(2 * LogSize)
    BY LogNumbers
  <2> QED
    BY <2>1, LogNumbers DEF LogBufInit
<1>3. log_message \in Seq(LogChars)
  BY StampChars DEF LogBufInit
<1>4. search = NoScan
  BY DEF LogBufInit
<1>5. SearchFits
  BY <1>4, NoScanFits, LogNumbers DEF SearchFits
<1> QED
  BY <1>1, <1>2, <1>3, <1>4, <1>5, NoScanFits DEF LogBufInd

\* A message is stamped text.
LEMMA GslogKeeps ==
    ASSUME LogBufInd, Gslog
    PROVE  LogBufInd'
<1>1. PICK text \in {<<"t">>, <<"\n">>}, recorded \in BOOLEAN :
         log_message' = IF ~ recorded THEN <<>> ELSE IF flg_log_cr THEN Stamp \o text ELSE text
  BY DEF Gslog
<1>2. text \in Seq(LogChars)
  BY StampChars
<1>3. Stamp \o text \in Seq(LogChars)
  BY <1>2, StampChars
<1>4. log_message' \in Seq(LogChars)
  BY <1>1, <1>2, <1>3, StampChars
<1>5. UNCHANGED <<log_buf, log_wp, log_rp, search, to_print>>
  BY DEF Gslog, logReaderVars
<1>6. SearchFits'
  BY <1>5 DEF LogBufInd, SearchFits, Strays, CellsToEnd, CellsToStart
<1> QED
  BY <1>4, <1>5, <1>6 DEF LogBufInd

\* Writing a byte changes a search only when it is past.
LEMMA LogPutcKeeps ==
    ASSUME LogBufInd, LogPutc
    PROVE  LogBufInd'
<1>1. log_message # <<>> /\ log_message' = Tail(log_message)
  BY DEF LogPutc
<1>2. Head(log_message) \in LogChars /\ log_message' \in Seq(LogChars)
  BY <1>1, HeadTailProperties DEF LogBufInd
<1>3. log_buf' = [log_buf EXCEPT ![log_wp] = Head(log_message)] /\ UNCHANGED <<log_rp, to_print>>
  BY DEF LogPutc
<1>4. log_buf' \in [LogCells -> LogChars]
  BY <1>2, <1>3 DEF LogBufInd
<1>5. log_wp' \in LogCells
  BY LogNumbers DEF LogPutc, LogBufInd, IsLast
<1>6. search' = search \/ search' = NoScan
  BY DEF LogPutc
<1>7. search' \in Searches /\ SearchFits'
  <2>1. CASE search' = search
    BY <2>1 DEF LogBufInd, SearchFits, Strays, CellsToEnd, CellsToStart
  <2>2. CASE search' = NoScan
    BY <2>2, NoScanFits, LogNumbers DEF SearchFits
  <2> QED
    BY <1>6, <2>1, <2>2
<1> QED
  BY <1>2, <1>3, <1>4, <1>5, <1>7 DEF LogBufInd

\* A search begins with all of the log before it.
LEMMA SeekKeeps ==
    ASSUME LogBufInd, NEW kind \in {"head", "tail"}, Seek(kind)
    PROVE  LogBufInd'
<1>1. PICK recnum \in 0..MaxRecords :
         search' = [NoScan EXCEPT !.doing = kind, !.kind = kind, !.recnum = recnum,
                                !.rp = IF kind = "tail" THEN SearchEnd ELSE SearchStart,
                                !.sp = SearchStart, !.ep = SearchEnd]
  BY DEF Seek
<1>2. PICK a \in LogCells, e \in LogCells : a = SearchStart /\ e = SearchEnd
  BY LogNumbers DEF SearchStart, SearchEnd, LogBufInd
<1>3. search' = [doing |-> kind, kind |-> kind, recnum |-> recnum,
                 rp |-> IF kind = "tail" THEN e ELSE a, sp |-> a, ep |-> e,
                 stat |-> 0, tcount |-> 0, reccount |-> 0, looked |-> 0]
  BY <1>1, <1>2 DEF NoScan
<1>4. a \in Int /\ e \in Int /\ recnum \in Nat /\ 0 \in 0..StampLength
      /\ a \in 0..(LogSize - 1) /\ e \in 0..(LogSize - 1)
  BY <1>2, LogNumbers
<1>5. search' \in Searches
  BY <1>3, <1>4 DEF Searches
<1>6. /\ search'.doing = kind /\ search'.kind = kind /\ search'.sp = a /\ search'.ep = e
      /\ search'.looked = 0 /\ search'.rp = IF kind = "tail" THEN e ELSE a
  BY <1>3
<1>7. SearchFits'
  <2>1. Strays' <=> kind = "head" /\ LogSize - 1 \in {a, e}
    BY <1>6 DEF Strays
  <2>2. CASE kind = "head"
    <3>1. ~ Strays' => CellsToEnd(search)' <= LogSize - 2
      BY <1>4, <1>6, <2>1, <2>2, LogNumbers DEF CellsToEnd
    <3>2. ~ Strays' => search'.rp # LogSize - 1
      BY <1>6, <2>1, <2>2
    <3>3. search'.rp \in LogCells
      BY <1>2, <1>6, <2>2
    <3>4. search'.looked + CellsToEnd(search)' = CellsToEnd(search)'
      <4>1. CellsToEnd(search)' \in Int
        BY <1>4, <1>6, <2>2, LogNumbers DEF CellsToEnd
      <4> QED
        BY <1>6, <4>1
    <3> QED
      BY <1>6, <2>2, <3>1, <3>2, <3>3, <3>4 DEF SearchFits
  <2>3. CASE kind = "tail"
    <3>1. CellsToStart(search)' <= LogSize - 1 /\ CellsToStart(search)' \in Int
      BY <1>4, <1>6, <2>3, LogNumbers DEF CellsToStart
    <3> QED
      BY <1>4, <1>6, <2>3, <3>1, LogNumbers DEF SearchFits
  <2> QED
    BY <2>2, <2>3
<1>8. log_rp' \in (-StampLength - 1)..(LogSize - 1)
  <2>1. log_rp' = 0
    BY DEF Seek
  <2> QED
    BY <2>1, LogNumbers
<1>9. UNCHANGED <<log_buf, log_wp, log_message, to_print>>
  BY DEF Seek, logWriterVars
<1> QED
  BY <1>5, <1>7, <1>8, <1>9 DEF LogBufInd

\* The end of a search: it stays as it is, but for what a later one needs.
LEMMA FoundKeeps ==
    ASSUME LogBufInd, search.doing \in {"head", "tail"},
           NEW i \in (-StampLength - 1)..(LogSize - 1), SearchFound(search, i)
    PROVE  LogBufInd'
<1>1. search' = [search EXCEPT !.doing = "idle", !.rp = 0, !.stat = 0, !.tcount = 0]
  BY DEF SearchFound
<1>2. search \in Searches
  BY DEF LogBufInd
<1>3. search' \in Searches
  <2>1. 0 \in 0..StampLength /\ 0 \in Int
    BY LogNumbers
  <2> QED
    BY <1>1, <1>2, <2>1 DEF Searches
<1>4. /\ search'.doing = "idle" /\ search'.looked = search.looked /\ search'.kind = search.kind
      /\ search'.sp = search.sp /\ search'.ep = search.ep
  BY <1>1, <1>2 DEF Searches
<1>5. SearchFits'
  <2>1. Strays' <=> Strays
    BY <1>4 DEF Strays
  <2>2. ~ Strays => search.looked <= LogSize
    <3>1. /\ search.rp \in 0..(LogSize - 1) /\ search.ep \in 0..(LogSize - 1)
          /\ search.sp \in 0..(LogSize - 1) /\ search.looked \in Nat
      BY LogNumbers DEF LogBufInd, SearchFits, Searches
    <3>2. PICK m \in Nat, n \in Nat : m = CellsToStart(search) /\ n = CellsToEnd(search)
      BY <3>1, LogNumbers DEF CellsToStart, CellsToEnd
    <3>3. ~ Strays => IF search.doing = "head" THEN search.looked + n <= LogSize - 2
                      ELSE search.looked + m <= LogSize - 1
      BY <3>2 DEF LogBufInd, SearchFits
    <3> QED
      BY <3>1, <3>2, <3>3, LogNumbers
  <2> QED
    BY <1>4, <2>1, <2>2 DEF SearchFits
<1>6. log_rp' = i /\ UNCHANGED <<log_buf, log_wp, log_message, to_print>>
  BY DEF SearchFound, logWriterVars
<1> QED
  BY <1>3, <1>5, <1>6 DEF LogBufInd

\* Each cell from the head is one less to come: whoever does not stray never comes
\* to the last cell, and so meets the end of its search.
LEMMA ForwardKeeps ==
    ASSUME LogBufInd, SearchForward
    PROVE  LogBufInd'
<1> DEFINE ch == LogCell(search.rp)
           ends == search.stat = 1 /\ search.tcount = StampLength
           found == ends /\ ch = "]"
           s == [Looked(search) EXCEPT
                   !.stat = IF search.stat = 0 THEN IF ch = "[" THEN 1 ELSE 0
                            ELSE IF ~ ends /\ ch = "9" THEN 1 ELSE 0,
                   !.tcount = IF search.stat = 1 /\ ~ ends /\ ch = "9" THEN @ + 1 ELSE 0,
                   !.reccount = IF found THEN @ + 1 ELSE @,
                   !.rp = NextCell(@),
                   !.doing = IF search.rp + 1 \in LogCells THEN @ ELSE "outside"]
<1>0. /\ search \in Searches /\ SearchFits /\ search.doing = "head"
      /\ search.kind = "head" /\ search.rp \in 0..(LogSize - 1)
  BY LogNumbers DEF LogBufInd, SearchFits, SearchForward
<1>1. \/ \E i \in (-StampLength - 1)..(LogSize - 1) : SearchFound(search, i)
      \/ search.rp # search.ep /\ SearchGoes(s)
  <2>1. /\ search.rp \in (-StampLength - 1)..(LogSize - 1)
        /\ search.rp - (StampLength + 1) \in (-StampLength - 1)..(LogSize - 1)
    BY <1>0, LogNumbers
  <2>2. \/ SearchFound(search, search.rp)
        \/ SearchFound(search, search.rp - (StampLength + 1))
        \/ search.rp # search.ep /\ SearchGoes(s)
    BY Zenon DEF SearchForward
  <2> QED
    BY <2>1, <2>2
<1>2. CASE \E i \in (-StampLength - 1)..(LogSize - 1) : SearchFound(search, i)
  BY <1>0, <1>2, FoundKeeps
<1>3. CASE search.rp # search.ep /\ SearchGoes(s)
  <2>0. search' = s /\ UNCHANGED <<log_buf, log_wp, log_message, log_rp, to_print>>
    BY <1>3 DEF SearchGoes, logWriterVars
  <2>1. PICK st \in {0, 1}, n \in 0..StampLength, c \in Nat, l \in Nat, r \in Int,
             d \in {"head", "outside"} :
           /\ st = IF search.stat = 0 THEN IF ch = "[" THEN 1 ELSE 0
                   ELSE IF ~ ends /\ ch = "9" THEN 1 ELSE 0
           /\ n = IF search.stat = 1 /\ ~ ends /\ ch = "9" THEN search.tcount + 1 ELSE 0
           /\ c = IF found THEN search.reccount + 1 ELSE search.reccount
           /\ l = IF search.looked > LogSize THEN search.looked ELSE search.looked + 1
           /\ r = NextCell(search.rp)
           /\ d = IF search.rp + 1 \in LogCells THEN search.doing ELSE "outside"
    <3>1. /\ search.stat \in {0, 1} /\ search.tcount \in 0..StampLength
          /\ search.reccount \in Nat /\ search.looked \in Nat
      BY <1>0 DEF Searches
    <3>2. (IF search.stat = 1 /\ ~ ends /\ ch = "9" THEN search.tcount + 1 ELSE 0) \in 0..StampLength
      BY <3>1, LogNumbers
    <3>3. NextCell(search.rp) \in Int
      BY <1>0, LogNumbers DEF NextCell
    <3>4. (IF search.looked > LogSize THEN search.looked ELSE search.looked + 1) \in Nat
      BY <3>1, LogNumbers
    <3>5. (IF found THEN search.reccount + 1 ELSE search.reccount) \in Nat
      BY <3>1
    <3>6. (IF search.stat = 0 THEN IF ch = "[" THEN 1 ELSE 0
                   ELSE IF ~ ends /\ ch = "9" THEN 1 ELSE 0) \in {0, 1}
      OBVIOUS
    <3>7. (IF search.rp + 1 \in LogCells THEN search.doing ELSE "outside") \in {"head", "outside"}
      BY <1>0
    <3> HIDE DEF ends, found, ch
    <3> QED
      BY <3>2, <3>3, <3>4, <3>5, <3>6, <3>7
  <2>2. Looked(search) = [search EXCEPT !.looked = l] /\ search \in Searches
    BY <1>0, <2>1 DEF Looked
  <2>3. s = [search EXCEPT !.looked = l, !.stat = st, !.tcount = n, !.reccount = c, !.rp = r, !.doing = d]
    BY <2>1, <2>2 DEF Searches
  <2> HIDE DEF s
  <2>4. s \in Searches
    BY <2>2, <2>3 DEF Searches
  <2>5. /\ s.doing = d /\ s.rp = r /\ s.looked = l /\ s.kind = search.kind /\ s.sp = search.sp
        /\ s.ep = search.ep
    BY <2>2, <2>3 DEF Searches
  <2>6. SearchFits'
    <3>1. search'.doing = d /\ search'.rp = r /\ search'.looked = l /\ search'.kind = "head"
          /\ search'.sp = search.sp /\ search'.ep = search.ep
      BY <1>0, <2>0, <2>5
    <3>2. Strays' <=> Strays
      BY <1>0, <3>1 DEF Strays
    <3>3. /\ search.ep \in 0..(LogSize - 1) /\ search.sp \in 0..(LogSize - 1) /\ search.looked \in Nat
      BY <1>0, LogNumbers DEF Searches
    <3>4. d = "head" => r \in LogCells
      BY <1>0, <2>1, LogNumbers DEF NextCell
    <3>5. CASE Strays
      BY <3>1, <3>2, <3>4, <3>5 DEF SearchFits
    <3>6. CASE ~ Strays
      <4>1. PICK m \in Nat : m = CellsToEnd(search)
        BY <1>0, <3>3, LogNumbers DEF CellsToEnd
      <4>2. search.looked + m <= LogSize - 2
        BY <1>0, <3>6, <4>1 DEF SearchFits
      <4>3. search.rp < LogSize - 1 /\ search.ep < LogSize - 1
        <5>1. search.ep # LogSize - 1
          BY <1>0, <3>6 DEF Strays
        <5>2. search.rp # LogSize - 1
          BY <1>0, <3>6 DEF SearchFits
        <5> QED
          BY <1>0, <3>3, <5>1, <5>2, LogNumbers
      <4>4. d = "head"
        BY <1>0, <2>1, <4>3, LogNumbers
      <4>5. l = search.looked + 1
        BY <2>1, <3>3, <4>1, <4>2, LogNumbers
      <4>6. r # LogSize - 1 /\ CellsToEnd(search)' = m - 1
        <5>1. PICK a \in Int, e \in Int : a = search.rp /\ e = search.ep /\ 0 <= a /\ 0 <= e
          BY <1>0, <3>3
        <5>2. r = IF a + 1 = LogSize - 1 THEN 0 ELSE a + 1
          BY <2>1, <5>1 DEF NextCell
        <5>3. m = IF a <= e THEN e - a ELSE e - a + (LogSize - 1)
          BY <4>1, <5>1 DEF CellsToEnd
        <5>4. CellsToEnd(search)' = IF r <= e THEN e - r ELSE e - r + (LogSize - 1)
          BY <3>1, <5>1 DEF CellsToEnd
        <5>5. a # e /\ a < LogSize - 1 /\ e < LogSize - 1
          BY <1>3, <4>3, <5>1
        <5>6. PICK N \in Int : N = LogSize - 1
          BY LogNumbers
        <5>7. CASE a + 1 = N
          <6>1. r = 0
            BY <5>2, <5>6, <5>7
          <6> QED
            BY <5>1, <5>3, <5>4, <5>5, <5>6, <5>7, <6>1
        <5>8. CASE a + 1 # N
          <6>1. r = a + 1
            BY <5>2, <5>6, <5>8
          <6> QED
            BY <5>1, <5>3, <5>4, <5>5, <5>6, <5>8, <6>1
        <5> QED
          BY <5>7, <5>8
      <4>7. search'.looked + CellsToEnd(search)' <= LogSize - 2
        BY <3>1, <3>3, <4>1, <4>2, <4>5, <4>6, LogNumbers
      <4> QED
        BY <3>1, <3>2, <3>4, <3>6, <4>4, <4>6, <4>7 DEF SearchFits
    <3> QED
      BY <3>5, <3>6
  <2> QED
    BY <2>0, <2>4, <2>6 DEF LogBufInd
<1> QED
  BY <1>1, <1>2, <1>3

\* Each cell from the tail is one less to come.
LEMMA BackwardKeeps ==
    ASSUME LogBufInd, SearchBackward
    PROVE  LogBufInd'
<1> DEFINE ch == LogCell(search.rp)
           ends == search.stat = 1 /\ search.tcount = StampLength
           found == ends /\ ch = "["
           s == [Looked(search) EXCEPT
                   !.stat = IF search.stat = 0 THEN IF ch = "]" THEN 1 ELSE 0
                            ELSE IF ~ ends /\ ch = "9" THEN 1 ELSE 0,
                   !.tcount = IF search.stat = 1 /\ ~ ends /\ ch = "9" THEN @ + 1 ELSE 0,
                   !.reccount = IF found THEN @ + 1 ELSE @,
                   !.rp = IF @ = 0 THEN LogSize - 1 ELSE @ - 1]
<1>0. /\ search \in Searches /\ SearchFits /\ search.doing = "tail"
      /\ search.kind = "tail" /\ search.rp \in 0..(LogSize - 1)
  BY LogNumbers DEF LogBufInd, SearchFits, SearchBackward
<1>1. \/ SearchFound(search, search.rp)
      \/ search.rp # search.sp /\ SearchGoes(s)
  BY Zenon DEF SearchBackward
<1>2. CASE SearchFound(search, search.rp)
  <2>1. search.rp \in (-StampLength - 1)..(LogSize - 1)
    BY <1>0, LogNumbers
  <2> QED
    BY <1>0, <1>2, <2>1, FoundKeeps
<1>3. CASE search.rp # search.sp /\ SearchGoes(s)
  <2>0. search' = s /\ UNCHANGED <<log_buf, log_wp, log_message, log_rp, to_print>>
    BY <1>3 DEF SearchGoes, logWriterVars
  <2>1. PICK st \in {0, 1}, n \in 0..StampLength, c \in Nat, l \in Nat, r \in LogCells :
           /\ st = IF search.stat = 0 THEN IF ch = "]" THEN 1 ELSE 0
                   ELSE IF ~ ends /\ ch = "9" THEN 1 ELSE 0
           /\ n = IF search.stat = 1 /\ ~ ends /\ ch = "9" THEN search.tcount + 1 ELSE 0
           /\ c = IF found THEN search.reccount + 1 ELSE search.reccount
           /\ l = IF search.looked > LogSize THEN search.looked ELSE search.looked + 1
           /\ r = IF search.rp = 0 THEN LogSize - 1 ELSE search.rp - 1
    <3>1. /\ search.stat \in {0, 1} /\ search.tcount \in 0..StampLength
          /\ search.reccount \in Nat /\ search.looked \in Nat
      BY <1>0 DEF Searches
    <3>2. (IF search.stat = 1 /\ ~ ends /\ ch = "9" THEN search.tcount + 1 ELSE 0) \in 0..StampLength
      BY <3>1, LogNumbers
    <3>3. (IF search.rp = 0 THEN LogSize - 1 ELSE search.rp - 1) \in LogCells
      BY <1>0, LogNumbers
    <3>4. (IF search.looked > LogSize THEN search.looked ELSE search.looked + 1) \in Nat
      BY <3>1, LogNumbers
    <3>5. (IF found THEN search.reccount + 1 ELSE search.reccount) \in Nat
      BY <3>1
    <3>6. (IF search.stat = 0 THEN IF ch = "]" THEN 1 ELSE 0
                   ELSE IF ~ ends /\ ch = "9" THEN 1 ELSE 0) \in {0, 1}
      OBVIOUS
    <3> HIDE DEF ends, found, ch
    <3> QED
      BY <3>2, <3>3, <3>4, <3>5, <3>6
  <2>2. Looked(search) = [search EXCEPT !.looked = l] /\ search \in Searches
    BY <1>0, <2>1 DEF Looked
  <2>3. s = [search EXCEPT !.looked = l, !.stat = st, !.tcount = n, !.reccount = c, !.rp = r]
    BY <2>1, <2>2 DEF Searches
  <2> HIDE DEF s
  <2>4. s \in Searches
    <3>1. r \in Int
      BY <2>1, LogNumbers
    <3> QED
      BY <2>2, <2>3, <3>1 DEF Searches
  <2>5. /\ s.doing = "tail" /\ s.rp = r /\ s.looked = l /\ s.kind = "tail" /\ s.sp = search.sp
        /\ s.ep = search.ep
    BY <1>0, <2>2, <2>3 DEF Searches
  <2>6. SearchFits'
    <3>1. search'.doing = "tail" /\ search'.rp = r /\ search'.looked = l /\ search'.kind = "tail"
          /\ search'.sp = search.sp
      BY <2>0, <2>5
    <3>2. ~ Strays' /\ ~ Strays
      BY <1>0, <3>1 DEF Strays
    <3>3. PICK m \in Int, a \in 0..(LogSize - 1), e \in 0..(LogSize - 1), k \in Nat :
            m = CellsToStart(search) /\ a = search.rp /\ e = search.sp /\ k = search.looked
      BY <1>0, LogNumbers DEF CellsToStart, Searches
    <3>4. k + m <= LogSize - 1
      BY <1>0, <3>2, <3>3 DEF SearchFits
    <3>5. m = IF e <= a THEN a - e ELSE a - e + LogSize
      BY <3>3 DEF CellsToStart
    <3>6. CellsToStart(search)' = IF e <= r THEN r - e ELSE r - e + LogSize
      BY <3>1, <3>3 DEF CellsToStart
    <3>7. r = IF a = 0 THEN LogSize - 1 ELSE a - 1
      BY <2>1, <3>3
    <3>8. m >= 1 /\ CellsToStart(search)' = m - 1
      BY <1>3, <3>3, <3>5, <3>6, <3>7, LogNumbers, SMTT(30)
    <3>9. l = k + 1
      BY <2>1, <3>3, <3>4, <3>8, LogNumbers
    <3>10. search'.looked + CellsToStart(search)' <= LogSize - 1
      BY <3>1, <3>3, <3>4, <3>8, <3>9, LogNumbers
    <3> QED
      BY <2>1, <3>1, <3>2, <3>10 DEF SearchFits
  <2> QED
    BY <2>0, <2>4, <2>6 DEF LogBufInd
<1> QED
  BY <1>1, <1>2, <1>3

\* A record is no longer than the log.
LEMMA LineSizeBound ==
    ASSUME LogBufInd
    PROVE  LineSize \in 0..(2 * LogSize)
<1> DEFINE u == Unread
           newline[k \in 0..Len(u)] == k > 0 /\ ~ newline[k - 1] /\ LogCell(u[k]) = "\n"
           ends == {k \in 1..(Len(u) - 1) : newline[k] /\ LogCell(u[k + 1]) = "["}
           place == [k \in 0..(2 * LogSize) |-> IF log_rp + k < LogSize THEN log_rp + k ELSE (log_rp + k) - LogSize]
           n == CHOOSE n \in 0..(2 * LogSize) :
                  place[n] = log_wp /\ \A k \in 0..(n - 1) : place[k] # log_wp
<1>1. LineSize = IF ends = {} THEN Len(u) ELSE CHOOSE k \in ends : \A l \in ends : k <= l
  BY DEF LineSize
<1>2. u = [k \in 1..n |-> place[k - 1]]
  BY DEF Unread, LogBufInd
<1>3. n \in 0..(2 * LogSize)
  <2> DEFINE there == {k \in 0..(2 * LogSize) : place[k] = log_wp}
  <2>0. there \subseteq Nat
    BY LogNumbers
  <2>1. there # {}
    <3>1. PICK L \in Nat, S \in Nat, i \in Int, w \in Int :
            /\ L = LogSize /\ S = StampLength /\ i = log_rp /\ w = log_wp
            /\ L > S + 2 /\ -S - 1 <= i /\ i < L /\ 0 <= w /\ w < L
      <4>1. log_rp \in (-StampLength - 1)..(LogSize - 1) /\ log_wp \in 0..(LogSize - 1)
        BY LogNumbers DEF LogBufInd
      <4>2. LogSize \in Nat /\ StampLength \in Nat /\ LogSize > StampLength + 2
        BY LogNumbers
      <4>3. /\ log_rp \in Int /\ log_wp \in Int /\ -StampLength - 1 <= log_rp
            /\ log_rp < LogSize /\ 0 <= log_wp /\ log_wp < LogSize
        BY <4>1, <4>2
      <4> QED
        BY <4>2, <4>3
    <3>2. PICK d \in Int : d = IF w - i >= 0 THEN w - i ELSE w - i + L
      <4>1. (IF w - i >= 0 THEN w - i ELSE w - i + L) \in Int
        BY <3>1
      <4> QED
        BY <4>1
    <3>3. d \in 0..(2 * L) /\ (IF i + d < L THEN i + d ELSE (i + d) - L) = w
      BY <3>1, <3>2
    <3>4. d \in 0..(2 * LogSize) /\ place[d] = IF log_rp + d < LogSize THEN log_rp + d ELSE (log_rp + d) - LogSize
      BY <3>1, <3>3
    <3>5. place[d] = log_wp
      BY <3>1, <3>3, <3>4
    <3> HIDE DEF place
    <3> QED
      BY <3>4, <3>5
  <2>2. PICK k \in there : \A l \in there : k <= l
    <3> HIDE DEF there
    <3> QED
      BY <2>0, <2>1, MinOfNaturals
  <2>3. k \in 0..(2 * LogSize) /\ place[k] = log_wp /\ \A l \in 0..(k - 1) : place[l] # log_wp
    <3> HIDE DEF place
    <3>1. k \in 0..(2 * LogSize) /\ place[k] = log_wp
      OBVIOUS
    <3>2. ASSUME NEW l \in 0..(k - 1)
          PROVE  place[l] # log_wp
      <4>1. PICK L \in Nat : L = 2 * LogSize
        BY LogNumbers
      <4>2. l \in 0..(2 * LogSize) /\ ~ k <= l
        BY <3>1, <4>1
      <4> QED
        BY <2>2, <4>2
    <3> QED
      BY <3>1, <3>2
  <2> HIDE DEF place, there
  <2> QED
    BY <2>3
<1> HIDE DEF n, u
<1>4. Len(u) = n
  BY <1>2, <1>3
<1> HIDE DEF newline
<1>5. ends # {} => (CHOOSE k \in ends : \A l \in ends : k <= l) \in ends
  <2>1. ends \subseteq Nat
    OBVIOUS
  <2> HIDE DEF ends
  <2> QED
    BY <2>1, MinOfNaturals
<1>6. ends \subseteq 0..(2 * LogSize)
  <2>1. PICK L \in Nat : L = 2 * LogSize
    BY LogNumbers
  <2>2. n \in 0..L /\ Len(u) = n
    BY <1>3, <1>4, <2>1
  <2>3. ASSUME NEW k \in 1..(Len(u) - 1)
        PROVE  k \in 0..(2 * LogSize)
    BY <2>1, <2>2
  <2> QED
    BY <2>3
<1> HIDE DEF ends
<1> QED
  BY <1>1, <1>3, <1>4, <1>5, <1>6
\* What is to be printed is in the log.
LEMMA AskLineSizeKeeps ==
    ASSUME LogBufInd, AskLineSize
    PROVE  LogBufInd'
<1>1. to_print' \in 0..(2 * LogSize)
  BY LineSizeBound DEF AskLineSize
<1>2. search' = [NoScan EXCEPT !.kind = search.kind]
  BY DEF AskLineSize
<1>3. search.kind \in {"none", "head", "tail"}
  BY DEF LogBufInd, Searches
<1>4. search' \in Searches
  BY <1>2, <1>3, NoScanFits DEF Searches
<1>5. search'.doing = "idle" /\ search'.looked = 0
  BY <1>2, NoScanFits DEF Searches
<1>6. SearchFits'
  BY <1>5, LogNumbers DEF SearchFits
<1>7. UNCHANGED <<log_buf, log_wp, log_message, log_rp>>
  BY DEF AskLineSize, logWriterVars
<1> QED
  BY <1>1, <1>4, <1>6, <1>7 DEF LogBufInd

\* Printing stays inside the log.
LEMMA ReadByteKeeps ==
    ASSUME LogBufInd, ReadByte
    PROVE  LogBufInd'
<1>1. UNCHANGED <<log_buf, log_wp, log_message, search>>
  BY DEF ReadByte, logWriterVars
<1>2. log_rp' = log_rp \/ log_rp' = NextRead(log_rp)
  BY DEF ReadByte
<1>3. log_rp' \in (-StampLength - 1)..(LogSize - 1)
  BY <1>2, LogNumbers DEF LogBufInd, NextRead
<1>4. to_print' = 0 \/ to_print' = to_print - 1
  BY DEF ReadByte
<1>5. to_print' \in 0..(2 * LogSize)
  <2>1. PICK L \in Nat : L = 2 * LogSize
    BY LogNumbers
  <2>2. to_print \in 0..L /\ to_print > 0
    BY <2>1 DEF LogBufInd, ReadByte
  <2>3. to_print' \in 0..L
    BY <1>4, <2>2
  <2> QED
    BY <2>1, <2>3
<1>6. SearchFits'
  BY <1>1 DEF LogBufInd, SearchFits, Strays, CellsToEnd, CellsToStart
<1> QED
  BY <1>1, <1>3, <1>5, <1>6 DEF LogBufInd

\* Every step keeps it.
LEMMA LogBufKept == LogBufInd /\ [LogBufNext]_logBufVars => LogBufInd'
<1> SUFFICES ASSUME LogBufInd, [LogBufNext]_logBufVars
             PROVE  LogBufInd'
  OBVIOUS
<1>1. CASE Gslog
  BY <1>1, GslogKeeps
<1>2. CASE LogPutc
  BY <1>2, LogPutcKeeps
<1>3. CASE \E kind \in {"head", "tail"} : Seek(kind)
  BY <1>3, SeekKeeps
<1>4. CASE SearchForward
  BY <1>4, ForwardKeeps
<1>5. CASE SearchBackward
  BY <1>5, BackwardKeeps
<1>6. CASE AskLineSize
  BY <1>6, AskLineSizeKeeps
<1>7. CASE ReadByte
  BY <1>7, ReadByteKeeps
<1>8. CASE UNCHANGED logBufVars
  BY <1>8 DEF logBufVars, LogBufInd, SearchFits, Strays, CellsToEnd, CellsToStart
<1> QED
  BY <1>1, <1>2, <1>3, <1>4, <1>5, <1>6, <1>7, <1>8 DEF LogBufNext

\* It says what is to be shown.
LEMMA LogBufIndSays == LogBufInd => LogBufTypeOK /\ SearchesEnd
<1> SUFFICES ASSUME LogBufInd PROVE LogBufTypeOK /\ SearchesEnd
  OBVIOUS
<1>1. LogBufTypeOK
  BY DEF LogBufInd, LogBufTypeOK, LogChars, Searches
<1>2. ASSUME ~ Strays, search.looked > LogSize \/ search.doing = "outside"
      PROVE  FALSE
  <2>1. search.doing # "outside" /\ search.looked > LogSize
    BY <1>2 DEF LogBufInd, SearchFits
  <2>2. search.doing \in {"head", "tail"}
    BY <1>2, <2>1, LogNumbers, SMTT(30) DEF LogBufInd, SearchFits, Searches
  <2>3. /\ search.rp \in 0..(LogSize - 1) /\ search.ep \in 0..(LogSize - 1)
        /\ search.sp \in 0..(LogSize - 1) /\ search.looked \in Nat
    BY <2>2, LogNumbers DEF LogBufInd, SearchFits, Searches
  <2>4. PICK m \in Nat, e \in Nat : m = CellsToStart(search) /\ e = CellsToEnd(search)
    BY <2>3, LogNumbers DEF CellsToStart, CellsToEnd
  <2>5. IF search.doing = "head" THEN search.looked + e <= LogSize - 2
        ELSE search.looked + m <= LogSize - 1
    BY <1>2, <2>2, <2>4 DEF LogBufInd, SearchFits
  <2> QED
    BY <2>1, <2>3, <2>4, <2>5, LogNumbers
<1> QED
  BY <1>1, <1>2 DEF SearchesEnd

\* Whatever is written meanwhile, a search of the log's ring stays inside it and is
\* over within one round (kernel/log.c, drivers/logbuf.c), unless it begins or
\* should end at the cell that a search from the head skips.
THEOREM LogSearchesEnd == LogBufSpec => [](LogBufTypeOK /\ SearchesEnd)
<1>1. LogBufInit => LogBufInd
  BY LogBufBegins
<1>2. LogBufInd /\ [LogBufNext]_logBufVars => LogBufInd'
  BY LogBufKept
<1>3. LogBufInd => LogBufTypeOK /\ SearchesEnd
  BY LogBufIndSays
<1> QED
  BY <1>1, <1>2, <1>3, PTL DEF LogBufSpec

-----------------------------------------------------------------------------
(* What a search of the log finds. *)

\* The text by its offsets from the oldest byte.
TextCell(o) == IF OldestByte + o < LogSize THEN OldestByte + o ELSE OldestByte + o - LogSize
TextOffset(i) == IF OldestByte <= i THEN i - OldestByte ELSE i - OldestByte + LogSize
LogText == [o \in LogCells |-> LogCell(TextCell(o))]

\* A text t of n bytes: what a "[" begins is a stamp, as far as the text goes, so is
\* what a "]" ends, and after a stamp comes other text or a new line.
TextFits(t, n) ==
    \A o, p \in 0..(n - 1) :
       /\ t[o] = "[" /\ o < p /\ p <= o + StampLength => t[p] = "9"
       /\ t[o] = "[" /\ p = o + StampLength + 1 => t[p] = "]"
       /\ t[p] = "]" /\ p <= o + StampLength /\ o < p => t[o] = "9"
       /\ t[p] = "]" /\ p = o + StampLength + 1 => t[o] = "["
       /\ t[o] = "]" /\ p = o + 1 => t[p] \in {"t", "\n"}

\* It ends with the first d bytes of a stamped line, and with no other part of one.
MessageFits(t, n, d) ==
    \A o \in 0..(n - 1) :
       /\ d <= StampLength + 1 /\ o = n - d => t[o] = "["
       /\ d <= StampLength + 1 /\ o > n - d => t[o] = "9"
       /\ t[o] = "[" /\ n - o <= StampLength + 1 => d = n - o
       /\ t[o] = "]" /\ o = n - 1 => d = StampLength + 2

\* The byte at d of a stamped line.
LineByte(d, c) ==
    IF d = 0 THEN c = "[" ELSE IF d <= StampLength THEN c = "9"
    ELSE IF d = StampLength + 1 THEN c = "]" ELSE c \in {"t", "\n"}

\* How much of a stamped line is written.
Written == StampLength + 3 - Len(log_message)

\* The writer: what is written, and what is to be written, are stamped lines.
LinesFit ==
    /\ meanwhile \in Nat
    /\ Len(log_message) <= StampLength + 3
    /\ \A i \in 1..Len(log_message) : LineByte(Written + i - 1, log_message[i])
    /\ TextFits(LogText, TextLength)
    /\ MessageFits(LogText, TextLength, Written)
    /\ ~ flg_buff_full => \A i \in LogCells : log_wp <= i => log_buf[i] = ""

\* The stamps that end before an offset, and those that begin behind it.
EndedBefore(o) == {i \in Stamps : TextOffset(i) + StampLength + 1 < o}
BegunBehind(o) == {i \in Stamps : TextOffset(i) > o}

\* What a search from the head has read of a text t before o: it is in a stamp when it
\* says so, or in one that lies across the byte x that it skips, and then it is lost.
HeadReads(t, o, x, state, tcount) ==
    /\ state = 0 => \A b \in 0..(o - 1) : t[b] = "[" /\ o <= b + StampLength + 1 => b <= x /\ x < o
    /\ state = 1 => \E b \in 0..(o - 1) :
                     /\ t[b] = "["
                     /\ \/ (x < b \/ o <= x) /\ b + tcount + 1 = o
                        \/ /\ b < x /\ x < o /\ b + tcount + 2 = o
                           /\ tcount < StampLength \/ x = o - 1

\* It has counted the stamps that it has read.
HeadCounts ==
    /\ search.sp = SearchStart /\ search.ep = SearchEnd
    /\ TextOffset(search.rp) <= TextOffset(search.ep)
    /\ search.reccount = Cardinality(EndedBefore(TextOffset(search.rp)))
    /\ search.reccount <= search.recnum
    /\ HeadReads(LogText, TextOffset(search.rp), TextOffset(LogSize - 1),
                 search.stat, search.tcount)

\* What a search from the tail has read of a text t of n bytes behind o.
TailReads(t, n, o, state, tcount) ==
    /\ state = 0 => \A e \in (o + 1)..(n - 1) : t[e] = "]" => e > o + StampLength + 1
    /\ state = 1 => o + 1 + tcount < n /\ t[o + 1 + tcount] = "]"

TailCounts ==
    /\ search.sp = SearchStart
    /\ TextOffset(search.rp) <= TextLength
    /\ search.reccount = Cardinality(BegunBehind(TextOffset(search.rp)))
    /\ search.recnum = 0 \/ search.reccount < search.recnum
    /\ TailReads(LogText, TextLength, TextOffset(search.rp), search.stat, search.tcount)

SearchCounts ==
    meanwhile = 0 /\ ~ Strays =>
        /\ search.doing = "head" => HeadCounts
        /\ search.doing = "tail" => TailCounts

\* What is still to be read, from a cell on.
ReadCell(k) == IF log_rp + k < LogSize THEN log_rp + k ELSE log_rp + k - LogSize
ToRead(k) == LogCell(ReadCell(k))
UnreadBytes == IF log_wp >= log_rp THEN log_wp - log_rp ELSE log_wp - log_rp + LogSize

\* What is printed, and what is still to be, is one record.
RecordPrints ==
    meanwhile = 0 /\ search.kind \in {"head", "tail"} /\ (to_print > 0 \/ printed # <<>>) =>
        LET p == Len(printed) IN
        /\ to_print <= UnreadBytes
        /\ \A k \in 1..(p - 1) : printed[k] = "\n" /\ printed[k + 1] = "[" => k > 1 /\ printed[k - 1] = "\n"
        /\ p > 0 /\ to_print > 0 /\ printed[p] = "\n" /\ ToRead(0) = "[" => p > 1 /\ printed[p - 1] = "\n"
        /\ to_print > 1 /\ ToRead(0) = "\n" /\ ToRead(1) = "[" => p > 0 /\ printed[p] = "\n"
        /\ \A j \in 1..(to_print - 2) : ToRead(j) = "\n" /\ ToRead(j + 1) = "[" => ToRead(j - 1) = "\n"
        /\ to_print = UnreadBytes \/ ToRead(to_print) = "["

\* Nothing is printed while a search goes on.
PrintFits ==
    /\ printed \in Seq(LogChars)
    /\ search.doing # "idle" => to_print = 0 /\ printed = <<>>
    /\ RecordPrints

LogRecordsInd == LinesFit /\ SearchCounts /\ RecordsAreFound /\ PrintFits

\* Where a byte of the text lies, and how far a cell is from the oldest byte.
LEMMA TextNumbers ==
    ASSUME log_wp \in LogCells
    PROVE  /\ OldestByte \in LogCells /\ TextLength \in 0..LogSize
           /\ flg_buff_full => OldestByte = log_wp /\ TextLength = LogSize
           /\ ~ flg_buff_full => OldestByte = 0 /\ TextLength = log_wp
           /\ \A o \in LogCells : TextCell(o) \in LogCells /\ TextOffset(TextCell(o)) = o
           /\ \A i \in LogCells : TextOffset(i) \in LogCells /\ TextCell(TextOffset(i)) = i
<1>1. PICK N \in Nat : N = LogSize /\ N > 0 /\ LogCells = 0..(N - 1) /\ log_wp \in 0..(N - 1)
  BY LogNumbers
<1>2. PICK b \in 0..(N - 1) : b = OldestByte
  <2>1. OldestByte \in 0..(N - 1)
    BY <1>1 DEF OldestByte
  <2> QED
    BY <2>1
<1>3. /\ TextLength \in 0..LogSize
      /\ flg_buff_full => OldestByte = log_wp /\ TextLength = LogSize
      /\ ~ flg_buff_full => OldestByte = 0 /\ TextLength = log_wp
  BY <1>1 DEF OldestByte, TextLength
<1>4. ASSUME NEW o \in LogCells
      PROVE  TextCell(o) \in LogCells /\ TextOffset(TextCell(o)) = o
  <2>1. TextCell(o) = IF b + o < N THEN b + o ELSE b + o - N
    BY <1>1, <1>2 DEF TextCell
  <2>2. TextOffset(TextCell(o)) = IF b <= TextCell(o) THEN TextCell(o) - b ELSE TextCell(o) - b + N
    BY <1>1, <1>2 DEF TextOffset
  <2>3. o \in 0..(N - 1)
    BY <1>1
  <2>4. TextCell(o) \in 0..(N - 1)
    BY <1>2, <2>1, <2>3
  <2>5. TextOffset(TextCell(o)) = o
    <3>1. CASE b + o < N
      BY <2>1, <2>2, <2>3, <3>1
    <3>2. CASE ~ b + o < N
      BY <1>2, <2>1, <2>2, <2>3, <3>2
    <3> QED
      BY <3>1, <3>2
  <2> QED
    BY <1>1, <2>4, <2>5
<1>5. ASSUME NEW i \in LogCells
      PROVE  TextOffset(i) \in LogCells /\ TextCell(TextOffset(i)) = i
  <2>1. TextOffset(i) = IF b <= i THEN i - b ELSE i - b + N
    BY <1>1, <1>2 DEF TextOffset
  <2>2. TextCell(TextOffset(i)) = IF b + TextOffset(i) < N THEN b + TextOffset(i) ELSE b + TextOffset(i) - N
    BY <1>1, <1>2 DEF TextCell
  <2>3. i \in 0..(N - 1)
    BY <1>1
  <2>4. TextOffset(i) \in 0..(N - 1)
    BY <1>2, <2>1, <2>3
  <2>5. TextCell(TextOffset(i)) = i
    <3>1. CASE b <= i
      BY <2>1, <2>2, <2>3, <3>1
    <3>2. CASE ~ b <= i
      BY <1>2, <2>1, <2>2, <2>3, <3>2
    <3> QED
      BY <3>1, <3>2
  <2> QED
    BY <1>1, <2>4, <2>5
<1> QED
  BY <1>1, <1>2, <1>3, <1>4, <1>5

\* Distances and places in the ring.
LEMMA RingNumbers ==
    /\ \A i, j \in LogCells : LogDistance(i, j) = IF i <= j THEN j - i ELSE j - i + LogSize
    /\ \A i \in LogCells, k \in 0..(StampLength + 1) :
         (i + k) % LogSize = IF i + k < LogSize THEN i + k ELSE i + k - LogSize
<1>1. PICK N \in Nat \ {0} : N = LogSize /\ StampLength + 1 < N /\ LogCells = 0..(N - 1)
  BY LogNumbers
<1>2. ASSUME NEW i \in LogCells, NEW j \in LogCells
      PROVE  LogDistance(i, j) = IF i <= j THEN j - i ELSE j - i + LogSize
  <2>1. PICK d \in Int : d = j - i /\ i \in 0..(N - 1) /\ j \in 0..(N - 1)
    BY <1>1
  <2>2. LogDistance(i, j) = d % N
    BY <1>1, <2>1 DEF LogDistance
  <2>3. CASE i <= j
    <3>1. d \in 0..(N - 1) /\ d = N * 0 + d
      BY <2>1, <2>3
    <3>2. d % N = d
      BY <3>1, DivisionIsUnique
    <3> QED
      BY <2>1, <2>2, <2>3, <3>2
  <2>4. CASE ~ i <= j
    <3>1. d + N \in 0..(N - 1) /\ d = N * (-1) + (d + N)
      BY <2>1, <2>4
    <3>2. d % N = d + N
      BY <3>1, DivisionIsUnique
    <3> QED
      BY <1>1, <2>1, <2>2, <2>4, <3>2
  <2> QED
    BY <2>3, <2>4
<1>3. ASSUME NEW i \in LogCells, NEW k \in 0..(StampLength + 1)
      PROVE  (i + k) % LogSize = IF i + k < LogSize THEN i + k ELSE i + k - LogSize
  <2>1. PICK d \in Int : d = i + k /\ 0 <= d /\ d < 2 * N
    BY <1>1, LogNumbers
  <2>2. CASE d < N
    <3>1. d \in 0..(N - 1) /\ d = N * 0 + d
      BY <2>1, <2>2
    <3>2. d % N = d
      BY <3>1, DivisionIsUnique
    <3> QED
      BY <1>1, <2>1, <2>2, <3>2
  <2>3. CASE ~ d < N
    <3>1. d - N \in 0..(N - 1) /\ d = N * 1 + (d - N)
      BY <2>1, <2>3
    <3>2. d % N = d - N
      BY <3>1, DivisionIsUnique
    <3> QED
      BY <1>1, <2>1, <2>3, <3>2
  <2> QED
    BY <2>2, <2>3
<1> QED
  BY <1>2, <1>3

\* The bytes of a stamp.
LEMMA StampBytes ==
    /\ Len(Stamp) = StampLength + 2
    /\ \A k \in 0..(StampLength + 1) :
         Stamp[k + 1] = IF k = 0 THEN "[" ELSE IF k = StampLength + 1 THEN "]" ELSE "9"
<1>1. PICK L \in Nat : L = StampLength
  BY LogNumbers
<1> DEFINE s == [i \in 1..L |-> "9"]
<1>2. s \in Seq(LogChars) /\ Len(s) = L /\ \A i \in 1..L : s[i] = "9"
  BY DEF LogChars
<1> HIDE DEF s
<1>3. /\ <<"[">> \in Seq(LogChars) /\ <<"]">> \in Seq(LogChars)
      /\ Len(<<"[">>) = 1 /\ Len(<<"]">>) = 1 /\ <<"[">>[1] = "[" /\ <<"]">>[1] = "]"
  BY DEF LogChars
<1>4. PICK a \in Seq(LogChars), c \in Seq(LogChars) : a = <<"[">> /\ c = <<"]">>
  BY <1>3
<1>5. Stamp = (a \o s) \o c
  BY <1>1, <1>4 DEF Stamp, s
<1>6. PICK m \in Seq(LogChars) : m = a \o s
  <2>1. a \o s \in Seq(LogChars)
    BY <1>2, ConcatProperties
  <2> QED
    BY <2>1
<1>7. Len(m) = L + 1 /\ m[1] = "[" /\ \A i \in 1..L : m[i + 1] = "9"
  BY <1>1, <1>2, <1>3, <1>4, <1>6
<1>8. Len(m \o c) = L + 2 /\ (m \o c)[L + 2] = "]" /\ \A i \in 1..(L + 1) : (m \o c)[i] = m[i]
  BY <1>1, <1>3, <1>4, <1>7
<1>9. ASSUME NEW k \in 0..(L + 1)
      PROVE  Stamp[k + 1] = IF k = 0 THEN "[" ELSE IF k = L + 1 THEN "]" ELSE "9"
  <2>1. CASE k = 0
    BY <1>5, <1>6, <1>7, <1>8, <2>1
  <2>2. CASE k = L + 1
    BY <1>5, <1>6, <1>8, <2>2
  <2>3. CASE k # 0 /\ k # L + 1
    <3>1. k \in 1..L /\ k + 1 \in 1..(L + 1)
      BY <2>3
    <3>2. (m \o c)[k + 1] = m[k + 1] /\ m[k + 1] = "9"
      BY <1>7, <1>8, <3>1
    <3> QED
      BY <1>5, <1>6, <2>3, <3>2
  <2> QED
    BY <2>1, <2>2, <2>3
<1> QED
  BY <1>1, <1>5, <1>6, <1>8, <1>9

\* Text that loses its oldest byte is still text.
LEMMA TextDrops ==
    ASSUME NEW n \in Nat \ {0}, NEW d \in Nat, NEW t, NEW u,
           TextFits(t, n), MessageFits(t, n, d),
           \A o \in 0..(n - 2) : u[o] = t[o + 1]
    PROVE  TextFits(u, n - 1) /\ MessageFits(u, n - 1, d)
<1>1. PICK L \in Nat : L = StampLength
  BY LogNumbers
<1>2. TextFits(u, n - 1)
  <2>1. ASSUME NEW o \in 0..(n - 2), NEW p \in 0..(n - 2)
        PROVE  /\ u[o] = "[" /\ o < p /\ p <= o + L => u[p] = "9"
               /\ u[o] = "[" /\ p = o + L + 1 => u[p] = "]"
               /\ u[p] = "]" /\ p <= o + L /\ o < p => u[o] = "9"
               /\ u[p] = "]" /\ p = o + L + 1 => u[o] = "["
               /\ u[o] = "]" /\ p = o + 1 => u[p] \in {"t", "\n"}
    <3>1. PICK i \in 0..(n - 1), j \in 0..(n - 1) : i = o + 1 /\ j = p + 1
      <4>1. o + 1 \in 0..(n - 1) /\ p + 1 \in 0..(n - 1)
        OBVIOUS
      <4> QED
        BY <4>1
    <3>2. u[o] = t[i] /\ u[p] = t[j]
      BY <3>1
    <3>3. /\ t[i] = "[" /\ i < j /\ j <= i + L => t[j] = "9"
          /\ t[i] = "[" /\ j = i + L + 1 => t[j] = "]"
          /\ t[j] = "]" /\ j <= i + L /\ i < j => t[i] = "9"
          /\ t[j] = "]" /\ j = i + L + 1 => t[i] = "["
          /\ t[i] = "]" /\ j = i + 1 => t[j] \in {"t", "\n"}
      BY <1>1 DEF TextFits
    <3> QED
      BY <3>1, <3>2, <3>3
  <2>2. n - 1 - 1 = n - 2
    OBVIOUS
  <2> QED
    BY <1>1, <2>1, <2>2 DEF TextFits
<1>3. MessageFits(u, n - 1, d)
  <2>1. ASSUME NEW o \in 0..(n - 2)
        PROVE  /\ d <= L + 1 /\ o = n - 1 - d => u[o] = "["
               /\ d <= L + 1 /\ o > n - 1 - d => u[o] = "9"
               /\ u[o] = "[" /\ n - 1 - o <= L + 1 => d = n - 1 - o
               /\ u[o] = "]" /\ o = n - 1 - 1 => d = L + 2
    <3>1. PICK i \in 0..(n - 1) : i = o + 1
      <4>1. o + 1 \in 0..(n - 1)
        OBVIOUS
      <4> QED
        BY <4>1
    <3>2. u[o] = t[i]
      BY <3>1
    <3>3. /\ d <= L + 1 /\ i = n - d => t[i] = "["
          /\ d <= L + 1 /\ i > n - d => t[i] = "9"
          /\ t[i] = "[" /\ n - i <= L + 1 => d = n - i
          /\ t[i] = "]" /\ i = n - 1 => d = L + 2
      BY <1>1 DEF MessageFits
    <3> QED
      BY <3>1, <3>2, <3>3
  <2>2. n - 1 - 1 = n - 2
    OBVIOUS
  <2> QED
    BY <1>1, <2>1, <2>2 DEF MessageFits
<1> QED
  BY <1>2, <1>3

\* Text with the next byte of a line is still text.
LEMMA TextGrows ==
    ASSUME NEW n \in Nat, NEW d \in 0..(StampLength + 2), NEW t, NEW u, NEW c,
           TextFits(t, n), MessageFits(t, n, d), LineByte(d, c),
           \A o \in 0..(n - 1) : u[o] = t[o], u[n] = c
    PROVE  TextFits(u, n + 1) /\ MessageFits(u, n + 1, d + 1)
<1>1. PICK L \in Nat : L = StampLength /\ d \in 0..(L + 2) /\ L > 0
  BY LogNumbers
<1>2. /\ d = 0 => c = "["
      /\ 0 < d /\ d <= L => c = "9"
      /\ d = L + 1 => c = "]"
      /\ d = L + 2 => c \in {"t", "\n"}
  BY <1>1 DEF LineByte
<1>3. ASSUME NEW o \in 0..(n - 1)
      PROVE  /\ u[o] = t[o]
             /\ d <= L + 1 /\ o = n - d => u[o] = "["
             /\ d <= L + 1 /\ o > n - d => u[o] = "9"
             /\ u[o] = "[" /\ n - o <= L + 1 => d = n - o
             /\ u[o] = "]" /\ o = n - 1 => d = L + 2
  <2>1. u[o] = t[o]
    OBVIOUS
  <2>2. /\ d <= L + 1 /\ o = n - d => t[o] = "["
        /\ d <= L + 1 /\ o > n - d => t[o] = "9"
        /\ t[o] = "[" /\ n - o <= L + 1 => d = n - o
        /\ t[o] = "]" /\ o = n - 1 => d = L + 2
    BY <1>1 DEF MessageFits
  <2> QED
    BY <2>1, <2>2
<1>4. TextFits(u, n + 1)
  <2>1. ASSUME NEW o \in 0..n, NEW p \in 0..n
        PROVE  /\ u[o] = "[" /\ o < p /\ p <= o + L => u[p] = "9"
               /\ u[o] = "[" /\ p = o + L + 1 => u[p] = "]"
               /\ u[p] = "]" /\ p <= o + L /\ o < p => u[o] = "9"
               /\ u[p] = "]" /\ p = o + L + 1 => u[o] = "["
               /\ u[o] = "]" /\ p = o + 1 => u[p] \in {"t", "\n"}
    <3>1. CASE p = n /\ o # n
      <4>1. u[p] = c /\ o \in 0..(n - 1)
        BY <3>1
      <4> QED
        BY <1>1, <1>2, <1>3, <3>1, <4>1
    <3>2. CASE o = n
      BY <1>1, <3>2
    <3>3. CASE o # n /\ p # n
      <4>1. o \in 0..(n - 1) /\ p \in 0..(n - 1)
        BY <3>3
      <4>2. u[o] = t[o] /\ u[p] = t[p]
        BY <4>1
      <4>3. /\ t[o] = "[" /\ o < p /\ p <= o + L => t[p] = "9"
            /\ t[o] = "[" /\ p = o + L + 1 => t[p] = "]"
            /\ t[p] = "]" /\ p <= o + L /\ o < p => t[o] = "9"
            /\ t[p] = "]" /\ p = o + L + 1 => t[o] = "["
            /\ t[o] = "]" /\ p = o + 1 => t[p] \in {"t", "\n"}
        BY <1>1, <4>1 DEF TextFits
      <4> QED
        BY <4>2, <4>3
    <3> QED
      BY <3>1, <3>2, <3>3
  <2>2. n + 1 - 1 = n
    OBVIOUS
  <2> QED
    BY <1>1, <2>1, <2>2 DEF TextFits
<1>5. MessageFits(u, n + 1, d + 1)
  <2>1. ASSUME NEW o \in 0..n
        PROVE  /\ d + 1 <= L + 1 /\ o = n + 1 - (d + 1) => u[o] = "["
               /\ d + 1 <= L + 1 /\ o > n + 1 - (d + 1) => u[o] = "9"
               /\ u[o] = "[" /\ n + 1 - o <= L + 1 => d + 1 = n + 1 - o
               /\ u[o] = "]" /\ o = n + 1 - 1 => d + 1 = L + 2
    <3>1. CASE o = n
      <4>1. u[o] = c
        BY <3>1
      <4> QED
        BY <1>1, <1>2, <3>1, <4>1
    <3>2. CASE o # n
      <4>1. o \in 0..(n - 1)
        BY <3>2
      <4> QED
        BY <1>1, <1>3, <3>2, <4>1
    <3> QED
      BY <3>1, <3>2
  <2>2. n + 1 - 1 = n
    OBVIOUS
  <2> QED
    BY <1>1, <2>1, <2>2 DEF MessageFits
<1> QED
  BY <1>4, <1>5

\* The text is what the log holds.
LEMMA TextChars ==
    ASSUME LogBufInd
    PROVE  /\ \A o \in LogCells : LogText[o] \in LogChars /\ LogText[o] = log_buf[TextCell(o)]
           /\ \A i \in LogCells : LogCell(i) = log_buf[i] /\ log_buf[i] = LogText[TextOffset(i)]
<1>0. log_wp \in LogCells /\ log_buf \in [LogCells -> LogChars]
  BY DEF LogBufInd
<1>1. ASSUME NEW i \in LogCells
      PROVE  LogCell(i) = log_buf[i] /\ log_buf[i] \in LogChars
  BY <1>0 DEF LogCell
<1>2. ASSUME NEW o \in LogCells
      PROVE  LogText[o] \in LogChars /\ LogText[o] = log_buf[TextCell(o)]
  <2>1. TextCell(o) \in LogCells
    BY <1>0, TextNumbers
  <2>2. LogText[o] = LogCell(TextCell(o))
    BY DEF LogText
  <2> QED
    BY <1>1, <2>1, <2>2
<1>3. ASSUME NEW i \in LogCells
      PROVE  log_buf[i] = LogText[TextOffset(i)]
  <2>1. TextOffset(i) \in LogCells /\ TextCell(TextOffset(i)) = i
    BY <1>0, TextNumbers
  <2> QED
    BY <1>2, <2>1
<1> QED
  BY <1>1, <1>2, <1>3

\* A byte is written behind the text; when the log is full, the oldest one is lost.
LEMMA PutcText ==
    ASSUME LogBufInd, LogPutc
    PROVE  /\ \/ /\ TextLength' = TextLength + 1 /\ TextLength < LogSize
                 /\ \A o \in 0..(TextLength - 1) : LogText'[o] = LogText[o]
              \/ /\ TextLength' = TextLength /\ TextLength = LogSize
                 /\ \A o \in 0..(TextLength - 2) : LogText'[o] = LogText[o + 1]
           /\ LogText'[TextLength' - 1] = Head(log_message)
           /\ ~ flg_buff_full' => ~ flg_buff_full /\ log_wp' = log_wp + 1
<1>0. /\ log_wp \in LogCells /\ log_buf \in [LogCells -> LogChars] /\ LogBufInd'
  BY LogPutcKeeps DEF LogBufInd
<1>1. log_wp' \in LogCells
  BY <1>0 DEF LogBufInd
<1>2. PICK N \in Nat, w \in Nat, v \in Nat, c \in {Head(log_message)} :
         /\ N = LogSize /\ w = log_wp /\ v = log_wp' /\ c = Head(log_message)
         /\ N > 1 /\ w < N /\ v < N /\ LogCells = 0..(N - 1)
  BY <1>0, <1>1, LogNumbers
<1>3. /\ v = IF w + 1 >= N THEN 0 ELSE w + 1
      /\ log_buf' = [log_buf EXCEPT ![w] = c]
  BY <1>2 DEF LogPutc, IsLast
<1>4. flg_buff_full' = (flg_buff_full \/ w + 1 >= N)
  BY <1>2 DEF LogPutc, IsLast
<1>5. \A i \in LogCells : log_buf'[i] = IF i = w THEN c ELSE log_buf[i]
  BY <1>0, <1>3
<1>6. /\ \A o \in LogCells : LogText[o] = log_buf[TextCell(o)]
      /\ \A o \in LogCells : LogText'[o] = log_buf'[TextCell(o)']
  <2>1. ASSUME NEW o \in LogCells
        PROVE  LogText[o] = log_buf[TextCell(o)]
    BY TextChars
  <2>2. ASSUME NEW o \in LogCells
        PROVE  LogText'[o] = log_buf'[TextCell(o)']
    <3>1. TextCell(o)' \in LogCells
      <4>1. OldestByte' \in 0..(N - 1)
        BY <1>2 DEF OldestByte
      <4>2. TextCell(o)' = IF OldestByte' + o < N THEN OldestByte' + o ELSE OldestByte' + o - N
        BY <1>2 DEF TextCell
      <4>3. PICK b \in 0..(N - 1), d \in 0..(N - 1) : b = OldestByte' /\ d = o
        BY <1>2, <4>1
      <4>4. (IF b + d < N THEN b + d ELSE b + d - N) \in 0..(N - 1)
        OBVIOUS
      <4> QED
        BY <1>2, <4>2, <4>3, <4>4
    <3>2. LogText'[o] = (IF TextCell(o)' \in LogCells THEN log_buf'[TextCell(o)'] ELSE "")
      BY DEF LogText, LogCell
    <3> QED
      BY <3>1, <3>2
  <2> QED
    BY <2>1, <2>2
<1>7. CASE ~ flg_buff_full /\ w + 1 < N
  <2>0. v = w + 1 /\ ~ w + 1 >= N
    BY <1>2, <1>3, <1>7
  <2>1. ~ flg_buff_full' /\ v = w + 1
    BY <1>4, <1>7, <2>0
  <2>2. TextLength = w /\ TextLength' = w + 1 /\ OldestByte = 0 /\ OldestByte' = 0
    BY <1>2, <1>7, <2>1 DEF TextLength, OldestByte
  <2>3. ASSUME NEW o \in 0..w
        PROVE  o \in LogCells /\ TextCell(o) = o /\ TextCell(o)' = o
    BY <1>2, <1>7, <2>2 DEF TextCell
  <2>4. \A o \in 0..(w - 1) : LogText'[o] = LogText[o]
    <3>1. ASSUME NEW o \in 0..(w - 1)
          PROVE  LogText'[o] = LogText[o]
      <4>1. o \in 0..w /\ o # w
        BY <1>2
      <4>2. o \in LogCells /\ TextCell(o) = o /\ TextCell(o)' = o
        BY <2>3, <4>1
      <4> QED
        BY <1>5, <1>6, <4>1, <4>2
    <3> QED
      BY <3>1
  <2>5. LogText'[w] = c
    <3>1. w \in 0..w
      BY <1>2
    <3> QED
      BY <1>5, <1>6, <2>3, <3>1
  <2>6. w + 1 - 1 = w
    BY <1>2
  <2> QED
    BY <1>2, <1>7, <2>1, <2>2, <2>4, <2>5, <2>6
<1>8. CASE ~ flg_buff_full /\ ~ w + 1 < N
  <2>0. v = 0 /\ w = N - 1 /\ w + 1 >= N
    BY <1>2, <1>3, <1>8
  <2>1. flg_buff_full' /\ v = 0 /\ w = N - 1
    BY <1>4, <2>0
  <2>2. TextLength = w /\ TextLength' = N /\ OldestByte = 0 /\ OldestByte' = 0
    BY <1>2, <1>8, <2>1 DEF TextLength, OldestByte
  <2>3. ASSUME NEW o \in 0..w
        PROVE  o \in LogCells /\ TextCell(o) = o /\ TextCell(o)' = o
    BY <1>2, <1>8, <2>1, <2>2 DEF TextCell
  <2>4. \A o \in 0..(w - 1) : LogText'[o] = LogText[o]
    <3>1. ASSUME NEW o \in 0..(w - 1)
          PROVE  LogText'[o] = LogText[o]
      <4>1. o \in 0..w /\ o # w
        BY <1>2
      <4>2. o \in LogCells /\ TextCell(o) = o /\ TextCell(o)' = o
        BY <2>3, <4>1
      <4> QED
        BY <1>5, <1>6, <4>1, <4>2
    <3> QED
      BY <3>1
  <2>5. LogText'[w] = c
    <3>1. w \in 0..w
      BY <1>2
    <3> QED
      BY <1>5, <1>6, <2>3, <3>1
  <2>6. N = w + 1 /\ N - 1 = w /\ w < N
    BY <1>2, <2>1
  <2> QED
    BY <1>2, <2>1, <2>2, <2>4, <2>5, <2>6
<1>9. CASE flg_buff_full
  <2>1. flg_buff_full'
    BY <1>4, <1>9
  <2>2. TextLength = N /\ TextLength' = N /\ OldestByte = w /\ OldestByte' = v
    BY <1>2, <1>9, <2>1 DEF TextLength, OldestByte
  <2>3. ASSUME NEW o \in 0..(N - 1)
        PROVE  /\ o \in LogCells
               /\ TextCell(o) = IF w + o < N THEN w + o ELSE w + o - N
               /\ TextCell(o)' = IF v + o < N THEN v + o ELSE v + o - N
    BY <1>2, <2>2 DEF TextCell
  <2>4. ASSUME NEW o \in 0..(N - 2)
        PROVE  LogText'[o] = LogText[o + 1]
    <3>1. PICK p \in 0..(N - 1) : p = o + 1 /\ o \in 0..(N - 1) /\ p > 0
      BY <1>2
    <3>2. /\ o \in LogCells /\ p \in LogCells
          /\ TextCell(p) = IF w + p < N THEN w + p ELSE w + p - N
          /\ TextCell(o)' = IF v + o < N THEN v + o ELSE v + o - N
      BY <2>3, <3>1
    <3>3. TextCell(o)' = TextCell(p) /\ TextCell(p) # w /\ TextCell(p) \in LogCells
      <4>1. CASE w + 1 >= N
        BY <1>2, <1>3, <3>1, <3>2, <4>1
      <4>2. CASE ~ w + 1 >= N
        BY <1>2, <1>3, <3>1, <3>2, <4>2
      <4> QED
        BY <4>1, <4>2
    <3> QED
      BY <1>5, <1>6, <3>1, <3>2, <3>3
  <2>5. LogText'[N - 1] = c
    <3>1. PICK p \in 0..(N - 1) : p = N - 1
      BY <1>2
    <3>2. p \in LogCells /\ TextCell(p)' = IF v + p < N THEN v + p ELSE v + p - N
      BY <2>3
    <3>3. TextCell(p)' = w /\ w \in LogCells
      <4>1. CASE w + 1 >= N
        BY <1>2, <1>3, <3>1, <3>2, <4>1
      <4>2. CASE ~ w + 1 >= N
        BY <1>2, <1>3, <3>1, <3>2, <4>2
      <4> QED
        BY <4>1, <4>2
    <3> QED
      BY <1>5, <1>6, <3>1, <3>2, <3>3
  <2> QED
    BY <1>2, <2>1, <2>2, <2>4, <2>5
<1> QED
  BY <1>7, <1>8, <1>9

\* A message that is to be written begins where the text has come to.
LEMMA MessageBytes ==
    ASSUME LogBufInd, LinesFit, log_message # <<>>
    PROVE  /\ Len(log_message) \in 1..(StampLength + 3) /\ Written \in 0..(StampLength + 2)
           /\ LineByte(Written, Head(log_message))
           /\ Len(Tail(log_message)) = Len(log_message) - 1
           /\ \A i \in 1..(Len(log_message) - 1) :
                LineByte(Written + i, Tail(log_message)[i])
<1>1. PICK m \in Nat, L \in Nat : m = Len(log_message) /\ L = StampLength
  BY LogNumbers, LenProperties DEF LogBufInd
<1>2. log_message \in Seq(LogChars)
  BY DEF LogBufInd
<1>3. /\ m >= 1 /\ Head(log_message) = log_message[1]
      /\ Len(Tail(log_message)) = m - 1
      /\ \A i \in 1..(m - 1) : Tail(log_message)[i] = log_message[i + 1]
  <2>1. m # 0
    BY <1>1, <1>2, EmptySeq
  <2> QED
    BY <1>1, <1>2, <2>1, HeadTailProperties
<1>4. m <= L + 3
  BY <1>1 DEF LinesFit
<1>5. PICK d \in 0..(L + 2) : d = Written
  <2>1. Written = L + 3 - m
    BY <1>1 DEF Written
  <2>2. L + 3 - m \in 0..(L + 2)
    BY <1>1, <1>3, <1>4
  <2> QED
    BY <2>1, <2>2
<1>6. \A i \in 1..m : LineByte(d + i - 1, log_message[i])
  BY <1>1, <1>5 DEF LinesFit
<1>7. LineByte(d, log_message[1])
  <2>1. 1 \in 1..m /\ d + 1 - 1 = d
    BY <1>3, <1>1
  <2> QED
    BY <1>6, <2>1
<1>8. ASSUME NEW i \in 1..(m - 1)
      PROVE  LineByte(d + i, Tail(log_message)[i])
  <2>1. i + 1 \in 1..m /\ d + (i + 1) - 1 = d + i
    BY <1>1
  <2>2. LineByte(d + (i + 1) - 1, log_message[i + 1])
    BY <1>6, <2>1
  <2> QED
    BY <1>3, <2>1, <2>2
<1> QED
  BY <1>1, <1>3, <1>4, <1>5, <1>7, <1>8

\* Writing a byte keeps the lines whole.
LEMMA PutcKeepsLines ==
    ASSUME LogBufInd, LinesFit, LogPutc
    PROVE  LinesFit'
<1>1. PICK d \in 0..(StampLength + 2), c \in {Head(log_message)}, n \in Nat, k \in Nat, L \in Nat :
        /\ d = Written /\ c = Head(log_message) /\ n = TextLength /\ k = TextLength'
        /\ L = StampLength
  <2>1. TextLength \in Nat /\ TextLength' \in Nat
    <3>1. TextLength \in Nat
      BY LogNumbers DEF LogBufInd, TextLength
    <3>2. TextLength' = TextLength + 1 \/ TextLength' = TextLength
      BY PutcText
    <3> QED
      BY <3>1, <3>2
  <2>2. log_message # <<>>
    BY DEF LogPutc
  <2> QED
    BY <2>1, <2>2, MessageBytes, LogNumbers
<1>2. /\ LineByte(d, c) /\ Len(log_message) \in 1..(L + 3)
      /\ Len(Tail(log_message)) = Len(log_message) - 1
      /\ \A i \in 1..(Len(log_message) - 1) : LineByte(d + i, Tail(log_message)[i])
  <2>1. log_message # <<>>
    BY DEF LogPutc
  <2> QED
    BY <1>1, <2>1, MessageBytes
<1>3. log_message' = Tail(log_message)
  BY DEF LogPutc
<1>4. PICK m \in 1..(L + 3) : m = Len(log_message) /\ d = L + 3 - m
  BY <1>1, <1>2 DEF Written
<1>5. Len(log_message') = m - 1 /\ Written' = d + 1
  <2>1. Len(log_message') = m - 1
    BY <1>2, <1>3, <1>4
  <2>2. Written' = L + 3 - (m - 1)
    BY <1>1, <2>1 DEF Written
  <2> QED
    BY <1>4, <2>1, <2>2
<1>6. \A i \in 1..Len(log_message') : LineByte(Written' + i - 1, log_message'[i])
  <2>1. ASSUME NEW i \in 1..(m - 1)
        PROVE  LineByte(Written' + i - 1, log_message'[i])
    <3>1. Written' + i - 1 = d + i
      BY <1>5
    <3>2. LineByte(d + i, Tail(log_message)[i])
      BY <1>2, <1>4
    <3> QED
      BY <1>3, <3>1, <3>2
  <2> QED
    BY <1>5, <2>1
<1>7. TextFits(LogText', k) /\ MessageFits(LogText', k, d + 1)
  <2>1. PICK t, u : t = LogText /\ u = LogText'
    OBVIOUS
  <2>2. TextFits(t, n) /\ MessageFits(t, n, d) /\ u[k - 1] = c
    BY <1>1, <2>1, PutcText DEF LinesFit
  <2>3. CASE k = n + 1 /\ \A o \in 0..(n - 1) : u[o] = t[o]
    <3>1. u[n] = c
      BY <2>2, <2>3
    <3>2. TextFits(u, n + 1) /\ MessageFits(u, n + 1, d + 1)
      BY <1>2, <2>2, <2>3, <3>1, TextGrows
    <3> QED
      BY <2>1, <2>3, <3>2
  <2>4. CASE k = n /\ n > 0 /\ \A o \in 0..(n - 2) : u[o] = t[o + 1]
    <3>1. PICK j \in Nat : j = n - 1 /\ n = j + 1
      BY <2>4
    <3>2. TextFits(u, j) /\ MessageFits(u, j, d)
      BY <1>1, <2>2, <2>4, <3>1, TextDrops, SMTT(30)
    <3>3. u[j] = c
      BY <2>2, <2>4, <3>1
    <3>4. TextFits(u, j + 1) /\ MessageFits(u, j + 1, d + 1)
      BY <1>2, <3>2, <3>3, TextGrows
    <3> QED
      BY <2>1, <2>4, <3>1, <3>4
  <2>5. n = LogSize => n > 0
    BY LogNumbers
  <2> QED
    BY <1>1, <2>1, <2>3, <2>4, <2>5, PutcText
<1>8. meanwhile' \in Nat
  <2>1. meanwhile' = 0 \/ meanwhile' = meanwhile + 1 \/ meanwhile' = meanwhile
    BY DEF LogPutc
  <2>2. meanwhile \in Nat
    BY DEF LinesFit
  <2> QED
    BY <2>1, <2>2
<1>9. ASSUME ~ flg_buff_full', NEW i \in LogCells, log_wp' <= i
      PROVE  log_buf'[i] = ""
  <2>1. ~ flg_buff_full /\ log_wp' = log_wp + 1
    BY <1>9, PutcText
  <2>2. i \in Int /\ log_wp \in Int /\ log_wp <= i /\ i # log_wp
    BY <1>9, <2>1, LogNumbers DEF LogBufInd
  <2>3. log_buf[i] = ""
    BY <2>1, <2>2 DEF LinesFit
  <2>4. log_buf'[i] = log_buf[i]
    BY <2>2 DEF LogPutc, LogBufInd
  <2> QED
    BY <2>3, <2>4
<1>10. Len(log_message') <= L + 3
  BY <1>4, <1>5
<1> QED
  BY <1>1, <1>5, <1>6, <1>7, <1>8, <1>9, <1>10 DEF LinesFit

\* What a line is made of.
LEMMA StampedLine ==
    ASSUME NEW text \in {<<"t">>, <<"\n">>}
    PROVE  /\ Len(Stamp \o text) = StampLength + 3
           /\ \A i \in 1..(StampLength + 3) : LineByte(i - 1, (Stamp \o text)[i])
<1>1. PICK L \in Nat, s \in Seq(LogChars), e \in Seq(LogChars) : L = StampLength /\ s = Stamp /\ e = text
  BY StampChars, LogNumbers
<1>2. /\ Len(s) = L + 2
      /\ \A k \in 0..(L + 1) : s[k + 1] = IF k = 0 THEN "[" ELSE IF k = L + 1 THEN "]" ELSE "9"
  BY <1>1, StampBytes
<1>3. Len(e) = 1 /\ e[1] \in {"t", "\n"}
  BY <1>1
<1>4. /\ Len(s \o e) = L + 3 /\ (s \o e)[L + 3] = e[1]
      /\ \A i \in 1..(L + 2) : (s \o e)[i] = s[i]
  BY <1>2, <1>3, ConcatProperties
<1>5. ASSUME NEW i \in 1..(L + 3)
      PROVE  LineByte(i - 1, (s \o e)[i])
  <2>1. CASE i = L + 3
    <3>1. i - 1 = L + 2
      BY <1>1, <2>1
    <3> QED
      BY <1>1, <1>3, <1>4, <2>1, <3>1 DEF LineByte
  <2>2. CASE i # L + 3
    <3>1. PICK k \in 0..(L + 1) : k = i - 1 /\ i = k + 1 /\ i \in 1..(L + 2)
      <4>1. i - 1 \in 0..(L + 1)
        BY <1>1, <2>2
      <4> QED
        BY <1>1, <2>2, <4>1
    <3>2. (s \o e)[i] = IF k = 0 THEN "[" ELSE IF k = L + 1 THEN "]" ELSE "9"
      BY <1>2, <1>4, <3>1
    <3> QED
      BY <1>1, <3>1, <3>2 DEF LineByte
  <2> QED
    BY <2>1, <2>2
<1> QED
  BY <1>1, <1>4, <1>5

\* A message is begun when the one before is written.
LEMMA GslogKeepsLines ==
    ASSUME LogBufInd, LinesFit, Gslog
    PROVE  LinesFit'
<1>1. PICK L \in Nat \ {0}, n \in Nat, t \in {LogText} :
        L = StampLength /\ n = TextLength /\ t = LogText
  BY LogNumbers DEF LogBufInd, TextLength
<1>2. log_message = <<>> /\ UNCHANGED <<log_buf, log_wp, flg_buff_full, meanwhile>>
  BY DEF Gslog
<1>3. TextLength' = n /\ LogText' = t
  BY <1>1, <1>2 DEF TextLength, LogText, TextCell, OldestByte, LogCell
<1>4. Len(log_message) = 0 /\ Written = L + 3
  BY <1>1, <1>2 DEF Written
<1>5. TextFits(t, n) /\ MessageFits(t, n, L + 3)
  BY <1>1, <1>4 DEF LinesFit
<1>6. ASSUME NEW d \in {0, L + 2, L + 3}
      PROVE  MessageFits(t, n, d)
  <2>1. ASSUME NEW o \in 0..(n - 1)
        PROVE  /\ d <= L + 1 /\ o = n - d => t[o] = "["
               /\ d <= L + 1 /\ o > n - d => t[o] = "9"
               /\ t[o] = "[" /\ n - o <= L + 1 => d = n - o
               /\ t[o] = "]" /\ o = n - 1 => d = L + 2
    <3>1. /\ t[o] = "[" /\ n - o <= L + 1 => L + 3 = n - o
          /\ t[o] = "]" /\ o = n - 1 => L + 3 = L + 2
      BY <1>1, <1>5 DEF MessageFits
    <3> QED
      BY <1>1, <3>1
  <2> QED
    BY <1>1, <2>1 DEF MessageFits
<1>7. PICK text \in {<<"t">>, <<"\n">>}, recorded \in BOOLEAN :
         log_message' = IF ~ recorded THEN <<>> ELSE IF flg_log_cr THEN Stamp \o text ELSE text
  BY DEF Gslog
<1>8. CASE log_message' = <<>>
  <2>1. Len(log_message') = 0 /\ Written' = L + 3
    BY <1>1, <1>8 DEF Written
  <2>2. \A i \in 1..Len(log_message') : LineByte(Written' + i - 1, log_message'[i])
    BY <2>1
  <2>3. Len(log_message') <= StampLength + 3
    BY <1>1, <2>1
  <2> QED
    BY <1>1, <1>2, <1>3, <1>5, <2>1, <2>2, <2>3 DEF LinesFit
<1>9. CASE log_message' = Stamp \o text
  <2>1. Len(log_message') = L + 3 /\ Written' = 0
    <3>1. Len(log_message') = L + 3
      BY <1>1, <1>9, StampedLine
    <3>2. Written' = L + 3 - (L + 3)
      BY <1>1, <3>1 DEF Written
    <3> QED
      BY <3>1, <3>2
  <2>2. \A i \in 1..Len(log_message') : LineByte(Written' + i - 1, log_message'[i])
    <3>1. ASSUME NEW i \in 1..(L + 3)
          PROVE  LineByte(Written' + i - 1, log_message'[i])
      <4>1. Written' + i - 1 = i - 1
        BY <2>1
      <4> QED
        BY <1>1, <1>9, <4>1, StampedLine
    <3> QED
      BY <2>1, <3>1
  <2>3. Len(log_message') <= StampLength + 3
    BY <1>1, <2>1
  <2> QED
    BY <1>1, <1>2, <1>3, <1>5, <1>6, <2>1, <2>2, <2>3 DEF LinesFit
<1>10. CASE log_message' = text
  <2>1. Len(log_message') = 1 /\ Written' = L + 2 /\ log_message'[1] \in {"t", "\n"}
    <3>1. Len(log_message') = 1 /\ log_message'[1] \in {"t", "\n"}
      BY <1>10
    <3>2. Written' = L + 3 - 1
      BY <1>1, <3>1 DEF Written
    <3> QED
      BY <3>1, <3>2
  <2>2. \A i \in 1..Len(log_message') : LineByte(Written' + i - 1, log_message'[i])
    <3>1. ASSUME NEW i \in 1..1
          PROVE  LineByte(Written' + i - 1, log_message'[i])
      <4>1. i = 1 /\ Written' + i - 1 = L + 2
        BY <2>1
      <4>2. LineByte(L + 2, log_message'[1])
        BY <1>1, <2>1 DEF LineByte
      <4> QED
        BY <4>1, <4>2
    <3> QED
      BY <2>1, <3>1
  <2>3. Len(log_message') <= StampLength + 3
    BY <1>1, <2>1
  <2> QED
    BY <1>1, <1>2, <1>3, <1>5, <1>6, <2>1, <2>2, <2>3 DEF LinesFit
<1> QED
  BY <1>7, <1>8, <1>9, <1>10

\* The distance from the oldest byte is the offset.
LEMMA OffsetIsDistance ==
    ASSUME log_wp \in LogCells, NEW i \in LogCells
    PROVE  LogDistance(OldestByte, i) = TextOffset(i)
<1>1. OldestByte \in LogCells
  BY TextNumbers
<1>2. LogDistance(OldestByte, i) = IF OldestByte <= i THEN i - OldestByte ELSE i - OldestByte + LogSize
  BY <1>1, RingNumbers
<1> QED
  BY <1>2 DEF TextOffset

\* A stamp is where a "[" has a whole stamp of text before it.
LEMMA StampsAre ==
    ASSUME LogBufInd, LinesFit, NEW i \in LogCells
    PROVE  i \in Stamps <=>
              /\ TextOffset(i) + StampLength + 1 < TextLength
              /\ LogText[TextOffset(i)] = "["
              /\ search.kind = "head" =>
                   /\ \/ TextOffset(i) + StampLength + 1 < TextOffset(LogSize - 1)
                      \/ TextOffset(LogSize - 1) < TextOffset(i)
                   /\ TextOffset(i) + StampLength + 1 < LogSize - 1
<1>0. log_wp \in LogCells
  BY DEF LogBufInd
<1>1. PICK N \in Nat, L \in Nat, n \in Nat, b \in Nat, o \in Nat, x \in Nat :
        /\ N = LogSize /\ L = StampLength /\ n = TextLength /\ b = OldestByte /\ o = TextOffset(i)
        /\ x = TextOffset(LogSize - 1)
        /\ LogCells = 0..(N - 1) /\ n <= N /\ b < N /\ o < N /\ x < N /\ L + 2 < N
        /\ TextCell(o) = i
  <2>1. LogSize - 1 \in LogCells
    BY LogNumbers
  <2>2. OldestByte \in LogCells /\ TextLength \in 0..LogSize /\ TextOffset(i) \in LogCells
        /\ TextOffset(LogSize - 1) \in LogCells /\ TextCell(TextOffset(i)) = i
    BY <1>0, <2>1, TextNumbers
  <2>3. PICK N \in Nat, L \in Nat : N = LogSize /\ L = StampLength /\ LogCells = 0..(N - 1) /\ L + 2 < N
    BY LogNumbers
  <2>4. PICK b \in Nat, n \in Nat : b = OldestByte /\ n = TextLength /\ b < N /\ n <= N
    BY <2>2, <2>3
  <2>5. PICK o \in Nat : o = TextOffset(i) /\ o < N
    BY <2>2, <2>3
  <2>6. PICK x \in Nat : x = TextOffset(LogSize - 1) /\ x < N
    BY <2>2, <2>3
  <2> QED
    BY <2>2, <2>3, <2>4, <2>5, <2>6
<1>a. n <= N /\ b < N /\ o < N /\ x < N /\ L + 2 < N
  BY <1>1
<1>2. /\ i = IF b + o < N THEN b + o ELSE b + o - N
      /\ x = N - 1 - b
  <2>1. TextOffset(LogSize - 1) = IF b <= N - 1 THEN N - 1 - b ELSE N - 1 - b + N
    BY <1>1 DEF TextOffset
  <2> QED
    BY <1>1, <2>1 DEF TextCell
<1>3. ASSUME NEW k \in 0..(L + 1), o + k < N
      PROVE  LogCell((i + k) % LogSize) = LogText[o + k]
  <2>1. o + k \in LogCells
    BY <1>1, <1>3
  <2>2. LogText[o + k] = LogCell(TextCell(o + k))
    BY <2>1 DEF LogText
  <2>3. (i + k) % LogSize = IF i + k < N THEN i + k ELSE i + k - N
    BY <1>1, RingNumbers
  <2>4. TextCell(o + k) = IF b + (o + k) < N THEN b + (o + k) ELSE b + (o + k) - N
    BY <1>1 DEF TextCell
  <2>5. (IF i + k < N THEN i + k ELSE i + k - N) = IF b + (o + k) < N THEN b + (o + k) ELSE b + (o + k) - N
    <3>1. CASE b + o < N
      BY <1>a, <1>2, <1>3, <3>1
    <3>2. CASE ~ b + o < N
      BY <1>a, <1>2, <1>3, <3>2
    <3> QED
      BY <3>1, <3>2
  <2> QED
    BY <2>2, <2>3, <2>4, <2>5
<1>4. LogDistance(OldestByte, i) = o
  BY <1>0, <1>1, OffsetIsDistance
<1>5. i \in Stamps <=>
        /\ o + L + 1 < n
        /\ \A k \in 0..(L + 1) : LogCell((i + k) % LogSize) = Stamp[k + 1]
        /\ search.kind = "head" => i + L + 1 < N - 1 /\ o + L + 1 < N - 1
  BY <1>1, <1>4 DEF Stamps
<1>6. o + L + 1 < n => (i + L + 1 < N - 1 <=> o + L + 1 < x \/ x < o)
  <2>1. CASE b + o < N
    BY <1>a, <1>2, <2>1
  <2>2. CASE ~ b + o < N
    BY <1>a, <1>2, <2>2
  <2> QED
    BY <2>1, <2>2
<1>7. o + L + 1 < n => ((\A k \in 0..(L + 1) : LogCell((i + k) % LogSize) = Stamp[k + 1]) <=> LogText[o] = "[")
  <2>1. SUFFICES ASSUME o + L + 1 < n
                 PROVE  (\A k \in 0..(L + 1) : LogCell((i + k) % LogSize) = Stamp[k + 1]) <=> LogText[o] = "["
    OBVIOUS
  <2>2. ASSUME \A k \in 0..(L + 1) : LogCell((i + k) % LogSize) = Stamp[k + 1]
        PROVE  LogText[o] = "["
    <3>1. 0 \in 0..(L + 1) /\ o + 0 = o /\ o + 0 < N /\ 0 + 1 = 1
      BY <1>1
    <3>2. LogCell((i + 0) % LogSize) = Stamp[0 + 1]
      BY <2>2, <3>1
    <3>3. LogCell((i + 0) % LogSize) = LogText[o + 0]
      BY <1>3, <3>1
    <3>4. Stamp[0 + 1] = "["
      BY <1>1, <3>1, StampBytes
    <3> QED
      BY <3>1, <3>2, <3>3, <3>4
  <2>3. ASSUME LogText[o] = "[", NEW k \in 0..(L + 1)
        PROVE  LogCell((i + k) % LogSize) = Stamp[k + 1]
    <3>1. PICK p \in 0..(n - 1) : p = o + k /\ o \in 0..(n - 1) /\ o + k < N
      BY <1>1, <2>1, SMTT(30)
    <3>2. LogCell((i + k) % LogSize) = LogText[p]
      BY <1>3, <3>1
    <3>3. TextFits(LogText, n)
      BY <1>1 DEF LinesFit
    <3>4. LogText[p] = IF k = 0 THEN "[" ELSE IF k = L + 1 THEN "]" ELSE "9"
      <4>1. PICK t : t = LogText
        OBVIOUS
      <4>2. /\ o < p /\ p <= o + L => t[p] = "9"
            /\ p = o + L + 1 => t[p] = "]"
        BY <1>1, <2>3, <3>1, <3>3, <4>1 DEF TextFits
      <4>3. CASE k = 0
        <5>1. p = o
          BY <3>1, <4>3
        <5> QED
          BY <2>3, <4>3, <5>1
      <4>4. CASE k = L + 1
        <5>1. p = o + L + 1 /\ k # 0
          BY <1>1, <3>1, <4>4
        <5> QED
          BY <4>1, <4>2, <4>4, <5>1
      <4>5. CASE k # 0 /\ k # L + 1
        <5>1. o < p /\ p <= o + L
          BY <1>1, <3>1, <4>5
        <5> QED
          BY <4>1, <4>2, <4>5, <5>1
      <4> QED
        BY <4>3, <4>4, <4>5
    <3>5. Stamp[k + 1] = IF k = 0 THEN "[" ELSE IF k = L + 1 THEN "]" ELSE "9"
      BY <1>1, StampBytes
    <3> QED
      BY <3>2, <3>4, <3>5
  <2> QED
    BY <1>1, <2>2, <2>3
<1> QED
  BY <1>1, <1>5, <1>6, <1>7

\* The stamps are some cells of the log.
LEMMA StampsAreFinite ==
    /\ IsFiniteSet(Stamps) /\ Cardinality(Stamps) \in Nat
    /\ \A S \in SUBSET Stamps : IsFiniteSet(S) /\ Cardinality(S) \in Nat
                                /\ Cardinality(S) <= Cardinality(Stamps)
<1>1. IsFiniteSet(LogCells)
  <2>1. 0 \in Int /\ LogSize - 1 \in Int
    BY LogNumbers
  <2> QED
    BY <2>1, FS_Interval DEF LogCells
<1>2. Stamps \subseteq LogCells
  BY DEF Stamps
<1>3. IsFiniteSet(Stamps)
  BY <1>1, <1>2, FS_Subset
<1> QED
  BY <1>3, FS_Subset, FS_CardinalityType

\* One turn from the head: it goes on behind the byte it has read, and it has found
\* a stamp when one ends there that the skipped byte x is no part of.
LEMMA HeadReadsOn ==
    ASSUME NEW n \in Nat, NEW o \in 0..(n - 1), NEW x \in Nat, NEW t, NEW state \in {0, 1},
           NEW tcount \in 0..StampLength, NEW q, NEW s, NEW c,
           o # x, TextFits(t, n), HeadReads(t, o, x, state, tcount),
           q = IF o + 1 = x THEN o + 2 ELSE o + 1,
           s = IF state = 0 THEN IF t[o] = "[" THEN 1 ELSE 0
               ELSE IF tcount < StampLength /\ t[o] = "9" THEN 1 ELSE 0,
           c = IF state = 1 /\ tcount < StampLength /\ t[o] = "9" THEN tcount + 1 ELSE 0
    PROVE  /\ HeadReads(t, q, x, s, c)
           /\ state = 1 /\ tcount = StampLength /\ t[o] = "]" <=>
                /\ o >= StampLength + 1 /\ t[o - (StampLength + 1)] = "["
                /\ o < x \/ x < o - (StampLength + 1)
<1>1. PICK L \in Nat \ {0} : L = StampLength /\ tcount \in 0..L
  BY LogNumbers
<1>2. /\ state = 0 => \A b \in 0..(o - 1) : t[b] = "[" /\ o <= b + L + 1 => b <= x /\ x < o
      /\ state = 1 => \E b \in 0..(o - 1) :
                     /\ t[b] = "["
                     /\ \/ (x < b \/ o <= x) /\ b + tcount + 1 = o
                        \/ /\ b < x /\ x < o /\ b + tcount + 2 = o
                           /\ tcount < L \/ x = o - 1
  BY <1>1 DEF HeadReads
<1>3. \A i, p \in 0..(n - 1) :
        /\ t[i] = "[" /\ i < p /\ p <= i + L => t[p] = "9"
        /\ t[i] = "[" /\ p = i + L + 1 => t[p] = "]"
        /\ t[i] = "]" /\ p = i + 1 => t[p] \in {"t", "\n"}
  BY <1>1 DEF TextFits
<1>4. HeadReads(t, q, x, s, c) <=>
        /\ s = 0 => \A b \in 0..(q - 1) : t[b] = "[" /\ q <= b + L + 1 => b <= x /\ x < q
        /\ s = 1 => \E b \in 0..(q - 1) :
                     /\ t[b] = "["
                     /\ \/ (x < b \/ q <= x) /\ b + c + 1 = q
                        \/ /\ b < x /\ x < q /\ b + c + 2 = q
                           /\ c < L \/ x = q - 1
  BY <1>1 DEF HeadReads
<1>5. q \in Nat /\ o < q /\ q <= o + 2 /\ (q = o + 1 \/ (o + 1 = x /\ q = o + 2))
  OBVIOUS
<1> DEFINE found == state = 1 /\ tcount = L /\ t[o] = "]"
           ended == o >= L + 1 /\ t[o - (L + 1)] = "[" /\ (o < x \/ x < o - (L + 1))
<1>6. CASE state = 0
  <2>1. ~ ended
    <3>1. SUFFICES ASSUME ended PROVE FALSE
      OBVIOUS
    <3>2. PICK b \in 0..(o - 1) : b = o - (L + 1)
      BY <1>1, <3>1
    <3> QED
      BY <1>1, <1>2, <1>6, <3>1, <3>2
  <2>2. CASE t[o] = "["
    <3>1. s = 1 /\ c = 0
      BY <1>6, <2>2
    <3>2. \E b \in 0..(q - 1) :
                     /\ t[b] = "["
                     /\ \/ (x < b \/ q <= x) /\ b + c + 1 = q
                        \/ /\ b < x /\ x < q /\ b + c + 2 = q
                           /\ c < L \/ x = q - 1
      <4>1. o \in 0..(q - 1)
        BY <1>5
      <4>2. \/ (x < o \/ q <= x) /\ o + c + 1 = q
            \/ o < x /\ x < q /\ o + c + 2 = q /\ c < L
        BY <1>1, <1>5, <3>1
      <4> QED
        BY <2>2, <4>1, <4>2
    <3> QED
      BY <1>1, <1>4, <1>6, <2>1, <3>1, <3>2
  <2>3. CASE t[o] # "["
    <3>1. s = 0
      BY <1>6, <2>3
    <3>2. ASSUME NEW b \in 0..(q - 1), t[b] = "[", q <= b + L + 1
          PROVE  b <= x /\ x < q
      <4>1. CASE b \in 0..(o - 1)
        BY <1>1, <1>2, <1>5, <1>6, <3>2, <4>1
      <4>2. CASE b = o
        BY <2>3, <3>2, <4>2
      <4>3. CASE b = o + 1
        BY <1>5, <3>2, <4>3
      <4> QED
        BY <1>5, <4>1, <4>2, <4>3
    <3> QED
      BY <1>1, <1>4, <1>6, <2>1, <3>1, <3>2
  <2> QED
    BY <2>2, <2>3
<1>7. ASSUME state = 1, NEW b \in 0..(o - 1), t[b] = "[", x < b \/ o <= x, b + tcount + 1 = o
      PROVE  HeadReads(t, q, x, s, c) /\ (found <=> ended)
  <2>0. b \in 0..(n - 1)
    OBVIOUS
  <2>1. CASE tcount < L
    <3>1. t[o] = "9"
      BY <1>1, <1>3, <1>7, <2>0, <2>1
    <3>2. s = 1 /\ c = tcount + 1
      BY <1>1, <1>7, <2>1, <3>1
    <3>3. b \in 0..(q - 1)
      BY <1>5
    <3>4. \/ (x < b \/ q <= x) /\ b + c + 1 = q
          \/ b < x /\ x < q /\ b + c + 2 = q /\ (c < L \/ x = q - 1)
      BY <1>1, <1>5, <1>7, <2>1, <3>2
    <3>5. ~ ended
      <4>1. SUFFICES ASSUME ended PROVE FALSE
        OBVIOUS
      <4>2. PICK e \in 0..(n - 1) : e = o - (L + 1) /\ t[e] = "["
        BY <1>1, <4>1
      <4> QED
        BY <1>1, <1>3, <3>1, <4>2
    <3> QED
      BY <1>1, <1>4, <1>7, <2>1, <3>2, <3>3, <3>4, <3>5
  <2>2. CASE tcount = L
    <3>1. t[o] = "]" /\ b = o - (L + 1)
      BY <1>1, <1>3, <1>7, <2>0, <2>2
    <3>2. s = 0
      BY <1>1, <1>7, <2>2
    <3>3. found /\ ended
      BY <1>1, <1>7, <2>2, <3>1
    <3>4. ASSUME NEW e \in 0..(q - 1), t[e] = "[", q <= e + L + 1
          PROVE  e <= x /\ x < q
      <4>1. CASE e <= o
        <5>1. e \in 0..(n - 1) /\ b < e
          BY <1>1, <1>5, <3>1, <3>4, <4>1
        <5> QED
          BY <1>1, <1>3, <1>7, <2>0, <3>1, <3>4, <4>1, <5>1
      <4>2. CASE e = o + 1
        BY <1>5, <3>4, <4>2
      <4> QED
        BY <1>5, <4>1, <4>2
    <3> QED
      BY <1>4, <3>2, <3>3, <3>4
  <2> QED
    BY <1>1, <2>1, <2>2
<1>8. ASSUME state = 1, NEW b \in 0..(o - 1), t[b] = "[", b < x, x < o, b + tcount + 2 = o,
             tcount < L \/ x = o - 1
      PROVE  HeadReads(t, q, x, s, c) /\ (found <=> ended)
  <2>0. b \in 0..(n - 1) /\ x \in 0..(n - 1) /\ q = o + 1
    BY <1>5, <1>8
  <2>1. ~ ended
    <3>1. SUFFICES ASSUME ended PROVE FALSE
      OBVIOUS
    <3>2. PICK e \in 0..(n - 1) : e = o - (L + 1) /\ t[e] = "["
      BY <1>1, <3>1
    <3> QED
      BY <1>1, <1>3, <1>8, <3>1, <3>2
  <2>2. CASE tcount + 1 < L
    <3>1. t[o] = "9"
      BY <1>1, <1>3, <1>8, <2>0, <2>2
    <3>2. s = 1 /\ c = tcount + 1
      BY <1>1, <1>8, <2>2, <3>1
    <3>3. b \in 0..(q - 1) /\ b < x /\ x < q /\ b + c + 2 = q /\ c < L
      BY <1>1, <1>8, <2>0, <2>2, <3>2
    <3> QED
      BY <1>1, <1>4, <1>8, <2>1, <2>2, <3>1, <3>2, <3>3
  <2>3. CASE ~ tcount + 1 < L
    <3>1. t[o] # "[" /\ s = 0 /\ ~ found
      <4>1. CASE tcount + 1 = L
        <5>1. t[o] = "]"
          BY <1>1, <1>3, <1>8, <2>0, <4>1
        <5> QED
          BY <1>1, <1>8, <4>1, <5>1
      <4>2. CASE tcount = L
        <5>1. x = o - 1 /\ x = b + L + 1
          BY <1>1, <1>8, <4>2
        <5>2. t[x] = "]"
          BY <1>1, <1>3, <1>8, <2>0, <5>1
        <5>3. t[o] \in {"t", "\n"}
          BY <1>1, <1>3, <2>0, <5>1, <5>2
        <5> QED
          BY <1>1, <1>8, <4>2, <5>3
      <4> QED
        BY <1>1, <2>3, <4>1, <4>2
    <3>2. ASSUME NEW e \in 0..(q - 1), t[e] = "[", q <= e + L + 1
          PROVE  e <= x /\ x < q
      <4>1. e # o /\ e \in 0..(n - 1) /\ e < o
        BY <2>0, <3>1, <3>2
      <4>2. e <= x
        <5>1. SUFFICES ASSUME x < e PROVE FALSE
          BY <4>1
        <5>2. b < e /\ e <= b + L + 1
          BY <1>1, <1>8, <4>1, <5>1
        <5> QED
          BY <1>1, <1>3, <1>8, <2>0, <3>2, <4>1, <5>2
      <4> QED
        BY <1>8, <2>0, <4>2
    <3> QED
      BY <1>4, <2>1, <3>1, <3>2
  <2> QED
    BY <2>2, <2>3
<1> QED
  BY <1>1, <1>2, <1>6, <1>7, <1>8

\* One turn from the tail: it goes on before the byte it has read, and it has found a
\* stamp when one begins there.
LEMMA TailReadsOn ==
    ASSUME NEW n \in Nat, NEW o \in 1..n, NEW t, NEW state \in {0, 1},
           NEW tcount \in 0..StampLength, NEW s, NEW c,
           o = n => t[o] \notin {"[", "]", "9"}, TextFits(t, n), TailReads(t, n, o, state, tcount),
           s = IF state = 0 THEN IF t[o] = "]" THEN 1 ELSE 0
               ELSE IF tcount < StampLength /\ t[o] = "9" THEN 1 ELSE 0,
           c = IF state = 1 /\ tcount < StampLength /\ t[o] = "9" THEN tcount + 1 ELSE 0
    PROVE  /\ TailReads(t, n, o - 1, s, c)
           /\ state = 1 /\ tcount = StampLength /\ t[o] = "[" <=>
                o + StampLength + 1 < n /\ t[o] = "["
<1>1. PICK L \in Nat \ {0} : L = StampLength /\ tcount \in 0..L
  BY LogNumbers
<1>2. /\ state = 0 => \A e \in (o + 1)..(n - 1) : t[e] = "]" => e > o + L + 1
      /\ state = 1 => o + 1 + tcount < n /\ t[o + 1 + tcount] = "]"
  BY <1>1 DEF TailReads
<1>3. \A i, p \in 0..(n - 1) :
        /\ t[i] = "[" /\ i < p /\ p <= i + L => t[p] = "9"
        /\ t[i] = "[" /\ p = i + L + 1 => t[p] = "]"
        /\ t[p] = "]" /\ p <= i + L /\ i < p => t[i] = "9"
        /\ t[p] = "]" /\ p = i + L + 1 => t[i] = "["
  BY <1>1 DEF TextFits
<1>4. PICK r \in Nat : r = o - 1 /\ o = r + 1
  OBVIOUS
<1>5. TailReads(t, n, o - 1, s, c) <=>
        /\ s = 0 => \A e \in o..(n - 1) : t[e] = "]" => e > o + L
        /\ s = 1 => o + c < n /\ t[o + c] = "]"
  <2>1. r + 1 = o /\ r + StampLength + 1 = o + L
    BY <1>1, <1>4
  <2>2. TailReads(t, n, r, s, c) <=>
        /\ s = 0 => \A e \in (r + 1)..(n - 1) : t[e] = "]" => e > r + StampLength + 1
        /\ s = 1 => r + 1 + c < n /\ t[r + 1 + c] = "]"
    BY DEF TailReads
  <2> QED
    BY <1>4, <2>1, <2>2
<1>6. CASE state = 0
  <2>1. ~ (o + L + 1 < n /\ t[o] = "[")
    <3>1. SUFFICES ASSUME o + L + 1 < n, t[o] = "[" PROVE FALSE
      OBVIOUS
    <3>2. PICK e \in (o + 1)..(n - 1) : e = o + L + 1 /\ o \in 0..(n - 1) /\ e \in 0..(n - 1)
      BY <1>1, <3>1
    <3>3. t[e] = "]"
      BY <1>1, <1>3, <3>1, <3>2
    <3> QED
      BY <1>1, <1>2, <1>6, <3>2, <3>3
  <2>2. CASE t[o] = "]"
    <3>1. s = 1 /\ c = 0 /\ o < n /\ o + c = o
      BY <1>6, <2>2
    <3> QED
      BY <1>1, <1>5, <1>6, <2>1, <2>2, <3>1
  <2>3. CASE t[o] # "]"
    <3>1. s = 0
      BY <1>6, <2>3
    <3>2. ASSUME NEW e \in o..(n - 1), t[e] = "]"
          PROVE  e > o + L
      <4>1. e \in (o + 1)..(n - 1)
        BY <2>3, <3>2
      <4> QED
        BY <1>1, <1>2, <1>6, <3>2, <4>1
    <3> QED
      BY <1>1, <1>5, <1>6, <2>1, <3>1, <3>2
  <2> QED
    BY <2>2, <2>3
<1>7. CASE state = 1
  <2>1. PICK e \in 0..(n - 1) : e = o + 1 + tcount /\ t[e] = "]" /\ o \in 0..(n - 1) /\ o < e
    <3>1. o + 1 + tcount \in 0..(n - 1)
      BY <1>1, <1>2, <1>7
    <3> QED
      BY <1>1, <1>2, <1>7, <3>1
  <2>2. CASE tcount < L
    <3>1. t[o] = "9"
      BY <1>1, <1>3, <2>1, <2>2
    <3>2. s = 1 /\ c = tcount + 1 /\ o + c = e
      BY <1>1, <1>7, <2>1, <2>2, <3>1
    <3> QED
      BY <1>1, <1>5, <1>7, <2>1, <2>2, <3>1, <3>2
  <2>3. CASE tcount = L
    <3>1. t[o] = "[" /\ e = o + L + 1
      BY <1>1, <1>3, <2>1, <2>3
    <3>2. s = 0
      BY <1>1, <1>7, <2>3
    <3>3. ASSUME NEW i \in o..(n - 1), t[i] = "]"
          PROVE  i > o + L
      <4>1. i \in 0..(n - 1) /\ i # o
        BY <3>1, <3>3
      <4> QED
        BY <1>1, <1>3, <2>1, <3>1, <3>3, <4>1
    <3> QED
      BY <1>1, <1>5, <1>7, <2>1, <2>3, <3>1, <3>2, <3>3
  <2> QED
    BY <1>1, <2>2, <2>3
<1> QED
  BY <1>6, <1>7

\* The stamps depend on the log, and on the kind of the search.
LEMMA StampsStay ==
    ASSUME UNCHANGED <<log_buf, log_wp, flg_buff_full>>
    PROVE  /\ UNCHANGED <<OldestByte, TextLength, LogText, SearchStart, SearchEnd>>
           /\ \A i : TextOffset(i)' = TextOffset(i)
           /\ search'.kind = search.kind =>
                /\ Stamps' = Stamps
                /\ \A o : EndedBefore(o)' = EndedBefore(o) /\ BegunBehind(o)' = BegunBehind(o)
                /\ \A i : StampsBefore(i)' = StampsBefore(i)
<1>1. OldestByte' = OldestByte /\ TextLength' = TextLength
  BY DEF OldestByte, TextLength
<1>2. \A i : TextOffset(i)' = TextOffset(i)
  BY <1>1 DEF TextOffset
<1>3. \A i : LogCell(i)' = LogCell(i)
  BY DEF LogCell
<1>4. LogText' = LogText
  BY <1>1, <1>3 DEF LogText, TextCell, LogCell
<1>5. SearchStart' = SearchStart /\ SearchEnd' = SearchEnd
  BY DEF SearchStart, SearchEnd
<1>6. ASSUME search'.kind = search.kind
      PROVE  Stamps' = Stamps
  BY <1>1, <1>3, <1>6 DEF Stamps, LogCell
<1>7. ASSUME search'.kind = search.kind
      PROVE  /\ \A o : EndedBefore(o)' = EndedBefore(o) /\ BegunBehind(o)' = BegunBehind(o)
             /\ \A i : StampsBefore(i)' = StampsBefore(i)
  <2>1. Stamps' = Stamps
    BY <1>6, <1>7
  <2> QED
    BY <1>1, <1>2, <2>1 DEF EndedBefore, BegunBehind, StampsBefore
<1> QED
  BY <1>1, <1>2, <1>4, <1>5, <1>6, <1>7

\* Where a search from the head is.
LEMMA HeadPlaces ==
    ASSUME LogBufInd, search.doing = "head", ~ Strays, HeadCounts,
           NEW b, NEW o, NEW x, NEW e, NEW n, NEW N, NEW L,
           b = OldestByte, o = TextOffset(search.rp), x = TextOffset(LogSize - 1),
           e = TextOffset(search.ep), n = TextLength, N = LogSize, L = StampLength
    PROVE  /\ b \in Nat /\ o \in Nat /\ x \in Nat /\ e \in Nat /\ n \in Nat /\ N \in Nat /\ L \in Nat \ {0}
           /\ L + 2 < N /\ b < N /\ e <= n /\ n <= N /\ o <= e /\ x = N - 1 - b /\ x # e /\ o # x
           /\ LogCells = 0..(N - 1) /\ e < N
           /\ e = n \/ e = N - 1
           /\ search.rp \in LogCells /\ search.ep \in LogCells /\ search.sp \in LogCells
           /\ search.rp = IF b + o < N THEN b + o ELSE b + o - N
           /\ search.rp = search.ep <=> o = e
           /\ search.ep # N - 1 /\ search.kind = "head"
<1>0. /\ log_wp \in LogCells /\ search.rp \in LogCells /\ search.ep \in LogCells /\ search.sp \in LogCells
      /\ search.kind = "head" /\ search.rp # LogSize - 1
  BY DEF LogBufInd, SearchFits, Searches
<1>1. /\ N \in Nat /\ L \in Nat \ {0} /\ L + 2 < N /\ LogCells = 0..(N - 1)
  BY LogNumbers
<1>2. /\ b \in 0..(N - 1) /\ o \in 0..(N - 1) /\ x \in 0..(N - 1) /\ e \in 0..(N - 1) /\ n \in 0..N
  <2>1. N - 1 \in LogCells
    BY <1>1
  <2> QED
    BY <1>0, <1>1, <2>1, TextNumbers
<1>3. x = N - 1 - b
  BY <1>1, <1>2 DEF TextOffset
<1>4. search.rp = IF b + o < N THEN b + o ELSE b + o - N
  <2>1. TextCell(o) = search.rp
    BY <1>0, TextNumbers
  <2> QED
    BY <1>2, <2>1 DEF TextCell
<1>5. search.ep # N - 1 /\ search.sp # N - 1
  BY <1>0 DEF Strays
<1>6. o <= e
  BY DEF HeadCounts
<1>7. /\ flg_buff_full => b = log_wp /\ n = N /\ search.sp = log_wp
      /\ ~ flg_buff_full => b = 0 /\ n = log_wp /\ search.ep = log_wp
  <2>1. search.sp = SearchStart /\ search.ep = SearchEnd
    BY DEF HeadCounts
  <2> QED
    BY <2>1 DEF OldestByte, TextLength, SearchStart, SearchEnd
<1>8. CASE flg_buff_full
  <2>1. search.ep = IF log_wp = 0 THEN N - 1 ELSE log_wp - 1
    BY <1>8 DEF HeadCounts, SearchEnd
  <2>2. b # 0 /\ search.ep = b - 1
    BY <1>5, <1>7, <1>8, <2>1
  <2>3. e = N - 1
    BY <1>1, <1>2, <2>2 DEF TextOffset
  <2>n. n = N
    BY <1>7, <1>8
  <2>4. x # e /\ e <= n
    BY <1>1, <1>2, <1>3, <2>2, <2>3, <2>n
  <2>5. o # x
    <3>1. SUFFICES ASSUME o = x PROVE FALSE
      OBVIOUS
    <3>2. search.rp = N - 1
      BY <1>1, <1>2, <1>3, <1>4, <3>1
    <3> QED
      BY <1>0, <3>2
  <2>6. search.rp = search.ep <=> o = e
    BY <1>2, <1>0, TextNumbers, SMTT(30)
  <2> QED
    BY <1>0, <1>1, <1>2, <1>3, <1>4, <1>5, <1>6, <1>7, <1>8, <2>3, <2>4, <2>5, <2>6
<1>9. CASE ~ flg_buff_full
  <2>1. e = n
    <3>1. log_wp \in 0..(N - 1)
      BY <1>0, <1>1
    <3> QED
      BY <1>7, <1>9, <3>1 DEF TextOffset
  <2>2. x # e
    BY <1>0, <1>1, <1>3, <1>5, <1>7, <1>9, <2>1
  <2>5. o # x
    <3>1. SUFFICES ASSUME o = x PROVE FALSE
      OBVIOUS
    <3>2. search.rp = N - 1
      BY <1>1, <1>2, <1>3, <1>4, <3>1
    <3> QED
      BY <1>0, <3>2
  <2>6. search.rp = search.ep <=> o = e
    BY <1>2, <1>0, TextNumbers, SMTT(30)
  <2>7. e <= n /\ n <= N /\ e < N /\ b < N /\ L + 2 < N
    BY <1>1, <1>2, <2>1
  <2>8. b \in Nat /\ o \in Nat /\ x \in Nat /\ e \in Nat /\ n \in Nat /\ N \in Nat /\ L \in Nat \ {0}
    BY <1>1, <1>2
  <2> QED
    BY <1>0, <1>1, <1>3, <1>4, <1>5, <1>6, <2>1, <2>2, <2>5, <2>6, <2>7, <2>8, Zenon
<1> QED
  BY <1>8, <1>9

\* At the end of the text, all stamps have been read.
LEMMA HeadEndsWell ==
    ASSUME LogBufInd, LinesFit, SearchForward, meanwhile = 0, ~ Strays, HeadCounts,
           search.rp = search.ep
    PROVE  RecordsAreFound'
<1>0. search.doing = "head" /\ search \in Searches
  BY DEF SearchForward, LogBufInd
<1>1. PICK b, o, x, e, n, N, L :
        /\ b = OldestByte /\ o = TextOffset(search.rp) /\ x = TextOffset(LogSize - 1)
        /\ e = TextOffset(search.ep) /\ n = TextLength /\ N = LogSize /\ L = StampLength
  OBVIOUS
<1>2. /\ b \in Nat /\ o \in Nat /\ x \in Nat /\ e \in Nat /\ n \in Nat /\ N \in Nat /\ L \in Nat \ {0}
      /\ L + 2 < N /\ b < N /\ e <= n /\ n <= N /\ o <= e /\ x = N - 1 - b /\ x # e /\ o # x
      /\ LogCells = 0..(N - 1) /\ e < N
      /\ e = n \/ e = N - 1
      /\ search.rp \in LogCells /\ search.ep \in LogCells
      /\ search.rp = search.ep <=> o = e
      /\ search.kind = "head"
  BY <1>0, <1>1, HeadPlaces
<1>3. SearchFound(search, search.rp)
  BY DEF SearchForward
<1>4. /\ search' = [search EXCEPT !.doing = "idle", !.rp = 0, !.stat = 0, !.tcount = 0]
      /\ log_rp' = search.ep /\ UNCHANGED <<log_buf, log_wp, flg_buff_full>>
  BY <1>3 DEF SearchFound, logWriterVars
<1>5. search'.kind = "head" /\ search'.recnum = search.recnum /\ search'.reccount = search.reccount
  BY <1>0, <1>2, <1>4 DEF Searches
<1>6. EndedBefore(o) = Stamps
  <2>1. ASSUME NEW i \in Stamps
        PROVE  TextOffset(i) + L + 1 < o
    <3>1. i \in LogCells
      BY DEF Stamps
    <3>2. TextOffset(i) + L + 1 < n /\ TextOffset(i) + L + 1 < N - 1
      BY <1>1, <1>2, <3>1, StampsAre
    <3> QED
      BY <1>2, <3>2
  <2> QED
    BY <1>1, <2>1 DEF EndedBefore
<1>7. Stamps' = Stamps
  BY <1>2, <1>4, <1>5, StampsStay
<1>8. search.reccount = Cardinality(Stamps) /\ search.reccount <= search.recnum
  BY <1>1, <1>6 DEF HeadCounts
<1>9. ~ search'.recnum < Cardinality(Stamps)'
  BY <1>0, <1>5, <1>7, <1>8, StampsAreFinite DEF Searches
<1>10. LogDistance(log_rp, log_wp)' <= 1
  <2>1. search.ep = SearchEnd /\ log_wp \in LogCells
    BY DEF HeadCounts, LogBufInd
  <2>2. LogDistance(log_rp, log_wp)' = LogDistance(search.ep, log_wp)
    BY <1>4 DEF LogDistance
  <2>3. LogDistance(search.ep, log_wp) = IF search.ep <= log_wp THEN log_wp - search.ep ELSE log_wp - search.ep + N
    BY <1>1, <1>2, <2>1, RingNumbers
  <2>4. search.ep = log_wp \/ search.ep = IF log_wp = 0 THEN N - 1 ELSE log_wp - 1
    BY <1>1, <2>1 DEF SearchEnd
  <2>5. log_wp \in 0..(N - 1)
    BY <1>2, <2>1
  <2> QED
    BY <1>2, <2>2, <2>3, <2>4, <2>5
<1>11. search'.reccount = Cardinality(Stamps)'
  BY <1>5, <1>7, <1>8
<1> QED
  BY <1>5, <1>9, <1>10, <1>11 DEF RecordsAreFound

\* The cell after the one at an offset, when the last cell is skipped.
LEMMA NextOffset ==
    ASSUME NEW N \in Nat, NEW b \in 0..(N - 1), NEW o \in Nat, NEW e \in 0..(N - 1),
           NEW x \in Int, NEW i \in Int, NEW r \in Int,
           x = N - 1 - b, o # x, o < e, e # x, i = IF b + o < N THEN b + o ELSE b + o - N,
           r = IF i + 1 = N - 1 THEN 0 ELSE i + 1
    PROVE  /\ (IF b <= r THEN r - b ELSE r - b + N) = IF o + 1 = x THEN o + 2 ELSE o + 1
           /\ i + 1 < N
<1>1. CASE b + o < N
  BY <1>1
<1>2. CASE ~ b + o < N
  BY <1>2
<1> QED
  BY <1>1, <1>2

\* How far the next cell is from the oldest byte.
LEMMA HeadGoesOn ==
    ASSUME LogBufInd, search.doing = "head", ~ Strays, HeadCounts, search.rp # search.ep,
           NEW o, NEW x
    PROVE  o = TextOffset(search.rp) /\ x = TextOffset(LogSize - 1) =>
              /\ TextOffset(NextCell(search.rp)) = IF o + 1 = x THEN o + 2 ELSE o + 1
              /\ TextOffset(NextCell(search.rp)) <= TextOffset(search.ep)
              /\ search.rp + 1 \in LogCells
<1>0. HAVE o = TextOffset(search.rp) /\ x = TextOffset(LogSize - 1)
<1>1. PICK b, e, n, N, L :
        /\ b = OldestByte /\ e = TextOffset(search.ep) /\ n = TextLength /\ N = LogSize /\ L = StampLength
  OBVIOUS
<1>2. /\ b \in Nat /\ o \in Nat /\ x \in Nat /\ e \in Nat /\ n \in Nat /\ N \in Nat /\ L \in Nat \ {0}
      /\ L + 2 < N /\ b < N /\ e <= n /\ n <= N /\ o <= e /\ x = N - 1 - b /\ x # e /\ o # x
      /\ LogCells = 0..(N - 1) /\ e < N
      /\ search.rp = IF b + o < N THEN b + o ELSE b + o - N
      /\ search.rp = search.ep <=> o = e
  BY <1>0, <1>1, HeadPlaces
<1>3. o < e
  BY <1>2
<1>4. PICK i \in Int, r \in Int :
         /\ i = search.rp /\ i = IF b + o < N THEN b + o ELSE b + o - N
         /\ r = NextCell(search.rp) /\ r = IF i + 1 = N - 1 THEN 0 ELSE i + 1
  <2>1. search.rp \in Int
    BY <1>2
  <2>2. NextCell(search.rp) = IF search.rp + 1 = N - 1 THEN 0 ELSE search.rp + 1
    BY <1>1 DEF NextCell
  <2>3. NextCell(search.rp) \in Int
    BY <2>1, <2>2
  <2> QED
    BY <1>2, <2>1, <2>2, <2>3
<1>5. TextOffset(r) = IF b <= r THEN r - b ELSE r - b + N
  BY <1>1 DEF TextOffset
<1>6. /\ (IF b <= r THEN r - b ELSE r - b + N) = IF o + 1 = x THEN o + 2 ELSE o + 1
      /\ i + 1 < N
  BY <1>2, <1>3, <1>4, NextOffset
<1>7. (IF o + 1 = x THEN o + 2 ELSE o + 1) <= e
  BY <1>2, <1>3
<1>8. i + 1 \in LogCells
  <2>1. 0 <= i
    BY <1>2, <1>4
  <2> QED
    BY <1>2, <1>4, <1>6, <2>1
<1> QED
  BY <1>1, <1>4, <1>5, <1>6, <1>7, <1>8

\* The stamp that ends at a byte is the next one of those that have ended.
LEMMA HeadCountsOn ==
    ASSUME LogBufInd, LinesFit, search.doing = "head", ~ Strays, HeadCounts, search.rp # search.ep,
           NEW o, NEW x, NEW q, NEW i
    PROVE  /\ o = TextOffset(search.rp) /\ x = TextOffset(LogSize - 1)
           /\ q = TextOffset(NextCell(search.rp)) /\ i = search.rp - (StampLength + 1)
           => IF o >= StampLength + 1 /\ LogText[o - (StampLength + 1)] = "["
                 /\ (o < x \/ x < o - (StampLength + 1))
                THEN /\ i \in Stamps /\ i \notin EndedBefore(o) /\ StampsBefore(i) = EndedBefore(o)
                     /\ EndedBefore(q) = EndedBefore(o) \cup {i}
                ELSE EndedBefore(q) = EndedBefore(o)
<1>0. HAVE /\ o = TextOffset(search.rp) /\ x = TextOffset(LogSize - 1)
           /\ q = TextOffset(NextCell(search.rp)) /\ i = search.rp - (StampLength + 1)
<1>1. PICK b, e, n, N, L :
        /\ b = OldestByte /\ e = TextOffset(search.ep) /\ n = TextLength /\ N = LogSize /\ L = StampLength
  OBVIOUS
<1>2. /\ b \in Nat /\ o \in Nat /\ x \in Nat /\ e \in Nat /\ n \in Nat /\ N \in Nat /\ L \in Nat \ {0}
      /\ L + 2 < N /\ b < N /\ e <= n /\ n <= N /\ o <= e /\ x = N - 1 - b /\ x # e /\ o # x
      /\ LogCells = 0..(N - 1) /\ e < N
      /\ search.rp = IF b + o < N THEN b + o ELSE b + o - N
      /\ search.rp = search.ep <=> o = e
      /\ search.kind = "head"
  BY <1>0, <1>1, HeadPlaces
<1>3. q = IF o + 1 = x THEN o + 2 ELSE o + 1
  BY <1>0, HeadGoesOn
<1>4. o < e /\ log_wp \in LogCells
  BY <1>2 DEF LogBufInd
<1>5. \A j \in LogCells :
        /\ TextOffset(j) \in 0..(N - 1) /\ TextCell(TextOffset(j)) = j
        /\ j \in Stamps <=> /\ TextOffset(j) + L + 1 < n
                            /\ LogText[TextOffset(j)] = "["
                            /\ TextOffset(j) + L + 1 < x \/ x < TextOffset(j)
                            /\ TextOffset(j) + L + 1 < N - 1
  <2>1. ASSUME NEW j \in LogCells
        PROVE  /\ TextOffset(j) \in 0..(N - 1) /\ TextCell(TextOffset(j)) = j
               /\ j \in Stamps <=> /\ TextOffset(j) + L + 1 < n
                                   /\ LogText[TextOffset(j)] = "["
                                   /\ TextOffset(j) + L + 1 < x \/ x < TextOffset(j)
                                   /\ TextOffset(j) + L + 1 < N - 1
    <3>1. TextOffset(j) \in 0..(N - 1) /\ TextCell(TextOffset(j)) = j
      BY <1>2, <1>4, TextNumbers
    <3>2. j \in Stamps <=> /\ TextOffset(j) + L + 1 < n
                           /\ LogText[TextOffset(j)] = "["
                           /\ TextOffset(j) + L + 1 < x \/ x < TextOffset(j)
                           /\ TextOffset(j) + L + 1 < N - 1
      BY <1>0, <1>1, <1>2, StampsAre
    <3> QED
      BY <3>1, <3>2
  <2> QED
    BY <2>1
<1>6. Stamps \subseteq LogCells
  BY DEF Stamps
<1>7. \A j : j \in EndedBefore(o) <=> j \in Stamps /\ TextOffset(j) + L + 1 < o
  BY <1>1 DEF EndedBefore
<1>8. \A j : j \in EndedBefore(q) <=> j \in Stamps /\ TextOffset(j) + L + 1 < q
  BY <1>1 DEF EndedBefore
<1>9. ASSUME NEW j \in Stamps
      PROVE  TextOffset(j) + L + 1 < q <=> TextOffset(j) + L + 1 < o \/ TextOffset(j) + L + 1 = o
  <2>1. PICK k \in Nat : k = TextOffset(j) /\ (k + L + 1 < x \/ x < k)
    BY <1>5, <1>6
  <2>2. L \in Nat /\ x \in Nat /\ o \in Nat
    BY <1>2
  <2>3. k + L + 1 < q <=> k + L + 1 < o \/ k + L + 1 = o
    BY <1>3, <2>1, <2>2
  <2> QED
    BY <2>1, <2>3
<1>10. CASE o >= L + 1 /\ LogText[o - (L + 1)] = "[" /\ (o < x \/ x < o - (L + 1))
  <2>1. PICK r \in Nat : r = o - (L + 1) /\ o = r + L + 1
    <3>1. o - (L + 1) \in Nat
      BY <1>2, <1>10
    <3> QED
      BY <1>2, <3>1
  <2>2. i = IF b + r < N THEN b + r ELSE b + r - N
    <3>1. PICK p \in Int : p = search.rp /\ p = IF b + o < N THEN b + o ELSE b + o - N
      BY <1>2
    <3>2. i = p - (L + 1)
      BY <1>0, <1>1, <3>1
    <3>3. x = N - 1 - b /\ (o < x \/ x < r) /\ o < N
      BY <1>2, <1>4, <1>10, <2>1
    <3> QED
      BY <1>2, <2>1, <3>1, <3>2, <3>3
  <2>3. i = TextCell(r) /\ i \in LogCells /\ TextOffset(i) = r
    <3>1. i = TextCell(r)
      BY <1>1, <2>2 DEF TextCell
    <3>2. r \in LogCells
      BY <1>2, <1>4, <2>1
    <3> QED
      BY <1>4, <3>1, <3>2, TextNumbers
  <2>4. i \in Stamps
    <3>1. r + L + 1 < n /\ LogText[r] = "[" /\ (r + L + 1 < x \/ x < r) /\ r + L + 1 < N - 1
      BY <1>2, <1>4, <1>10, <2>1
    <3> QED
      BY <1>5, <2>3, <3>1
  <2>5. i \notin EndedBefore(o)
    BY <1>2, <1>7, <2>1, <2>3
  <2>6. StampsBefore(i) = EndedBefore(o)
    <3>1. ASSUME NEW j \in Stamps
          PROVE  LogDistance(OldestByte, j) < LogDistance(OldestByte, i) <=> TextOffset(j) + L + 1 < o
      <4>1. LogDistance(OldestByte, j) = TextOffset(j) /\ LogDistance(OldestByte, i) = r
        BY <1>4, <1>6, <2>3, OffsetIsDistance
      <4>2. TextOffset(j) \in Nat
        BY <1>2, <1>5, <1>6
      <4> QED
        BY <1>2, <2>1, <4>1, <4>2
    <3> QED
      BY <1>7, <3>1 DEF StampsBefore
  <2>7. ASSUME NEW j \in Stamps
        PROVE  TextOffset(j) + L + 1 = o <=> j = i
    <3>1. j \in LogCells /\ TextOffset(j) \in Nat /\ TextCell(TextOffset(j)) = j
      BY <1>2, <1>5, <1>6
    <3>2. TextOffset(j) + L + 1 = o => TextOffset(j) = r
      BY <1>2, <2>1, <3>1
    <3> QED
      BY <2>1, <2>3, <3>1, <3>2
  <2>8. EndedBefore(q) = EndedBefore(o) \cup {i}
    <3>1. ASSUME NEW j
          PROVE  j \in EndedBefore(q) <=> j \in EndedBefore(o) \/ j = i
      BY <1>7, <1>8, <1>9, <2>4, <2>7
    <3> QED
      BY <3>1
  <2> QED
    BY <1>1, <1>10, <2>4, <2>5, <2>6, <2>8
<1>11. CASE ~ (o >= L + 1 /\ LogText[o - (L + 1)] = "[" /\ (o < x \/ x < o - (L + 1)))
  <2>1. ASSUME NEW j \in Stamps
        PROVE  TextOffset(j) + L + 1 # o
    <3>1. SUFFICES ASSUME TextOffset(j) + L + 1 = o PROVE FALSE
      OBVIOUS
    <3>2. PICK r \in Nat : r = TextOffset(j)
      BY <1>2, <1>5, <1>6
    <3>3. r = o - (L + 1) /\ o >= L + 1
      BY <1>2, <3>1, <3>2
    <3>4. LogText[r] = "[" /\ (o < x \/ x < r)
      BY <1>5, <1>6, <3>1, <3>2
    <3> QED
      BY <1>11, <3>3, <3>4
  <2>2. ASSUME NEW j
        PROVE  j \in EndedBefore(q) <=> j \in EndedBefore(o)
    BY <1>7, <1>8, <1>9, <2>1
  <2>3. EndedBefore(q) = EndedBefore(o)
    BY <2>2 DEF EndedBefore
  <2> QED
    BY <1>1, <1>11, <2>3
<1> QED
  BY <1>1, <1>10, <1>11

\* A record that is found from the head is the one with so many before it.
LEMMA HeadFinds ==
    ASSUME LogBufInd, LinesFit, search.doing = "head", ~ Strays, HeadCounts, search.rp # search.ep,
           search.stat = 1, search.tcount = StampLength, LogCell(search.rp) = "]",
           search.reccount = search.recnum,
           SearchFound(search, search.rp - (StampLength + 1))
    PROVE  RecordsAreFound'
<1>1. PICK b, o, x, e, n, N, L, q, i :
        /\ b = OldestByte /\ o = TextOffset(search.rp) /\ x = TextOffset(LogSize - 1)
        /\ e = TextOffset(search.ep) /\ n = TextLength /\ N = LogSize /\ L = StampLength
        /\ q = TextOffset(NextCell(search.rp)) /\ i = search.rp - (StampLength + 1)
  OBVIOUS
<1>2. /\ o \in Nat /\ x \in Nat /\ e \in Nat /\ n \in Nat /\ L \in Nat
      /\ e <= n /\ o <= e /\ o # x /\ search.rp \in LogCells
      /\ search.rp = search.ep <=> o = e
      /\ search.kind = "head" /\ search \in Searches
  BY <1>1, HeadPlaces DEF LogBufInd
<1>3. o \in 0..(n - 1)
  BY <1>2
<1>4. q = IF o + 1 = x THEN o + 2 ELSE o + 1
  BY <1>1, HeadGoesOn
<1>5. LogText[o] = "]"
  BY <1>1, <1>2, TextChars
<1>6. TextFits(LogText, n) /\ HeadReads(LogText, o, x, 1, L)
  BY <1>1 DEF LinesFit, HeadCounts
<1>7. o >= L + 1 /\ LogText[o - (L + 1)] = "[" /\ (o < x \/ x < o - (L + 1))
  <2>1. PICK t : t = LogText
    OBVIOUS
  <2>2. PICK s, c : /\ s = IF 1 = 0 THEN IF t[o] = "[" THEN 1 ELSE 0
                           ELSE IF L < L /\ t[o] = "9" THEN 1 ELSE 0
                    /\ c = IF 1 = 1 /\ L < L /\ t[o] = "9" THEN L + 1 ELSE 0
    OBVIOUS
  <2>3. L \in 0..StampLength /\ 1 \in {0, 1} /\ L = StampLength
    BY <1>1, <1>2
  <2>4. 1 = 1 /\ L = StampLength /\ t[o] = "]" <=>
                /\ o >= StampLength + 1 /\ t[o - (StampLength + 1)] = "["
                /\ o < x \/ x < o - (StampLength + 1)
    <3>1. TextFits(t, n) /\ HeadReads(t, o, x, 1, L)
      BY <1>6, <2>1
    <3> QED
      BY <1>2, <1>3, <1>4, <2>2, <2>3, <3>1, HeadReadsOn, SMTT(40)
  <2> QED
    BY <1>5, <2>1, <2>3, <2>4
<1>8. i \in Stamps /\ i \notin EndedBefore(o) /\ StampsBefore(i) = EndedBefore(o)
  BY <1>1, <1>7, HeadCountsOn
<1>9. search.recnum = Cardinality(EndedBefore(o))
  BY <1>1 DEF HeadCounts
<1>10. Cardinality(EndedBefore(o)) < Cardinality(Stamps)
  <2>1. EndedBefore(o) \subseteq Stamps
    BY DEF EndedBefore
  <2>2. EndedBefore(o) \cup {i} \subseteq Stamps
    BY <1>8, <2>1
  <2>3. IsFiniteSet(EndedBefore(o))
    BY <2>1, StampsAreFinite
  <2>4. Cardinality(EndedBefore(o) \cup {i}) = Cardinality(EndedBefore(o)) + 1
    BY <1>8, <2>3, FS_AddElement
  <2>5. Cardinality(EndedBefore(o) \cup {i}) <= Cardinality(Stamps)
    BY <2>2, StampsAreFinite
  <2>6. Cardinality(EndedBefore(o)) \in Nat /\ Cardinality(Stamps) \in Nat
    BY <2>1, StampsAreFinite
  <2> QED
    BY <2>4, <2>5, <2>6
<1>11. /\ search' = [search EXCEPT !.doing = "idle", !.rp = 0, !.stat = 0, !.tcount = 0]
       /\ log_rp' = i /\ UNCHANGED <<log_buf, log_wp, flg_buff_full>>
  BY <1>1 DEF SearchFound, logWriterVars
<1>12. search'.kind = "head" /\ search'.recnum = search.recnum
  BY <1>2, <1>11 DEF Searches
<1>13. Stamps' = Stamps /\ StampsBefore(log_rp)' = StampsBefore(i)
  <2>1. Stamps' = Stamps
    BY <1>2, <1>11, <1>12, StampsStay
  <2>2. StampsBefore(log_rp)' = {j \in Stamps : LogDistance(OldestByte, j) < LogDistance(OldestByte, i)}
    <3>1. OldestByte' = OldestByte
      BY <1>11 DEF OldestByte
    <3> QED
      BY <1>11, <2>1, <3>1 DEF StampsBefore, LogDistance
  <2> QED
    BY <2>1, <2>2 DEF StampsBefore
<1>14. search'.recnum < Cardinality(Stamps)'
  BY <1>9, <1>10, <1>12, <1>13
<1>15. log_rp' \in Stamps' /\ Cardinality(StampsBefore(log_rp))' = search'.recnum
  BY <1>8, <1>9, <1>11, <1>12, <1>13
<1> QED
  BY <1>12, <1>14, <1>15 DEF RecordsAreFound

\* One turn of a search from the head.
LEMMA ForwardTurns ==
    ASSUME LogBufInd, SearchForward
    PROVE  LET ch == LogCell(search.rp)
               ends == search.stat = 1 /\ search.tcount = StampLength
               found == ends /\ ch = "]"
           IN  \/ search.rp = search.ep /\ SearchFound(search, search.rp)
               \/ /\ search.rp # search.ep /\ found /\ search.reccount = search.recnum
                  /\ SearchFound(search, search.rp - (StampLength + 1))
               \/ /\ search.rp # search.ep /\ ~ (found /\ search.reccount = search.recnum)
                  /\ search'.stat = IF search.stat = 0 THEN IF ch = "[" THEN 1 ELSE 0
                                    ELSE IF ~ ends /\ ch = "9" THEN 1 ELSE 0
                  /\ search'.tcount = IF search.stat = 1 /\ ~ ends /\ ch = "9" THEN search.tcount + 1 ELSE 0
                  /\ search'.reccount = IF found THEN search.reccount + 1 ELSE search.reccount
                  /\ search'.rp = NextCell(search.rp) /\ search'.recnum = search.recnum
                  /\ search'.kind = search.kind /\ search'.sp = search.sp /\ search'.ep = search.ep
                  /\ search'.doing \in {"head", "outside"}
                  /\ UNCHANGED <<logWriterVars, log_rp, to_print, printed, meanwhile>>
<1> DEFINE ch == LogCell(search.rp)
           ends == search.stat = 1 /\ search.tcount = StampLength
           found == ends /\ ch = "]"
           st == IF search.stat = 0 THEN IF ch = "[" THEN 1 ELSE 0
                 ELSE IF ~ ends /\ ch = "9" THEN 1 ELSE 0
           tc == IF search.stat = 1 /\ ~ ends /\ ch = "9" THEN search.tcount + 1 ELSE 0
           rc == IF found THEN search.reccount + 1 ELSE search.reccount
           nx == NextCell(search.rp)
           dg == IF search.rp + 1 \in LogCells THEN search.doing ELSE "outside"
           s == [Looked(search) EXCEPT
                   !.stat = IF search.stat = 0 THEN IF ch = "[" THEN 1 ELSE 0
                            ELSE IF ~ ends /\ ch = "9" THEN 1 ELSE 0,
                   !.tcount = IF search.stat = 1 /\ ~ ends /\ ch = "9" THEN @ + 1 ELSE 0,
                   !.reccount = IF found THEN @ + 1 ELSE @,
                   !.rp = NextCell(@),
                   !.doing = IF search.rp + 1 \in LogCells THEN @ ELSE "outside"]
<1>1. search \in Searches /\ search.doing = "head"
  BY DEF LogBufInd, SearchForward
<1>2. \/ search.rp = search.ep /\ SearchFound(search, search.rp)
      \/ /\ search.rp # search.ep /\ found /\ search.reccount = search.recnum
         /\ SearchFound(search, search.rp - (StampLength + 1))
      \/ search.rp # search.ep /\ ~ (found /\ search.reccount = search.recnum) /\ SearchGoes(s)
  BY Zenon DEF SearchForward
<1>3. ASSUME SearchGoes(s)
      PROVE  /\ search'.stat = st /\ search'.tcount = tc /\ search'.reccount = rc
             /\ search'.rp = nx /\ search'.recnum = search.recnum
             /\ search'.kind = search.kind /\ search'.sp = search.sp /\ search'.ep = search.ep
             /\ search'.doing \in {"head", "outside"}
             /\ UNCHANGED <<logWriterVars, log_rp, to_print, printed, meanwhile>>
  <2>1. search' = s /\ UNCHANGED <<logWriterVars, log_rp, to_print, printed, meanwhile>>
    BY <1>3 DEF SearchGoes
  <2>2. PICK l : Looked(search) = [search EXCEPT !.looked = l]
    BY DEF Looked
  <2>3. PICK t, c, r, n, w : t = st /\ c = tc /\ r = rc /\ n = nx /\ w = dg
    OBVIOUS
  <2>4. s = [search EXCEPT !.looked = l, !.stat = t, !.tcount = c, !.reccount = r, !.rp = n, !.doing = w]
    BY <1>1, <2>2, <2>3 DEF Searches
  <2>5. w \in {"head", "outside"}
    BY <1>1, <2>3
  <2> HIDE DEF s, st, tc, rc, nx, dg
  <2> QED
    BY <1>1, <2>1, <2>3, <2>4, <2>5 DEF Searches
<1> HIDE DEF s
<1> QED
  BY <1>2, <1>3

\* A search from the head that goes on has counted what it has read.
LEMMA HeadCountsMore ==
    ASSUME LogBufInd, LinesFit, SearchForward, ~ Strays, HeadCounts, search'.doing = "head"
    PROVE  HeadCounts'
<1> DEFINE ch == LogCell(search.rp)
           ends == search.stat = 1 /\ search.tcount = StampLength
           found == ends /\ ch = "]"
<1>0. search \in Searches /\ search.doing = "head"
  BY DEF LogBufInd, SearchForward
<1>1. /\ search.rp # search.ep /\ ~ (found /\ search.reccount = search.recnum)
      /\ search'.stat = IF search.stat = 0 THEN IF ch = "[" THEN 1 ELSE 0
                        ELSE IF ~ ends /\ ch = "9" THEN 1 ELSE 0
      /\ search'.tcount = IF search.stat = 1 /\ ~ ends /\ ch = "9" THEN search.tcount + 1 ELSE 0
      /\ search'.reccount = IF found THEN search.reccount + 1 ELSE search.reccount
      /\ search'.rp = NextCell(search.rp) /\ search'.recnum = search.recnum
      /\ search'.kind = search.kind /\ search'.sp = search.sp /\ search'.ep = search.ep
      /\ UNCHANGED <<logWriterVars, log_rp, to_print, printed, meanwhile>>
  <2>1. ASSUME NEW i, SearchFound(search, i)
        PROVE  FALSE
    <3>1. search'.doing = "idle"
      BY <1>0, <2>1 DEF SearchFound, Searches
    <3> QED
      BY <3>1
  <2> QED
    BY <2>1, ForwardTurns
<1>2. UNCHANGED <<log_buf, log_wp, flg_buff_full>>
  BY <1>1 DEF logWriterVars
<1>3. PICK b, o, x, e, n, N, L, q, i, t :
        /\ b = OldestByte /\ o = TextOffset(search.rp) /\ x = TextOffset(LogSize - 1)
        /\ e = TextOffset(search.ep) /\ n = TextLength /\ N = LogSize /\ L = StampLength
        /\ q = TextOffset(NextCell(search.rp)) /\ i = search.rp - (StampLength + 1)
        /\ t = LogText
  OBVIOUS
<1>4. /\ o \in Nat /\ x \in Nat /\ e \in Nat /\ n \in Nat /\ L \in Nat
      /\ e <= n /\ o <= e /\ o # x /\ search.rp \in LogCells
      /\ search.rp = search.ep <=> o = e
      /\ search.kind = "head"
  BY <1>0, <1>3, HeadPlaces
<1>5. o \in 0..(n - 1)
  BY <1>1, <1>4
<1>6. q = (IF o + 1 = x THEN o + 2 ELSE o + 1) /\ q <= e
  BY <1>0, <1>1, <1>3, HeadGoesOn
<1>7. t[o] = ch
  BY <1>3, <1>4, TextChars
<1>8. TextFits(t, n) /\ HeadReads(t, o, x, search.stat, search.tcount)
  BY <1>3 DEF LinesFit, HeadCounts
<1>9. search.stat \in {0, 1} /\ search.tcount \in 0..StampLength /\ search.reccount \in Nat /\ search.recnum \in Nat
  BY <1>0 DEF Searches
<1>10. PICK st, c, r :
         /\ st = IF search.stat = 0 THEN IF ch = "[" THEN 1 ELSE 0
                 ELSE IF ~ ends /\ ch = "9" THEN 1 ELSE 0
         /\ c = IF search.stat = 1 /\ ~ ends /\ ch = "9" THEN search.tcount + 1 ELSE 0
         /\ r = IF found THEN search.reccount + 1 ELSE search.reccount
  OBVIOUS
<1>11. /\ st = IF search.stat = 0 THEN IF t[o] = "[" THEN 1 ELSE 0
               ELSE IF search.tcount < StampLength /\ t[o] = "9" THEN 1 ELSE 0
       /\ c = IF search.stat = 1 /\ search.tcount < StampLength /\ t[o] = "9" THEN search.tcount + 1 ELSE 0
  <2>1. search.tcount < StampLength <=> search.tcount # StampLength
    BY <1>9, LogNumbers
  <2> QED
    BY <1>7, <1>9, <1>10, <2>1
<1>12. /\ HeadReads(t, q, x, st, c)
       /\ found <=> o >= L + 1 /\ t[o - (L + 1)] = "[" /\ (o < x \/ x < o - (L + 1))
  <2>1. /\ HeadReads(t, q, x, st, c)
        /\ search.stat = 1 /\ search.tcount = StampLength /\ t[o] = "]" <=>
                /\ o >= StampLength + 1 /\ t[o - (StampLength + 1)] = "["
                /\ o < x \/ x < o - (StampLength + 1)
    <3>1. PICK sa \in {0, 1}, ta \in 0..StampLength : sa = search.stat /\ ta = search.tcount
      BY <1>9
    <3>2. /\ st = IF sa = 0 THEN IF t[o] = "[" THEN 1 ELSE 0
                   ELSE IF ta < StampLength /\ t[o] = "9" THEN 1 ELSE 0
          /\ c = IF sa = 1 /\ ta < StampLength /\ t[o] = "9" THEN ta + 1 ELSE 0
          /\ TextFits(t, n) /\ HeadReads(t, o, x, sa, ta)
      BY <1>8, <1>11, <3>1
    <3>3. n \in Nat /\ x \in Nat /\ o # x /\ o \in 0..(n - 1) /\ q = IF o + 1 = x THEN o + 2 ELSE o + 1
      BY <1>4, <1>5, <1>6
    <3>4. /\ HeadReads(t, q, x, st, c)
          /\ sa = 1 /\ ta = StampLength /\ t[o] = "]" <=>
                /\ o >= StampLength + 1 /\ t[o - (StampLength + 1)] = "["
                /\ o < x \/ x < o - (StampLength + 1)
      BY <3>2, <3>3, HeadReadsOn
    <3> QED
      BY <3>1, <3>4
  <2> QED
    BY <1>3, <1>7, <2>1
<1>13. r = Cardinality(EndedBefore(q))
  <2>1. search.reccount = Cardinality(EndedBefore(o))
    BY <1>3 DEF HeadCounts
  <2>2. CASE found
    <3>1. i \in Stamps /\ i \notin EndedBefore(o) /\ EndedBefore(q) = EndedBefore(o) \cup {i}
      BY <1>0, <1>1, <1>3, <1>12, <2>2, HeadCountsOn
    <3>2. IsFiniteSet(EndedBefore(o))
      <4>1. EndedBefore(o) \subseteq Stamps
        BY DEF EndedBefore
      <4> QED
        BY <4>1, StampsAreFinite
    <3>3. Cardinality(EndedBefore(q)) = Cardinality(EndedBefore(o)) + 1
      BY <3>1, <3>2, FS_AddElement
    <3> QED
      BY <1>10, <2>1, <2>2, <3>3
  <2>3. CASE ~ found
    <3>1. EndedBefore(q) = EndedBefore(o)
      BY <1>0, <1>1, <1>3, <1>12, <2>3, HeadCountsOn
    <3> QED
      BY <1>10, <2>1, <2>3, <3>1
  <2> QED
    BY <2>2, <2>3
<1>14. r <= search.recnum
  <2>1. search.reccount <= search.recnum
    BY DEF HeadCounts
  <2> QED
    BY <1>1, <1>9, <1>10, <2>1
<1>15. /\ search'.stat = st /\ search'.tcount = c /\ search'.reccount = r
       /\ search'.rp = NextCell(search.rp) /\ search'.sp = search.sp /\ search'.ep = search.ep
       /\ search'.recnum = search.recnum /\ search'.kind = search.kind
  BY <1>1, <1>10
<1>16. /\ OldestByte' = OldestByte /\ LogText' = t /\ SearchStart' = SearchStart /\ SearchEnd' = SearchEnd
       /\ \A j : TextOffset(j)' = TextOffset(j)
       /\ EndedBefore(q)' = EndedBefore(q)
  <2>1. UNCHANGED <<OldestByte, LogText, SearchStart, SearchEnd>>
    BY <1>2, StampsStay
  <2>2. \A j : TextOffset(j)' = TextOffset(j)
    BY <1>2, StampsStay
  <2>3. EndedBefore(q)' = EndedBefore(q)
    BY <1>2, <1>15, StampsStay
  <2> QED
    BY <1>3, <2>1, <2>2, <2>3
<1>17. TextOffset(search.rp)' = q /\ TextOffset(search.ep)' = e /\ TextOffset(LogSize - 1)' = x
  BY <1>2, <1>3, <1>15 DEF TextOffset, OldestByte
<1>18. Cardinality(EndedBefore(TextOffset(search.rp)))' = Cardinality(EndedBefore(q))
  <2>1. EndedBefore(TextOffset(search.rp))' = {j \in Stamps' : TextOffset(j)' + StampLength + 1 < q}
    BY <1>17 DEF EndedBefore
  <2>2. EndedBefore(q)' = {j \in Stamps' : TextOffset(j)' + StampLength + 1 < q}
    BY DEF EndedBefore
  <2> QED
    BY <1>16, <2>1, <2>2
<1>19. search.sp = SearchStart /\ search.ep = SearchEnd
  BY DEF HeadCounts
<1>20. HeadReads(LogText, TextOffset(search.rp), TextOffset(LogSize - 1), search.stat, search.tcount)'
  <2>1. HeadReads(LogText, TextOffset(search.rp), TextOffset(LogSize - 1), search.stat, search.tcount)'
          <=> HeadReads(t, q, x, st, c)
    BY <1>15, <1>16, <1>17 DEF HeadReads
  <2> QED
    BY <1>12, <2>1
<1> QED
  BY <1>6, <1>13, <1>14, <1>15, <1>16, <1>17, <1>18, <1>19, <1>20 DEF HeadCounts

\* A search from the head counts what it reads, and finds what is sought.
LEMMA ForwardKeepsRecords ==
    ASSUME LogBufInd, LinesFit, SearchCounts, SearchForward
    PROVE  SearchCounts' /\ RecordsAreFound'
<1>0. search \in Searches /\ search.doing = "head"
  BY DEF LogBufInd, SearchForward
<1>1. \/ /\ search'.doing = "idle"
         /\ \/ search.rp = search.ep
            \/ /\ search.rp # search.ep /\ search.stat = 1
               /\ search.tcount = StampLength /\ LogCell(search.rp) = "]"
               /\ search.reccount = search.recnum
               /\ SearchFound(search, search.rp - (StampLength + 1))
      \/ search'.doing \in {"head", "outside"}
  <2>1. ASSUME NEW i, SearchFound(search, i)
        PROVE  search'.doing = "idle"
    BY <1>0, <2>1 DEF SearchFound, Searches
  <2> QED
    BY <2>1, ForwardTurns
<1>2. /\ search'.kind = search.kind /\ search'.sp = search.sp /\ search'.ep = search.ep
      /\ meanwhile' = meanwhile
  <2>1. ASSUME NEW i, SearchFound(search, i)
        PROVE  /\ search'.kind = search.kind /\ search'.sp = search.sp /\ search'.ep = search.ep
               /\ meanwhile' = meanwhile
    BY <1>0, <2>1 DEF SearchFound, Searches
  <2> QED
    BY <2>1, ForwardTurns
<1>3. Strays' <=> Strays
  BY <1>2 DEF Strays
<1>4. CASE ~ (meanwhile = 0 /\ ~ Strays)
  BY <1>2, <1>3, <1>4 DEF SearchCounts, RecordsAreFound
<1>5. CASE meanwhile = 0 /\ ~ Strays
  <2>1. HeadCounts
    BY <1>0, <1>5 DEF SearchCounts
  <2>2. search'.doing = "head" => HeadCounts'
    BY <1>5, <2>1, HeadCountsMore
  <2>3. SearchCounts'
    BY <1>1, <2>2 DEF SearchCounts
  <2>4. RecordsAreFound'
    <3>1. CASE search'.doing = "idle" /\ search.rp = search.ep
      BY <1>5, <2>1, <3>1, HeadEndsWell
    <3>2. CASE /\ search.rp # search.ep /\ search.stat = 1
               /\ search.tcount = StampLength /\ LogCell(search.rp) = "]"
               /\ search.reccount = search.recnum
               /\ SearchFound(search, search.rp - (StampLength + 1))
      BY <1>0, <1>5, <2>1, <3>2, HeadFinds
    <3>3. CASE search'.doing \in {"head", "outside"}
      BY <3>3 DEF RecordsAreFound
    <3> QED
      BY <1>1, <3>1, <3>2, <3>3
  <2> QED
    BY <2>3, <2>4
<1> QED
  BY <1>4, <1>5

\* One turn of a search from the tail.
LEMMA BackwardTurns ==
    ASSUME LogBufInd, SearchBackward
    PROVE  LET ch == LogCell(search.rp)
               ends == search.stat = 1 /\ search.tcount = StampLength
               found == ends /\ ch = "["
           IN  \/ search.rp = search.sp /\ SearchFound(search, search.rp)
               \/ /\ search.rp # search.sp /\ found /\ search.reccount + 1 = search.recnum
                  /\ SearchFound(search, search.rp)
               \/ /\ search.rp # search.sp /\ ~ (found /\ search.reccount + 1 = search.recnum)
                  /\ search'.stat = IF search.stat = 0 THEN IF ch = "]" THEN 1 ELSE 0
                                    ELSE IF ~ ends /\ ch = "9" THEN 1 ELSE 0
                  /\ search'.tcount = IF search.stat = 1 /\ ~ ends /\ ch = "9" THEN search.tcount + 1 ELSE 0
                  /\ search'.reccount = IF found THEN search.reccount + 1 ELSE search.reccount
                  /\ search'.rp = IF search.rp = 0 THEN LogSize - 1 ELSE search.rp - 1
                  /\ search'.recnum = search.recnum /\ search'.doing = "tail"
                  /\ search'.kind = search.kind /\ search'.sp = search.sp /\ search'.ep = search.ep
                  /\ UNCHANGED <<logWriterVars, log_rp, to_print, printed, meanwhile>>
<1> DEFINE ch == LogCell(search.rp)
           ends == search.stat = 1 /\ search.tcount = StampLength
           found == ends /\ ch = "["
           st == IF search.stat = 0 THEN IF ch = "]" THEN 1 ELSE 0
                 ELSE IF ~ ends /\ ch = "9" THEN 1 ELSE 0
           tc == IF search.stat = 1 /\ ~ ends /\ ch = "9" THEN search.tcount + 1 ELSE 0
           rc == IF found THEN search.reccount + 1 ELSE search.reccount
           nx == IF search.rp = 0 THEN LogSize - 1 ELSE search.rp - 1
           s == [Looked(search) EXCEPT
                   !.stat = IF search.stat = 0 THEN IF ch = "]" THEN 1 ELSE 0
                            ELSE IF ~ ends /\ ch = "9" THEN 1 ELSE 0,
                   !.tcount = IF search.stat = 1 /\ ~ ends /\ ch = "9" THEN @ + 1 ELSE 0,
                   !.reccount = IF found THEN @ + 1 ELSE @,
                   !.rp = IF @ = 0 THEN LogSize - 1 ELSE @ - 1]
<1>1. search \in Searches /\ search.doing = "tail"
  BY DEF LogBufInd, SearchBackward
<1>2. \/ search.rp = search.sp /\ SearchFound(search, search.rp)
      \/ /\ search.rp # search.sp /\ found /\ search.reccount + 1 = search.recnum
         /\ SearchFound(search, search.rp)
      \/ search.rp # search.sp /\ ~ (found /\ search.reccount + 1 = search.recnum) /\ SearchGoes(s)
  BY Zenon DEF SearchBackward
<1>3. ASSUME SearchGoes(s)
      PROVE  /\ search'.stat = st /\ search'.tcount = tc /\ search'.reccount = rc
             /\ search'.rp = nx /\ search'.recnum = search.recnum /\ search'.doing = "tail"
             /\ search'.kind = search.kind /\ search'.sp = search.sp /\ search'.ep = search.ep
             /\ UNCHANGED <<logWriterVars, log_rp, to_print, printed, meanwhile>>
  <2>1. search' = s /\ UNCHANGED <<logWriterVars, log_rp, to_print, printed, meanwhile>>
    BY <1>3 DEF SearchGoes
  <2>2. PICK l : Looked(search) = [search EXCEPT !.looked = l]
    BY DEF Looked
  <2>3. PICK t, c, r, n : t = st /\ c = tc /\ r = rc /\ n = nx
    OBVIOUS
  <2>4. s = [search EXCEPT !.looked = l, !.stat = t, !.tcount = c, !.reccount = r, !.rp = n]
    BY <1>1, <2>2, <2>3 DEF Searches
  <2> HIDE DEF s, st, tc, rc, nx
  <2> QED
    BY <1>1, <2>1, <2>3, <2>4 DEF Searches
<1> HIDE DEF s
<1> QED
  BY <1>2, <1>3

\* Where a search from the tail is.
LEMMA TailPlaces ==
    ASSUME LogBufInd, LinesFit, search.doing = "tail", TailCounts,
           NEW b, NEW o, NEW n, NEW N, NEW L,
           b = OldestByte, o = TextOffset(search.rp), n = TextLength, N = LogSize, L = StampLength
    PROVE  /\ b \in Nat /\ o \in Nat /\ n \in Nat /\ N \in Nat /\ L \in Nat \ {0}
           /\ L + 2 < N /\ b < N /\ n <= N /\ o <= n /\ o < N
           /\ LogCells = 0..(N - 1)
           /\ o = n => LogText[o] \notin {"[", "]", "9"}
           /\ search.rp \in LogCells /\ search.sp = b
           /\ search.rp = search.sp <=> o = 0
           /\ o > 0 => TextOffset(IF search.rp = 0 THEN N - 1 ELSE search.rp - 1) = o - 1
           /\ search.kind = "tail"
<1>0. /\ log_wp \in LogCells /\ search.rp \in LogCells /\ search.kind = "tail"
  BY DEF LogBufInd, SearchFits
<1>1. /\ N \in Nat /\ L \in Nat \ {0} /\ L + 2 < N /\ LogCells = 0..(N - 1)
  BY LogNumbers
<1>2. /\ b \in 0..(N - 1) /\ o \in 0..(N - 1) /\ n \in 0..N
      /\ TextCell(o) = search.rp
  BY <1>0, <1>1, TextNumbers
<1>3. search.rp = IF b + o < N THEN b + o ELSE b + o - N
  BY <1>2 DEF TextCell
<1>4. search.sp = b /\ o <= n
  BY DEF TailCounts, SearchStart, OldestByte
<1>5. search.rp = search.sp <=> o = 0
  BY <1>1, <1>2, <1>3, <1>4
<1>6. ASSUME o = n
      PROVE  LogText[o] \notin {"[", "]", "9"}
  <2>1. ~ flg_buff_full /\ b = 0 /\ n = log_wp
    <3>1. flg_buff_full => n = N
      BY DEF TextLength
    <3>2. ~ flg_buff_full
      BY <1>1, <1>2, <1>6, <3>1
    <3> QED
      BY <3>2 DEF TextLength, OldestByte
  <2>2. o \in LogCells /\ TextCell(o) = o
    BY <1>1, <1>2, <2>1 DEF TextCell
  <2>3. LogText[o] = log_buf[o]
    BY <2>2, TextChars
  <2>4. log_wp <= o
    BY <1>0, <1>1, <1>6, <2>1
  <2>5. log_buf[o] = ""
    BY <2>1, <2>2, <2>4 DEF LinesFit
  <2> QED
    BY <2>3, <2>5, Zenon
<1>7. ASSUME o > 0
      PROVE  TextOffset(IF search.rp = 0 THEN N - 1 ELSE search.rp - 1) = o - 1
  <2>1. PICK r \in Int : r = IF search.rp = 0 THEN N - 1 ELSE search.rp - 1
    BY <1>0, <1>1
  <2>2. TextOffset(r) = IF b <= r THEN r - b ELSE r - b + N
    BY DEF TextOffset
  <2>3. TextOffset(r) = o - 1
    <3>1. CASE b + o < N
      <4>1. r = b + o - 1
        BY <1>1, <1>2, <1>3, <1>7, <2>1, <3>1
      <4> QED
        BY <1>1, <1>2, <1>7, <2>2, <4>1
    <3>2. CASE b + o = N
      <4>1. r = N - 1
        BY <1>1, <1>2, <1>3, <2>1, <3>2
      <4> QED
        BY <1>1, <1>2, <2>2, <3>2, <4>1
    <3>3. CASE b + o > N
      <4>1. r = b + o - N - 1
        BY <1>1, <1>2, <1>3, <2>1, <3>3
      <4> QED
        BY <1>1, <1>2, <2>2, <3>3, <4>1
    <3> QED
      BY <1>1, <1>2, <3>1, <3>2, <3>3
  <2> QED
    BY <2>1, <2>3
<1>8. b < N /\ n <= N /\ o < N /\ b \in Nat /\ o \in Nat /\ n \in Nat
  BY <1>1, <1>2
<1> QED
  BY <1>0, <1>1, <1>4, <1>5, <1>6, <1>7, <1>8, Zenon

\* The stamp that begins at a byte is the next one, from the tail.
LEMMA TailCountsOn ==
    ASSUME LogBufInd, LinesFit, search.doing = "tail", TailCounts,
           NEW o, o = TextOffset(search.rp)
    PROVE  /\ \A j \in Stamps : /\ j \in LogCells /\ TextOffset(j) \in Nat
                                /\ TextOffset(j) = o <=> j = search.rp
                                /\ LogDistance(OldestByte, j) = TextOffset(j)
           /\ LogDistance(OldestByte, search.rp) = o
           /\ search.rp \in Stamps <=> o + StampLength + 1 < TextLength /\ LogText[o] = "["
           /\ search.rp \notin BegunBehind(o)
           /\ IF search.rp \in Stamps THEN BegunBehind(o - 1) = BegunBehind(o) \cup {search.rp}
              ELSE BegunBehind(o - 1) = BegunBehind(o)
<1>1. PICK b, n, N, L : b = OldestByte /\ n = TextLength /\ N = LogSize /\ L = StampLength
  OBVIOUS
<1>2. /\ b \in Nat /\ o \in Nat /\ n \in Nat /\ N \in Nat /\ L \in Nat \ {0}
      /\ LogCells = 0..(N - 1) /\ search.rp \in LogCells /\ search.kind = "tail"
  BY <1>1, TailPlaces
<1>3. log_wp \in LogCells
  BY DEF LogBufInd
<1>4. search.rp \in Stamps <=> o + StampLength + 1 < TextLength /\ LogText[o] = "["
  BY <1>2, StampsAre
<1>5. ASSUME NEW j \in Stamps
      PROVE  /\ j \in LogCells /\ TextOffset(j) \in Nat
             /\ TextOffset(j) = o <=> j = search.rp
             /\ LogDistance(OldestByte, j) = TextOffset(j)
  <2>1. j \in LogCells
    BY DEF Stamps
  <2>2. TextOffset(j) \in LogCells /\ TextCell(TextOffset(j)) = j /\ TextCell(o) = search.rp
    BY <1>2, <1>3, <2>1, TextNumbers
  <2>3. TextOffset(j) \in Nat
    BY <1>2, <2>2
  <2>4. LogDistance(OldestByte, j) = TextOffset(j)
    BY <1>3, <2>1, OffsetIsDistance
  <2> QED
    BY <2>1, <2>2, <2>3, <2>4
<1>6. search.rp \notin BegunBehind(o)
  BY <1>2 DEF BegunBehind
<1>7. ASSUME NEW j
      PROVE  j \in BegunBehind(o - 1) <=> j \in BegunBehind(o) \/ (j = search.rp /\ j \in Stamps)
  <2>1. j \in BegunBehind(o - 1) <=> j \in Stamps /\ TextOffset(j) > o - 1
    BY DEF BegunBehind
  <2>2. j \in BegunBehind(o) <=> j \in Stamps /\ TextOffset(j) > o
    BY DEF BegunBehind
  <2>3. j \in Stamps => (TextOffset(j) > o - 1 <=> TextOffset(j) > o \/ j = search.rp)
    BY <1>2, <1>5
  <2> QED
    BY <2>1, <2>2, <2>3
<1>8. IF search.rp \in Stamps THEN BegunBehind(o - 1) = BegunBehind(o) \cup {search.rp}
      ELSE BegunBehind(o - 1) = BegunBehind(o)
  <2> HIDE DEF BegunBehind
  <2>1. CASE search.rp \in Stamps
    <3>1. ASSUME NEW j
          PROVE  j \in BegunBehind(o - 1) <=> j \in BegunBehind(o) \cup {search.rp}
      BY <1>7, <2>1
    <3>2. BegunBehind(o - 1) = BegunBehind(o) \cup {search.rp}
      BY <3>1
    <3> QED
      BY <2>1, <3>2
  <2>2. CASE search.rp \notin Stamps
    <3>1. ASSUME NEW j
          PROVE  j \in BegunBehind(o - 1) <=> j \in BegunBehind(o)
      BY <1>7, <2>2
    <3>2. BegunBehind(o - 1) \subseteq BegunBehind(o) /\ BegunBehind(o) \subseteq BegunBehind(o - 1)
      BY <3>1
    <3>3. BegunBehind(o - 1) = BegunBehind(o)
      BY <3>2
    <3> QED
      BY <2>2, <3>3
  <2> QED
    BY <2>1, <2>2
<1>9. LogDistance(OldestByte, search.rp) = o
  BY <1>2, <1>3, OffsetIsDistance
<1> QED
  BY <1>4, <1>5, <1>6, <1>8, <1>9

\* A record that is found from the tail is the one with so many behind it.
LEMMA TailFinds ==
    ASSUME LogBufInd, LinesFit, search.doing = "tail", TailCounts,
           SearchFound(search, search.rp),
           \/ search.rp = search.sp
           \/ /\ search.stat = 1 /\ search.tcount = StampLength /\ LogCell(search.rp) = "["
              /\ search.reccount + 1 = search.recnum
    PROVE  RecordsAreFound'
<1>1. PICK b, o, n, N, L :
        /\ b = OldestByte /\ o = TextOffset(search.rp) /\ n = TextLength /\ N = LogSize /\ L = StampLength
  OBVIOUS
<1>2. /\ b \in Nat /\ o \in Nat /\ n \in Nat /\ N \in Nat /\ L \in Nat \ {0}
      /\ LogCells = 0..(N - 1) /\ o <= n
      /\ o = n => LogText[o] \notin {"[", "]", "9"}
      /\ search.rp \in LogCells /\ search.sp = b
      /\ search.rp = search.sp <=> o = 0
      /\ search.kind = "tail" /\ search \in Searches
  BY <1>1, TailPlaces DEF LogBufInd
<1>3. PICK r \in LogCells : r = search.rp
  BY <1>2
<1>4. /\ \A j \in Stamps : /\ j \in LogCells /\ TextOffset(j) \in Nat
                           /\ TextOffset(j) = o <=> j = r
                           /\ LogDistance(OldestByte, j) = TextOffset(j)
      /\ LogDistance(OldestByte, r) = o
      /\ r \in Stamps <=> o + L + 1 < n /\ LogText[o] = "["
      /\ r \notin BegunBehind(o)
  BY <1>1, <1>3, TailCountsOn
<1>5. /\ search' = [search EXCEPT !.doing = "idle", !.rp = 0, !.stat = 0, !.tcount = 0]
      /\ log_rp' = r /\ UNCHANGED <<log_buf, log_wp, flg_buff_full>>
  BY <1>3 DEF SearchFound, logWriterVars
<1>6. search'.kind = "tail" /\ search'.recnum = search.recnum
  BY <1>2, <1>5 DEF Searches
<1>7. Stamps' = Stamps /\ StampsBefore(log_rp)' = StampsBefore(r) /\ OldestByte' = b
  <2>1. Stamps' = Stamps
    BY <1>2, <1>5, <1>6, StampsStay
  <2>2. OldestByte' = OldestByte
    BY <1>5 DEF OldestByte
  <2>3. StampsBefore(log_rp)' = {j \in Stamps : LogDistance(OldestByte, j) < LogDistance(OldestByte, r)}
    BY <1>5, <2>1, <2>2 DEF StampsBefore, LogDistance
  <2> QED
    BY <1>1, <2>1, <2>2, <2>3 DEF StampsBefore
<1>8. PICK c, a, m : c = Cardinality(BegunBehind(o)) /\ a = Cardinality(StampsBefore(r)) /\ m = Cardinality(Stamps)
  OBVIOUS
<1>9. /\ c \in Nat /\ a \in Nat /\ m \in Nat /\ c <= m /\ a <= m
      /\ IsFiniteSet(BegunBehind(o)) /\ IsFiniteSet(StampsBefore(r))
  <2>1. BegunBehind(o) \subseteq Stamps /\ StampsBefore(r) \subseteq Stamps
    BY DEF BegunBehind, StampsBefore
  <2> QED
    BY <1>8, <2>1, StampsAreFinite
<1>10. ASSUME r \in Stamps
       PROVE  a + c + 1 = m
  <2>1. ASSUME NEW j
        PROVE  j \in Stamps <=> j \in StampsBefore(r) \/ j \in BegunBehind(o) \/ j = r
    <3>1. j \in Stamps => (TextOffset(j) < o \/ TextOffset(j) > o \/ j = r)
      BY <1>2, <1>4
    <3>2. j \in StampsBefore(r) <=> j \in Stamps /\ TextOffset(j) < o
      BY <1>4 DEF StampsBefore
    <3>3. j \in BegunBehind(o) <=> j \in Stamps /\ TextOffset(j) > o
      BY DEF BegunBehind
    <3> QED
      BY <1>10, <3>1, <3>2, <3>3
  <2>2. Stamps = (StampsBefore(r) \cup BegunBehind(o)) \cup {r}
    BY <2>1
  <2>3. StampsBefore(r) \cap BegunBehind(o) = {}
    <3>1. ASSUME NEW j \in StampsBefore(r), j \in BegunBehind(o)
          PROVE  FALSE
      BY <1>2, <1>4, <3>1 DEF StampsBefore, BegunBehind
    <3> QED
      BY <3>1
  <2>4. r \notin StampsBefore(r) \cup BegunBehind(o)
    <3>1. r \notin StampsBefore(r)
      BY <1>2, <1>4 DEF StampsBefore
    <3> QED
      BY <1>4, <3>1
  <2>5. IsFiniteSet(StampsBefore(r) \cup BegunBehind(o))
        /\ Cardinality(StampsBefore(r) \cup BegunBehind(o)) = a + c - Cardinality({})
    <3>1. PICK A, B : A = StampsBefore(r) /\ B = BegunBehind(o)
      OBVIOUS
    <3>2. IsFiniteSet(A) /\ IsFiniteSet(B) /\ A \cap B = {}
      BY <1>9, <2>3, <3>1
    <3>3. /\ IsFiniteSet(A \cup B)
          /\ Cardinality(A \cup B) = Cardinality(A) + Cardinality(B) - Cardinality(A \cap B)
      BY <3>2, FS_Union, SMTT(30)
    <3> QED
      BY <1>8, <3>1, <3>2, <3>3
  <2>6. Cardinality(StampsBefore(r) \cup BegunBehind(o)) = a + c
    BY <1>9, <2>5, FS_EmptySet
  <2>7. m = a + c + 1
    <3>1. PICK S : S = StampsBefore(r) \cup BegunBehind(o)
      OBVIOUS
    <3>2. IsFiniteSet(S) /\ r \notin S /\ Stamps = S \cup {r} /\ Cardinality(S) = a + c
      BY <2>2, <2>4, <2>5, <2>6, <3>1
    <3>3. Cardinality(S \cup {r}) = Cardinality(S) + 1
      BY <3>2, FS_AddElement
    <3> QED
      BY <1>8, <3>2, <3>3
  <2> QED
    BY <2>7
<1>11. /\ search.reccount = c /\ (search.recnum = 0 \/ c < search.recnum)
       /\ search.recnum \in Nat
  BY <1>1, <1>2, <1>8 DEF TailCounts, Searches
<1>12. CASE r = search.sp
  <2>1. o = 0 /\ r = b
    BY <1>2, <1>3, <1>12
  <2>2. ASSUME search.recnum \in 1..m
        PROVE  r \in Stamps /\ a = m - search.recnum
    <3>1. c < search.recnum
      BY <1>11, <2>2
    <3>2. r \in Stamps
      <4>1. SUFFICES ASSUME r \notin Stamps PROVE FALSE
        OBVIOUS
      <4>2. ASSUME NEW j \in Stamps
            PROVE  j \in BegunBehind(o)
        BY <1>4, <2>1, <4>1 DEF BegunBehind
      <4>3. BegunBehind(o) = Stamps
        BY <4>2 DEF BegunBehind
      <4> QED
        BY <1>8, <1>9, <1>11, <2>2, <3>1, <4>3
    <3>3. a = 0
      <4>1. StampsBefore(r) = {}
        BY <1>4, <2>1 DEF StampsBefore
      <4> QED
        BY <1>8, <4>1, FS_EmptySet
    <3>4. c + 1 = m
      BY <1>9, <1>10, <3>2, <3>3
    <3> QED
      BY <1>9, <1>11, <2>2, <3>1, <3>2, <3>3, <3>4
  <2> QED
    BY <1>5, <1>6, <1>7, <1>8, <2>1, <2>2 DEF RecordsAreFound
<1>13. CASE /\ search.stat = 1 /\ search.tcount = StampLength /\ LogCell(search.rp) = "["
            /\ search.reccount + 1 = search.recnum /\ r # search.sp
  <2>1. LogText[o] = "["
    BY <1>1, <1>3, <1>13, TextChars
  <2>2. o \in 0..(n - 1)
    BY <1>2, <2>1
  <2>3. r \in Stamps
    <3>1. o + 1 + L < n
      BY <1>1, <1>13 DEF TailCounts, TailReads
    <3> QED
      BY <1>2, <1>4, <2>1, <3>1
  <2>4. search.recnum = c + 1 /\ a = m - search.recnum /\ search.recnum \in 1..m
    BY <1>9, <1>10, <1>11, <1>13, <2>3
  <2> QED
    BY <1>5, <1>6, <1>7, <1>8, <2>3, <2>4 DEF RecordsAreFound
<1> QED
  BY <1>3, <1>12, <1>13

\* A search from the tail that goes on has counted what it has read.
LEMMA TailCountsMore ==
    ASSUME LogBufInd, LinesFit, SearchBackward, TailCounts, search'.doing = "tail"
    PROVE  TailCounts'
<1> DEFINE ch == LogCell(search.rp)
           ends == search.stat = 1 /\ search.tcount = StampLength
           found == ends /\ ch = "["
<1>0. search \in Searches /\ search.doing = "tail"
  BY DEF LogBufInd, SearchBackward
<1>1. /\ search.rp # search.sp /\ ~ (found /\ search.reccount + 1 = search.recnum)
      /\ search'.stat = IF search.stat = 0 THEN IF ch = "]" THEN 1 ELSE 0
                        ELSE IF ~ ends /\ ch = "9" THEN 1 ELSE 0
      /\ search'.tcount = IF search.stat = 1 /\ ~ ends /\ ch = "9" THEN search.tcount + 1 ELSE 0
      /\ search'.reccount = IF found THEN search.reccount + 1 ELSE search.reccount
      /\ search'.rp = IF search.rp = 0 THEN LogSize - 1 ELSE search.rp - 1
      /\ search'.recnum = search.recnum
      /\ search'.kind = search.kind /\ search'.sp = search.sp /\ search'.ep = search.ep
      /\ UNCHANGED <<logWriterVars, log_rp, to_print, printed, meanwhile>>
  <2>1. ASSUME SearchFound(search, search.rp)
        PROVE  FALSE
    <3>1. search'.doing = "idle"
      BY <1>0, <2>1 DEF SearchFound, Searches
    <3> QED
      BY <3>1
  <2> QED
    BY <2>1, BackwardTurns
<1>2. UNCHANGED <<log_buf, log_wp, flg_buff_full>>
  BY <1>1 DEF logWriterVars
<1>3. PICK b, o, n, N, L, t :
        /\ b = OldestByte /\ o = TextOffset(search.rp) /\ n = TextLength /\ N = LogSize /\ L = StampLength
        /\ t = LogText
  OBVIOUS
<1>4. /\ b \in Nat /\ o \in Nat /\ n \in Nat /\ N \in Nat /\ L \in Nat \ {0}
      /\ LogCells = 0..(N - 1) /\ o <= n /\ o < N
      /\ o = n => t[o] \notin {"[", "]", "9"}
      /\ search.rp \in LogCells
      /\ search.rp = search.sp <=> o = 0
      /\ o > 0 => TextOffset(IF search.rp = 0 THEN N - 1 ELSE search.rp - 1) = o - 1
  BY <1>0, <1>3, TailPlaces
<1>5. PICK q \in Nat : q = o - 1 /\ o > 0 /\ o \in 1..n
  <2>1. o - 1 \in Nat /\ o > 0 /\ o \in 1..n
    BY <1>1, <1>4
  <2> QED
    BY <2>1
<1>6. t[o] = ch
  BY <1>3, <1>4, TextChars
<1>7. TextFits(t, n) /\ TailReads(t, n, o, search.stat, search.tcount)
  BY <1>3 DEF LinesFit, TailCounts
<1>8. search.stat \in {0, 1} /\ search.tcount \in 0..StampLength /\ search.reccount \in Nat /\ search.recnum \in Nat
  BY <1>0 DEF Searches
<1>9. PICK st, c, r : st = search'.stat /\ c = search'.tcount /\ r = search'.reccount
  OBVIOUS
<1>10. /\ st = IF search.stat = 0 THEN IF t[o] = "]" THEN 1 ELSE 0
               ELSE IF search.tcount < StampLength /\ t[o] = "9" THEN 1 ELSE 0
       /\ c = IF search.stat = 1 /\ search.tcount < StampLength /\ t[o] = "9" THEN search.tcount + 1 ELSE 0
  <2>1. search.tcount < StampLength <=> search.tcount # StampLength
    BY <1>8, LogNumbers
  <2> QED
    BY <1>1, <1>6, <1>8, <1>9, <2>1
<1>11. /\ TailReads(t, n, q, st, c)
       /\ found <=> o + L + 1 < n /\ t[o] = "["
  <2>1. /\ TailReads(t, n, o - 1, st, c)
        /\ search.stat = 1 /\ search.tcount = StampLength /\ t[o] = "[" <=>
                o + StampLength + 1 < n /\ t[o] = "["
    <3>1. PICK sa \in {0, 1}, ta \in 0..StampLength : sa = search.stat /\ ta = search.tcount
      BY <1>8
    <3>2. /\ st = IF sa = 0 THEN IF t[o] = "]" THEN 1 ELSE 0
                   ELSE IF ta < StampLength /\ t[o] = "9" THEN 1 ELSE 0
          /\ c = IF sa = 1 /\ ta < StampLength /\ t[o] = "9" THEN ta + 1 ELSE 0
          /\ TextFits(t, n) /\ TailReads(t, n, o, sa, ta)
      BY <1>7, <1>10, <3>1
    <3>3. n \in Nat /\ o \in 1..n /\ (o = n => t[o] \notin {"[", "]", "9"})
      BY <1>4, <1>5
    <3>4. /\ TailReads(t, n, o - 1, st, c)
          /\ sa = 1 /\ ta = StampLength /\ t[o] = "[" <=>
                o + StampLength + 1 < n /\ t[o] = "["
      BY <3>2, <3>3, TailReadsOn
    <3> QED
      BY <3>1, <3>4
  <2> QED
    BY <1>3, <1>5, <1>6, <2>1
<1>12. r = Cardinality(BegunBehind(q))
  <2>1. search.reccount = Cardinality(BegunBehind(o))
    BY <1>3 DEF TailCounts
  <2>2. /\ search.rp \in Stamps <=> found
        /\ search.rp \notin BegunBehind(o)
        /\ IF search.rp \in Stamps THEN BegunBehind(o - 1) = BegunBehind(o) \cup {search.rp}
           ELSE BegunBehind(o - 1) = BegunBehind(o)
    BY <1>0, <1>3, <1>11, TailCountsOn
  <2>3. CASE found
    <3>1. BegunBehind(q) = BegunBehind(o) \cup {search.rp}
      BY <1>5, <2>2, <2>3
    <3>2. IsFiniteSet(BegunBehind(o))
      <4>1. BegunBehind(o) \subseteq Stamps
        BY DEF BegunBehind
      <4> QED
        BY <4>1, StampsAreFinite
    <3>3. Cardinality(BegunBehind(q)) = Cardinality(BegunBehind(o)) + 1
      BY <2>2, <3>1, <3>2, FS_AddElement
    <3> QED
      BY <1>1, <1>9, <2>1, <2>3, <3>3
  <2>4. CASE ~ found
    <3>1. BegunBehind(q) = BegunBehind(o)
      BY <1>5, <2>2, <2>4
    <3> QED
      BY <1>1, <1>9, <2>1, <2>4, <3>1
  <2> QED
    BY <2>3, <2>4
<1>13. search.recnum = 0 \/ r < search.recnum
  <2>1. search.recnum = 0 \/ search.reccount < search.recnum
    BY DEF TailCounts
  <2> QED
    BY <1>1, <1>8, <1>9, <2>1
<1>14. /\ OldestByte' = OldestByte /\ LogText' = t /\ SearchStart' = SearchStart /\ TextLength' = n
       /\ BegunBehind(q)' = BegunBehind(q)
  BY <1>1, <1>2, <1>3, StampsStay
<1>15. TextOffset(search.rp)' = q
  <2>1. TextOffset(search.rp)' = TextOffset(IF search.rp = 0 THEN N - 1 ELSE search.rp - 1)
    BY <1>1, <1>2, <1>3 DEF TextOffset, OldestByte
  <2> QED
    BY <1>4, <1>5, <2>1
<1>16. Cardinality(BegunBehind(TextOffset(search.rp)))' = Cardinality(BegunBehind(q))
  <2>1. BegunBehind(TextOffset(search.rp))' = {j \in Stamps' : TextOffset(j)' > q}
    BY <1>15 DEF BegunBehind
  <2>2. BegunBehind(q)' = {j \in Stamps' : TextOffset(j)' > q}
    BY DEF BegunBehind
  <2> QED
    BY <1>14, <2>1, <2>2
<1>17. search.sp = SearchStart
  BY DEF TailCounts
<1>18. TailReads(LogText, TextLength, TextOffset(search.rp), search.stat, search.tcount)'
  <2>1. TailReads(LogText, TextLength, TextOffset(search.rp), search.stat, search.tcount)'
          <=> TailReads(t, n, q, st, c)
    BY <1>9, <1>14, <1>15 DEF TailReads
  <2> QED
    BY <1>11, <2>1
<1>19. q <= n
  BY <1>4, <1>5
<1> QED
  BY <1>1, <1>9, <1>12, <1>13, <1>14, <1>15, <1>16, <1>17, <1>18, <1>19 DEF TailCounts

\* A search from the tail counts what it reads, and finds what is sought.
LEMMA BackwardKeepsRecords ==
    ASSUME LogBufInd, LinesFit, SearchCounts, SearchBackward
    PROVE  SearchCounts' /\ RecordsAreFound'
<1>0. search \in Searches /\ search.doing = "tail" /\ search.kind = "tail"
  BY DEF LogBufInd, SearchFits, SearchBackward
<1>1. /\ search'.kind = search.kind /\ search'.sp = search.sp /\ search'.ep = search.ep
      /\ meanwhile' = meanwhile
      /\ search'.doing = "tail" \/ search'.doing = "idle"
      /\ \/ search'.doing = "tail"
         \/ /\ SearchFound(search, search.rp)
            /\ \/ search.rp = search.sp
               \/ /\ search.stat = 1 /\ search.tcount = StampLength /\ LogCell(search.rp) = "["
                  /\ search.reccount + 1 = search.recnum
  <2>1. ASSUME SearchFound(search, search.rp)
        PROVE  /\ search'.kind = search.kind /\ search'.sp = search.sp /\ search'.ep = search.ep
               /\ meanwhile' = meanwhile /\ search'.doing = "idle"
    BY <1>0, <2>1 DEF SearchFound, Searches
  <2> QED
    BY <2>1, BackwardTurns
<1>2. ~ Strays
  BY <1>0 DEF Strays
<1>3. CASE meanwhile # 0
  BY <1>1, <1>3 DEF SearchCounts, RecordsAreFound
<1>4. CASE meanwhile = 0
  <2>1. TailCounts
    BY <1>0, <1>2, <1>4 DEF SearchCounts
  <2>2. CASE search'.doing = "tail"
    <3>1. TailCounts'
      BY <2>1, <2>2, TailCountsMore
    <3> QED
      BY <2>2, <3>1 DEF SearchCounts, RecordsAreFound
  <2>3. CASE search'.doing # "tail"
    <3>1. RecordsAreFound'
      BY <1>0, <1>1, <2>1, <2>3, TailFinds
    <3>2. SearchCounts'
      BY <1>1, <2>3 DEF SearchCounts
    <3> QED
      BY <3>1, <3>2
  <2> QED
    BY <2>2, <2>3
<1> QED
  BY <1>3, <1>4

\* A search begins with nothing read.
LEMMA SeekKeepsRecords ==
    ASSUME LogBufInd, NEW kind \in {"head", "tail"}, Seek(kind)
    PROVE  SearchCounts' /\ RecordsAreFound'
<1>1. PICK recnum \in 0..MaxRecords :
         search' = [NoScan EXCEPT !.doing = kind, !.kind = kind, !.recnum = recnum,
                                !.rp = IF kind = "tail" THEN SearchEnd ELSE SearchStart,
                                !.sp = SearchStart, !.ep = SearchEnd]
  BY DEF Seek
<1>2. PICK a, e : a = SearchStart /\ e = SearchEnd
  OBVIOUS
<1>3. /\ search'.doing = kind /\ search'.kind = kind /\ search'.recnum = recnum /\ search'.sp = a
      /\ search'.ep = e /\ search'.rp = (IF kind = "tail" THEN e ELSE a)
      /\ search'.stat = 0 /\ search'.tcount = 0 /\ search'.reccount = 0
  BY <1>1, <1>2 DEF NoScan
<1>4. UNCHANGED <<log_buf, log_wp, flg_buff_full>>
  BY DEF Seek, logWriterVars
<1>5. PICK b \in Nat, n \in Nat, N \in Nat \ {0}, w \in Nat, L \in Nat :
        /\ b = OldestByte /\ n = TextLength /\ N = LogSize /\ w = log_wp /\ w < N /\ LogCells = 0..(N - 1)
        /\ flg_buff_full => b = w /\ n = N /\ a = w /\ e = IF w = 0 THEN N - 1 ELSE w - 1
        /\ ~ flg_buff_full => b = 0 /\ n = w /\ a = 0 /\ e = w
        /\ L = StampLength
  <2>1. log_wp \in Nat /\ log_wp < LogSize /\ LogSize \in Nat \ {0} /\ LogCells = 0..(LogSize - 1)
        /\ StampLength \in Nat
    BY LogNumbers DEF LogBufInd
  <2>2. OldestByte \in Nat /\ TextLength \in Nat
    BY <2>1 DEF OldestByte, TextLength
  <2> QED
    BY <1>2, <2>1, <2>2 DEF OldestByte, TextLength, SearchStart, SearchEnd
<1>6. \A i : TextOffset(i)' = IF b <= i THEN i - b ELSE i - b + N
  BY <1>4, <1>5 DEF TextOffset, OldestByte
<1>7. /\ OldestByte' = b /\ SearchStart' = a /\ SearchEnd' = e /\ TextLength' = n
  BY <1>2, <1>4, <1>5, StampsStay
<1>8. PICK o, z : o = TextOffset(search.rp)' /\ z = TextOffset(search.ep)'
  OBVIOUS
<1>9. z = IF flg_buff_full THEN N - 1 ELSE n
  BY <1>3, <1>5, <1>6, <1>8
<1>10. o = IF kind = "tail" THEN z ELSE 0
  BY <1>3, <1>5, <1>6, <1>8
<1>11. ASSUME NEW i \in Stamps'
       PROVE  TextOffset(i)' \in Nat /\ TextOffset(i)' + L + 1 < n
  <2>1. i \in LogCells /\ LogDistance(OldestByte', i) + L + 1 < n
    BY <1>5, <1>7 DEF Stamps, LogDistance
  <2>2. LogDistance(OldestByte', i) = TextOffset(i)'
    <3>1. b \in LogCells /\ i \in 0..(N - 1)
      BY <1>5, <2>1
    <3>2. LogDistance(b, i) = IF b <= i THEN i - b ELSE i - b + N
      BY <1>5, <2>1, <3>1, RingNumbers
    <3> QED
      BY <1>6, <1>7, <3>2
  <2>3. TextOffset(i)' \in Nat
    BY <1>5, <1>6, <2>1
  <2> QED
    BY <2>1, <2>2, <2>3
<1>12. CASE kind = "head"
  <2>1. EndedBefore(TextOffset(search.rp))' = {}
    <3>1. o = 0
      BY <1>10, <1>12
    <3>2. ASSUME NEW i \in Stamps', TextOffset(i)' + L + 1 < o
          PROVE  FALSE
      BY <1>5, <1>11, <3>1, <3>2
    <3> QED
      BY <1>5, <1>8, <3>2 DEF EndedBefore
  <2>2. search'.reccount = Cardinality(EndedBefore(TextOffset(search.rp)))'
    BY <1>3, <2>1, FS_EmptySet
  <2>3. search'.reccount <= search'.recnum
    BY <1>3, LogNumbers
  <2>4. o <= z
    BY <1>5, <1>9, <1>10, <1>12
  <2>5. HeadReads(LogText, TextOffset(search.rp), TextOffset(LogSize - 1), search.stat, search.tcount)'
    <3>1. o = 0 /\ search'.stat = 0
      BY <1>3, <1>10, <1>12
    <3>2. 0..(o - 1) = {}
      BY <3>1
    <3> QED
      BY <1>8, <3>1, <3>2 DEF HeadReads
  <2>6. HeadCounts'
    BY <1>3, <1>7, <1>8, <2>2, <2>3, <2>4, <2>5 DEF HeadCounts
  <2> QED
    BY <1>3, <1>12, <2>6 DEF SearchCounts, RecordsAreFound
<1>13. CASE kind = "tail"
  <2>1. o = z /\ z <= n /\ n <= z + 1 /\ z \in Nat
    BY <1>5, <1>9, <1>10, <1>13
  <2>2. BegunBehind(TextOffset(search.rp))' = {}
    <3>1. ASSUME NEW i \in Stamps', TextOffset(i)' > o
          PROVE  FALSE
      BY <1>5, <1>11, <2>1, <3>1
    <3> QED
      BY <1>8, <3>1 DEF BegunBehind
  <2>3. search'.reccount = Cardinality(BegunBehind(TextOffset(search.rp)))'
    BY <1>3, <2>2, FS_EmptySet
  <2>4. search'.recnum = 0 \/ search'.reccount < search'.recnum
    <3>1. recnum \in Nat
      BY LogNumbers
    <3> QED
      BY <1>3, <3>1
  <2>5. TailReads(LogText, TextLength, TextOffset(search.rp), search.stat, search.tcount)'
    <3>1. (o + 1)..(n - 1) = {} /\ search'.stat = 0
      BY <1>3, <1>5, <2>1
    <3> QED
      BY <1>7, <1>8, <3>1 DEF TailReads
  <2>6. TailCounts'
    BY <1>3, <1>7, <1>8, <2>1, <2>3, <2>4, <2>5 DEF TailCounts
  <2> QED
    BY <1>3, <1>13, <2>6 DEF SearchCounts, RecordsAreFound
<1> QED
  BY <1>12, <1>13

\* What was found stays found until the log or the search changes.
LEMMA FoundStays ==
    ASSUME UNCHANGED <<log_buf, log_wp, flg_buff_full, log_rp, search, to_print, printed, meanwhile>>,
           SearchCounts, RecordsAreFound
    PROVE  SearchCounts' /\ RecordsAreFound'
<1>1. UNCHANGED <<OldestByte, TextLength, LogText, SearchStart, SearchEnd>>
  BY StampsStay
<1>2. \A i : TextOffset(i)' = TextOffset(i)
  BY StampsStay
<1>3. Stamps' = Stamps /\ (\A o : EndedBefore(o)' = EndedBefore(o)) /\ (\A o : BegunBehind(o)' = BegunBehind(o))
      /\ StampsBefore(log_rp)' = StampsBefore(log_rp)
  <2>1. search'.kind = search.kind
    OBVIOUS
  <2>2. Stamps' = Stamps
    BY <2>1, StampsStay
  <2> QED
    BY <1>1, <1>2, <2>2 DEF EndedBefore, BegunBehind, StampsBefore
<1>4. Strays' <=> Strays
  BY DEF Strays
<1>5. TextOffset(search.rp)' = TextOffset(search.rp) /\ TextOffset(search.ep)' = TextOffset(search.ep)
      /\ TextOffset(LogSize - 1)' = TextOffset(LogSize - 1)
  BY <1>1 DEF TextOffset
<1>6. HeadCounts' <=> HeadCounts
  <2>1. Cardinality(EndedBefore(TextOffset(search.rp)))' = Cardinality(EndedBefore(TextOffset(search.rp)))
    BY <1>2, <1>3, <1>5 DEF EndedBefore
  <2>2. HeadReads(LogText, TextOffset(search.rp), TextOffset(LogSize - 1), search.stat, search.tcount)'
          <=> HeadReads(LogText, TextOffset(search.rp), TextOffset(LogSize - 1), search.stat, search.tcount)
    BY <1>1, <1>5 DEF HeadReads
  <2> QED
    BY <1>1, <1>5, <2>1, <2>2 DEF HeadCounts
<1>7. TailCounts' <=> TailCounts
  <2>1. Cardinality(BegunBehind(TextOffset(search.rp)))' = Cardinality(BegunBehind(TextOffset(search.rp)))
    BY <1>2, <1>3, <1>5 DEF BegunBehind
  <2>2. TailReads(LogText, TextLength, TextOffset(search.rp), search.stat, search.tcount)'
          <=> TailReads(LogText, TextLength, TextOffset(search.rp), search.stat, search.tcount)
    BY <1>1, <1>5 DEF TailReads
  <2> QED
    BY <1>1, <1>5, <2>1, <2>2 DEF TailCounts
<1>8. SearchCounts'
  BY <1>4, <1>6, <1>7 DEF SearchCounts
<1>9. RecordsAreFound'
  BY <1>1, <1>3, <1>4 DEF RecordsAreFound, LogDistance
<1> QED
  BY <1>8, <1>9

\* A byte that is written ends what is known of the search, or the search is past.
LEMMA PutcKeepsRecords ==
    ASSUME LogBufInd, LinesFit, LogPutc
    PROVE  SearchCounts' /\ RecordsAreFound'
<1>1. CASE search' = NoScan
  <2>1. search'.doing = "idle" /\ search'.kind = "none"
    BY <1>1, NoScanFits
  <2> QED
    BY <2>1 DEF SearchCounts, RecordsAreFound
<1>2. CASE meanwhile' # 0
  BY <1>2 DEF SearchCounts, RecordsAreFound
<1>3. search' = NoScan \/ meanwhile' # 0
  <2>1. MaxMeanwhile \in Nat \ {0} /\ meanwhile \in Nat
    BY LogBufAssumption DEF LinesFit
  <2>2. search' = NoScan \/ meanwhile' = IF meanwhile < MaxMeanwhile THEN meanwhile + 1 ELSE meanwhile
    BY DEF LogPutc
  <2> QED
    BY <2>1, <2>2
<1> QED
  BY <1>1, <1>2, <1>3

-----------------------------------------------------------------------------
(* Printing a record. *)

\* Reading goes on at the next byte.
LEMMA ReadingOn ==
    ASSUME LogBufInd
    PROVE  /\ UnreadBytes \in 0..(2 * LogSize) /\ (UnreadBytes = 0 <=> log_rp = log_wp)
           /\ ToRead(0) = LogCell(log_rp)
           /\ ReadCell(UnreadBytes) = log_wp
           /\ \A k \in 0..(UnreadBytes - 1) : ReadCell(k) # log_wp
<1>1. PICK N \in Nat, L \in Nat, r \in Int, w \in Int :
        /\ N = LogSize /\ L = StampLength /\ L + 2 < N /\ r = log_rp /\ w = log_wp
        /\ -L - 1 <= r /\ r < N /\ 0 <= w /\ w < N
  <2>1. log_rp \in (-StampLength - 1)..(LogSize - 1) /\ log_wp \in 0..(LogSize - 1)
    BY LogNumbers DEF LogBufInd
  <2>2. LogSize \in Nat /\ StampLength \in Nat /\ StampLength + 2 < LogSize
    BY LogNumbers
  <2>3. log_rp \in Int /\ log_wp \in Int /\ -StampLength - 1 <= log_rp /\ log_rp < LogSize
        /\ 0 <= log_wp /\ log_wp < LogSize
    BY <2>1, <2>2
  <2> QED
    BY <2>2, <2>3
<1>2. UnreadBytes = IF w >= r THEN w - r ELSE w - r + N
  BY <1>1 DEF UnreadBytes
<1>3. \A k : ReadCell(k) = IF r + k < N THEN r + k ELSE r + k - N
  BY <1>1 DEF ReadCell
<1>4. PICK u \in Int : u = UnreadBytes /\ u = (IF w >= r THEN w - r ELSE w - r + N)
  <2>1. (IF w >= r THEN w - r ELSE w - r + N) \in Int
    OBVIOUS
  <2> QED
    BY <1>2, <2>1
<1>5. u >= 0 /\ u <= 2 * N /\ (u = 0 <=> r = w)
  BY <1>1, <1>4
<1>6. ReadCell(u) = w
  BY <1>1, <1>3, <1>4
<1>7. ASSUME NEW k \in 0..(u - 1)
      PROVE  ReadCell(k) # w
  BY <1>1, <1>3, <1>4
<1>8. ToRead(0) = LogCell(log_rp)
  <2>1. ReadCell(0) = r
    BY <1>1, <1>3
  <2> QED
    BY <1>1, <2>1 DEF ToRead
<1> QED
  BY <1>1, <1>4, <1>5, <1>6, <1>7, <1>8

\* The bytes behind the next one are those behind it.
LEMMA ReadingNext ==
    ASSUME LogBufInd, log_rp # log_wp, log_rp' = NextRead(log_rp), UNCHANGED <<log_buf, log_wp>>
    PROVE  /\ UnreadBytes' = UnreadBytes - 1
           /\ \A k \in 0..(UnreadBytes - 1) : ToRead(k)' = ToRead(k + 1)
<1>1. PICK N \in Nat, L \in Nat, r \in Int, w \in Int :
        /\ N = LogSize /\ L = StampLength /\ L + 2 < N /\ r = log_rp /\ w = log_wp
        /\ -L - 1 <= r /\ r < N /\ 0 <= w /\ w < N
  <2>1. log_rp \in (-StampLength - 1)..(LogSize - 1) /\ log_wp \in 0..(LogSize - 1)
    BY LogNumbers DEF LogBufInd
  <2>2. LogSize \in Nat /\ StampLength \in Nat /\ StampLength + 2 < LogSize
    BY LogNumbers
  <2>3. log_rp \in Int /\ log_wp \in Int /\ -StampLength - 1 <= log_rp /\ log_rp < LogSize
        /\ 0 <= log_wp /\ log_wp < LogSize
    BY <2>1, <2>2
  <2> QED
    BY <2>2, <2>3
<1>2. PICK s \in Int : s = log_rp' /\ s = IF r + 1 >= N THEN 0 ELSE r + 1
  BY <1>1 DEF NextRead
<1>3. PICK u \in Int : u = UnreadBytes /\ u = (IF w >= r THEN w - r ELSE w - r + N)
  <2>1. (IF w >= r THEN w - r ELSE w - r + N) \in Int
    OBVIOUS
  <2>2. UnreadBytes = IF w >= r THEN w - r ELSE w - r + N
    BY <1>1 DEF UnreadBytes
  <2> QED
    BY <2>1, <2>2
<1>4. UnreadBytes' = IF w >= s THEN w - s ELSE w - s + N
  BY <1>1, <1>2 DEF UnreadBytes
<1>5. UnreadBytes' = u - 1
  <2>1. r # w
    BY <1>1
  <2>2. CASE r + 1 >= N
    BY <1>1, <1>2, <1>3, <1>4, <2>1, <2>2
  <2>3. CASE ~ r + 1 >= N
    BY <1>1, <1>2, <1>3, <1>4, <2>1, <2>3
  <2> QED
    BY <2>2, <2>3
<1>6. ASSUME NEW k \in 0..(u - 1)
      PROVE  ToRead(k)' = ToRead(k + 1)
  <2>1. ReadCell(k)' = IF s + k < N THEN s + k ELSE s + k - N
    BY <1>1, <1>2 DEF ReadCell
  <2>2. ReadCell(k + 1) = IF r + (k + 1) < N THEN r + (k + 1) ELSE r + (k + 1) - N
    BY <1>1 DEF ReadCell
  <2>3. ReadCell(k)' = ReadCell(k + 1)
    <3>1. k \in Int /\ 0 <= k /\ k <= u - 1 /\ u <= N + w - r /\ u <= 2 * N
      BY <1>1, <1>3
    <3>2. CASE r + 1 >= N
      BY <1>1, <1>2, <1>3, <2>1, <2>2, <3>1, <3>2
    <3>3. CASE ~ r + 1 >= N
      BY <1>1, <1>2, <2>1, <2>2, <3>1, <3>3
    <3> QED
      BY <3>2, <3>3
  <2>4. ASSUME NEW i
        PROVE  LogCell(i)' = LogCell(i)
    BY DEF LogCell
  <2>5. PICK i : i = ReadCell(k)' /\ i = ReadCell(k + 1)
    BY <2>3
  <2>6. ToRead(k)' = LogCell(i)' /\ ToRead(k + 1) = LogCell(i)
    BY <2>5 DEF ToRead, LogCell
  <2> QED
    BY <2>4, <2>6
<1> QED
  BY <1>3, <1>5, <1>6

\* What is unread are the bytes up to the writer's.
LEMMA UnreadIs ==
    ASSUME LogBufInd
    PROVE  /\ Unread = [k \in 1..UnreadBytes |-> ReadCell(k - 1)]
           /\ Len(Unread) = UnreadBytes
<1> DEFINE place == [k \in 0..(2 * LogSize) |-> IF log_rp + k < LogSize THEN log_rp + k ELSE (log_rp + k) - LogSize]
           there(n) == place[n] = log_wp /\ \A k \in 0..(n - 1) : place[k] # log_wp
           n == CHOOSE n \in 0..(2 * LogSize) : there(n)
<1>1. Unread = [k \in 1..n |-> place[k - 1]]
  BY DEF Unread, LogBufInd
<1>2. PICK U \in Nat, N \in Nat : U = UnreadBytes /\ N = 2 * LogSize /\ U \in 0..N
  BY ReadingOn, LogNumbers
<1>3. \A k \in 0..N : place[k] = ReadCell(k)
  <2>1. ASSUME NEW k \in 0..(2 * LogSize)
        PROVE  place[k] = ReadCell(k)
    <3>1. PICK r \in Int, s \in Nat, i \in Int : r = log_rp /\ s = LogSize /\ i = k
      BY LogNumbers DEF LogBufInd
    <3>2. place[k] = IF r + i < s THEN r + i ELSE (r + i) - s
      BY <3>1
    <3>3. ReadCell(k) = IF r + i < s THEN r + i ELSE r + i - s
      BY <3>1 DEF ReadCell
    <3> HIDE DEF place
    <3> QED
      BY <3>2, <3>3
  <2> HIDE DEF place
  <2> QED
    BY <1>2, <2>1
<1>4. ReadCell(U) = log_wp /\ \A k \in 0..(U - 1) : ReadCell(k) # log_wp
  BY <1>2, ReadingOn
<1> HIDE DEF place
<1>5. there(U)
  <2>1. ASSUME NEW k \in 0..(U - 1)
        PROVE  place[k] # log_wp
    <3>1. k \in 0..N
      BY <1>2
    <3> QED
      BY <1>3, <1>4, <3>1
  <2> QED
    BY <1>2, <1>3, <1>4, <2>1
<1>6. ASSUME NEW m \in 0..N, there(m)
      PROVE  m = U
  <2>1. ~ m < U
    <3>1. SUFFICES ASSUME m < U PROVE FALSE
      OBVIOUS
    <3>2. m \in 0..(U - 1)
      BY <1>2, <3>1
    <3> QED
      BY <1>3, <1>4, <1>6, <3>2
  <2>2. ~ U < m
    <3>1. SUFFICES ASSUME U < m PROVE FALSE
      OBVIOUS
    <3>2. U \in 0..(m - 1)
      BY <1>2, <3>1
    <3> QED
      BY <1>5, <1>6, <3>2
  <2> QED
    BY <1>2, <2>1, <2>2
<1> HIDE DEF there
<1>7. n = U
  <2>1. \E m \in 0..(2 * LogSize) : there(m)
    BY <1>2, <1>5
  <2>2. n \in 0..(2 * LogSize) /\ there(n)
    BY <2>1
  <2> HIDE DEF n
  <2> QED
    BY <1>2, <1>6, <2>2
<1> HIDE DEF n
<1>8. Unread = [k \in 1..U |-> ReadCell(k - 1)]
  <2>1. ASSUME NEW k \in 1..U
        PROVE  place[k - 1] = ReadCell(k - 1)
    <3>1. k - 1 \in 0..N
      BY <1>2
    <3> QED
      BY <1>3, <3>1
  <2> QED
    BY <1>1, <1>7, <2>1
<1>9. Len(Unread) = U
  BY <1>2, <1>8
<1> QED
  BY <1>2, <1>8, <1>9

\* Which of the first n cells of u end a line: GET_LINESIZE looks for a new line, and
\* begins anew behind it.
IsNewLines(newline, u, n) ==
    newline = [k \in 0..n |-> k > 0 /\ ~ newline[k - 1] /\ LogCell(u[k]) = "\n"]
NewLines(u) == CHOOSE newline : IsNewLines(newline, u, Len(u))

\* GET_LINESIZE by them.
LEMMA LineSizeByNewLines ==
    LineSize = LET ends == {k \in 1..(Len(Unread) - 1) : NewLines(Unread)[k] /\ LogCell(Unread[k + 1]) = "["}
               IN  IF ends = {} THEN Len(Unread) ELSE CHOOSE k \in ends : \A l \in ends : k <= l
BY DEF LineSize, NewLines, IsNewLines

\* One cell, after the one before it.
LEMMA NewLineStep ==
    ASSUME NEW f, NEW u, NEW n \in Nat, IsNewLines(f, u, n), NEW k \in 0..n
    PROVE  f[k] = (k > 0 /\ ~ f[k - 1] /\ LogCell(u[k]) = "\n")
BY Zenon DEF IsNewLines

\* They can be told, one after the other.
LEMMA NewLinesAre ==
    ASSUME NEW u, Len(u) \in Nat
    PROVE  IsNewLines(NewLines(u), u, Len(u))
<1> DEFINE untold == {n \in 0..Len(u) : ~ \E f : IsNewLines(f, u, n)}
<1>1. untold = {}
  <2> SUFFICES ASSUME untold # {} PROVE FALSE
    OBVIOUS
  <2>1. untold \subseteq Nat
    OBVIOUS
  <2>2. PICK n \in untold : \A m \in untold : n <= m
    <3> HIDE DEF untold
    <3> QED
      BY <2>1, MinOfNaturals
  <2>3. n \in 0..Len(u) /\ ~ \E f : IsNewLines(f, u, n)
    OBVIOUS
  <2>4. CASE n = 0
    <3> DEFINE g == [k \in 0..0 |-> FALSE]
    <3>1. ASSUME NEW k \in 0..0
          PROVE  (k > 0 /\ ~ g[k - 1] /\ LogCell(u[k]) = "\n") = FALSE
      BY <3>1
    <3>2. g = [k \in 0..0 |-> k > 0 /\ ~ g[k - 1] /\ LogCell(u[k]) = "\n"]
      <4> HIDE DEF g
      <4>1. [k \in 0..0 |-> k > 0 /\ ~ g[k - 1] /\ LogCell(u[k]) = "\n"] = [k \in 0..0 |-> FALSE]
        BY <3>1
      <4> QED
        BY <4>1 DEF g
    <3>3. IsNewLines(g, u, 0)
      BY <3>2 DEF IsNewLines
    <3> QED
      BY <2>3, <2>4, <3>3
  <2>5. CASE n # 0
    <3>1. PICK m \in Nat : m = n - 1 /\ n = m + 1 /\ m \in 0..Len(u)
      BY <2>3, <2>5
    <3>2. m \notin untold
      BY <2>2, <3>1
    <3>3. PICK f : IsNewLines(f, u, m)
      BY <3>1, <3>2
    <3> DEFINE last == ~ f[m] /\ LogCell(u[n]) = "\n"
               g == [k \in 0..n |-> IF k = n THEN last ELSE f[k]]
    <3>4. ASSUME NEW k \in 0..n
          PROVE  (IF k = n THEN last ELSE f[k]) = (k > 0 /\ ~ g[k - 1] /\ LogCell(u[k]) = "\n")
      <4>1. CASE k = n
        <5>1. k - 1 = m /\ m \in 0..n /\ m # n /\ k > 0
          BY <3>1, <4>1
        <5>2. g[m] = f[m]
          BY <5>1
        <5> HIDE DEF g
        <5>3. (k > 0 /\ ~ g[k - 1] /\ LogCell(u[k]) = "\n") = (~ f[m] /\ LogCell(u[n]) = "\n")
          BY <4>1, <5>1, <5>2
        <5> QED
          BY <4>1, <5>3
      <4>2. CASE k # n
        <5>1. k \in 0..m
          BY <3>1, <4>2
        <5>2. f[k] = (k > 0 /\ ~ f[k - 1] /\ LogCell(u[k]) = "\n")
          BY <3>3, <5>1, NewLineStep
        <5>3. k > 0 => g[k - 1] = f[k - 1]
          <6>1. k > 0 => k - 1 \in 0..n /\ k - 1 # n
            BY <3>1, <5>1
          <6> QED
            BY <6>1
        <5> HIDE DEF g
        <5>4. (k > 0 /\ ~ g[k - 1] /\ LogCell(u[k]) = "\n") = (k > 0 /\ ~ f[k - 1] /\ LogCell(u[k]) = "\n")
          BY <5>3
        <5> QED
          BY <4>2, <5>2, <5>4
      <4> QED
        BY <4>1, <4>2
    <3>5. IsNewLines(g, u, n)
      <4>1. g = [k \in 0..n |-> k > 0 /\ ~ g[k - 1] /\ LogCell(u[k]) = "\n"]
        <5>1. PICK h : h = g
          OBVIOUS
        <5>2. \A k \in 0..n : (IF k = n THEN last ELSE f[k]) = (k > 0 /\ ~ h[k - 1] /\ LogCell(u[k]) = "\n")
          BY <3>4, <5>1
        <5>3. h = [k \in 0..n |-> IF k = n THEN last ELSE f[k]]
          BY <5>1
        <5> HIDE DEF g, last
        <5>4. h = [k \in 0..n |-> k > 0 /\ ~ h[k - 1] /\ LogCell(u[k]) = "\n"]
          BY <5>2, <5>3
        <5> QED
          BY <5>1, <5>4
      <4> HIDE DEF g
      <4> QED
        BY <4>1 DEF IsNewLines
    <3> QED
      BY <2>3, <3>5
  <2> QED
    BY <2>4, <2>5
<1>2. \E f : IsNewLines(f, u, Len(u))
  <2>1. Len(u) \in 0..Len(u)
    OBVIOUS
  <2> QED
    BY <1>1, <2>1
<1> QED
  BY <1>2 DEF NewLines

\* A record ends at its first new line before a "[", or with the log.
LEMMA RecordEnds ==
    ASSUME LogBufInd, NEW z, z = LineSize
    PROVE  /\ z \in 0..UnreadBytes
           /\ z = UnreadBytes \/ ToRead(z) = "["
           /\ z > 1 /\ ToRead(0) = "\n" => ToRead(1) # "["
           /\ \A j \in 1..(z - 2) : ToRead(j) = "\n" /\ ToRead(j + 1) = "[" => ToRead(j - 1) = "\n"
<1> DEFINE u == Unread
           U == Len(u)
           f == NewLines(u)
           ends == {k \in 1..(U - 1) : f[k] /\ LogCell(u[k + 1]) = "["}
<1>0. z = IF ends = {} THEN U ELSE CHOOSE k \in ends : \A l \in ends : k <= l
  BY Zenon, LineSizeByNewLines
<1>1. U \in Nat /\ U = UnreadBytes
  BY UnreadIs, ReadingOn, LogNumbers
<1>2. u = [k \in 1..U |-> ReadCell(k - 1)]
  BY UnreadIs
<1>3. IsNewLines(f, u, U)
  BY <1>1, NewLinesAre
<1> HIDE DEF u, U, f
<1>4. ASSUME NEW k \in 0..(U - 1)
      PROVE  LogCell(u[k + 1]) = ToRead(k)
  <2>1. k + 1 \in 1..U /\ k + 1 - 1 = k
    BY <1>1
  <2>2. u[k + 1] = ReadCell(k)
    BY <1>2, <2>1
  <2> QED
    BY <2>2 DEF ToRead
<1>5. f[0] = FALSE
  <2>1. 0 \in 0..U /\ ~ 0 > 0
    BY <1>1
  <2>2. f[0] = (0 > 0 /\ ~ f[0 - 1] /\ LogCell(u[0]) = "\n")
    BY <1>1, <1>3, <2>1, NewLineStep
  <2> QED
    BY <2>1, <2>2
<1>6. ASSUME NEW k \in 0..(U - 1)
      PROVE  f[k + 1] = (~ f[k] /\ ToRead(k) = "\n")
  <2>1. k + 1 \in 0..U /\ k + 1 > 0 /\ k + 1 - 1 = k
    BY <1>1
  <2>2. f[k + 1] = (k + 1 > 0 /\ ~ f[k + 1 - 1] /\ LogCell(u[k + 1]) = "\n")
    BY <1>1, <1>3, <2>1, NewLineStep
  <2> QED
    BY <1>4, <2>1, <2>2
<1>7. z = IF ends = {} THEN U ELSE CHOOSE k \in ends : \A l \in ends : k <= l
  BY <1>0
<1>8. /\ z \in ends \/ (ends = {} /\ z = U)
      /\ \A k \in ends : z <= k
  <2>1. ends \subseteq Nat
    OBVIOUS
  <2> HIDE DEF ends
  <2>2. CASE ends # {}
    <3>1. \E k \in ends : \A l \in ends : k <= l
      BY <2>1, <2>2, MinOfNaturals
    <3> QED
      BY <1>7, <2>2, <3>1
  <2> QED
    BY <1>7, <2>2
<1>9. z \in 0..U
  BY <1>1, <1>8
<1>10. z = U \/ ToRead(z) = "["
  <2>1. ASSUME z \in ends
        PROVE  ToRead(z) = "["
    <3>1. z \in 0..(U - 1) /\ LogCell(u[z + 1]) = "["
      BY <2>1
    <3> QED
      BY <1>4, <3>1
  <2> QED
    BY <1>8, <2>1
<1>11. ASSUME NEW k \in 1..(z - 1), ToRead(k) = "["
       PROVE  ~ f[k]
  <2>1. k \in 1..(U - 1) /\ k \in 0..(U - 1) /\ ~ z <= k
    BY <1>1, <1>9
  <2>2. k \notin ends
    BY <1>8, <2>1
  <2>3. LogCell(u[k + 1]) = "["
    BY <1>4, <1>11, <2>1
  <2> QED
    BY <2>1, <2>2, <2>3
<1>12. ASSUME z > 1, ToRead(0) = "\n", ToRead(1) = "["
       PROVE  FALSE
  <2>1. 1 \in 1..(z - 1) /\ 0 \in 0..(U - 1) /\ 0 + 1 = 1
    BY <1>1, <1>9, <1>12
  <2>2. f[0 + 1] = (~ f[0] /\ ToRead(0) = "\n")
    BY <1>6, <2>1
  <2>3. ~ f[1]
    BY <1>11, <1>12, <2>1
  <2>4. f[1] = (~ f[0] /\ ToRead(0) = "\n")
    BY <2>1, <2>2
  <2> QED
    BY <1>5, <1>12, <2>3, <2>4
<1>13. ASSUME NEW j \in 1..(z - 2), ToRead(j) = "\n", ToRead(j + 1) = "["
       PROVE  ToRead(j - 1) = "\n"
  <2>1. PICK i \in 0..(U - 1), k \in 1..(z - 1) : i = j - 1 /\ j = i + 1 /\ k = j + 1 /\ j \in 0..(U - 1)
    <3>1. j - 1 \in 0..(U - 1) /\ j + 1 \in 1..(z - 1) /\ j = (j - 1) + 1 /\ j \in 0..(U - 1)
      BY <1>1, <1>9
    <3> QED
      BY <3>1
  <2>2. ~ f[k]
    BY <1>11, <1>13, <2>1
  <2>3. f[k] = (~ f[j] /\ ToRead(j) = "\n")
    BY <1>6, <2>1
  <2>4. f[j]
    BY <1>13, <2>2, <2>3
  <2>5. f[j] = (~ f[i] /\ ToRead(i) = "\n")
    BY <1>6, <2>1
  <2> QED
    BY <2>1, <2>4, <2>5
<1> HIDE DEF ends
<1> QED
  BY <1>1, <1>9, <1>10, <1>12, <1>13

\* A print begins with a whole record before it.
LEMMA AskLineSizeKeepsRecords ==
    ASSUME LogBufInd, AskLineSize
    PROVE  SearchCounts' /\ RecordsAreFound' /\ PrintFits'
<1>1. /\ search.doing = "idle" /\ LineSize > 0 /\ to_print' = LineSize /\ printed' = <<>>
      /\ search' = [NoScan EXCEPT !.kind = search.kind]
      /\ UNCHANGED <<log_buf, log_wp, log_rp, meanwhile>>
  BY DEF AskLineSize, logWriterVars
<1>2. search'.doing = "idle"
  BY <1>1, NoScanFits DEF Searches
<1>3. PICK z \in Nat : z = LineSize /\ z > 0
  BY <1>1, LineSizeBound, LogNumbers
<1>4. /\ z \in 0..UnreadBytes
      /\ z = UnreadBytes \/ ToRead(z) = "["
      /\ z > 1 /\ ToRead(0) = "\n" => ToRead(1) # "["
      /\ \A j \in 1..(z - 2) : ToRead(j) = "\n" /\ ToRead(j + 1) = "[" => ToRead(j - 1) = "\n"
  BY <1>3, RecordEnds
<1>5. UnreadBytes' = UnreadBytes /\ \A k : ToRead(k)' = ToRead(k)
  BY <1>1 DEF UnreadBytes, ToRead, LogCell, ReadCell
<1>6. z <= UnreadBytes
  BY <1>4, ReadingOn, LogNumbers
<1>7. RecordPrints'
  <2>1. Len(printed') = 0
    BY <1>1
  <2>2. \A k \in 1..(0 - 1) : FALSE
    OBVIOUS
  <2>3. PICK p \in Nat : p = Len(printed') /\ p = 0
    BY <2>1
  <2>4. \A k \in 1..(p - 1) : FALSE
    BY <2>3
  <2>5. ~ (p > 0)
    BY <2>3
  <2> QED
    BY <1>1, <1>3, <1>4, <1>5, <1>6, <2>3, <2>4, <2>5 DEF RecordPrints
<1>8. PrintFits'
  BY <1>1, <1>2, <1>7, StampChars DEF PrintFits
<1>9. SearchCounts'
  BY <1>2 DEF SearchCounts
<1>10. RecordsAreFound'
  <2>1. to_print' # 0
    BY <1>1, <1>3
  <2> QED
    BY <2>1 DEF RecordsAreFound
<1> QED
  BY <1>8, <1>9, <1>10

\* A byte of the record that is read is the next one that is printed.
LEMMA ReadByteKeepsRecords ==
    ASSUME LogBufInd, SearchCounts, PrintFits, ReadByte
    PROVE  SearchCounts' /\ RecordsAreFound' /\ PrintFits'
<1>0. /\ to_print > 0 /\ to_print \in Nat /\ search.doing = "idle" /\ printed \in Seq(LogChars)
      /\ UNCHANGED <<log_buf, log_wp, search, meanwhile>>
  <2>1. to_print \in Nat
    BY LogNumbers DEF LogBufInd
  <2> QED
    BY <2>1 DEF ReadByte, PrintFits, logWriterVars
<1>1. SearchCounts'
  BY <1>0 DEF SearchCounts
<1>2. CASE log_rp = log_wp
  <2>1. to_print' = 0 /\ UNCHANGED <<log_rp, printed>>
    BY <1>2 DEF ReadByte
  <2>2. UnreadBytes = 0
    BY <1>2, ReadingOn
  <2>3. ~ (meanwhile = 0 /\ search.kind \in {"head", "tail"})
    <3>1. ~ (to_print <= UnreadBytes)
      BY <1>0, <2>2
    <3> QED
      BY <1>0, <3>1 DEF PrintFits, RecordPrints
  <2>4. RecordsAreFound'
    BY <1>0, <2>3 DEF RecordsAreFound
  <2>5. PrintFits'
    BY <1>0, <2>1, <2>3 DEF PrintFits, RecordPrints
  <2> QED
    BY <1>1, <2>4, <2>5
<1>3. CASE log_rp # log_wp
  <2>1. printed' = Append(printed, LogCell(log_rp)) /\ log_rp' = NextRead(log_rp) /\ to_print' = to_print - 1
    BY <1>3 DEF ReadByte
  <2>2. PICK c \in LogChars : c = LogCell(log_rp) /\ c = ToRead(0)
    <3>1. LogCell(log_rp) \in LogChars
      BY DEF LogCell, LogBufInd, LogChars
    <3> QED
      BY <3>1, ReadingOn
  <2>3. PICK p \in Nat : p = Len(printed)
    BY <1>0, LenProperties
  <2>4. /\ printed' \in Seq(LogChars) /\ Len(printed') = p + 1 /\ printed' # <<>>
        /\ \A k \in 1..p : printed'[k] = printed[k]
        /\ printed'[p + 1] = c
    BY <1>0, <2>1, <2>2, <2>3, AppendProperties
  <2>5. RecordsAreFound'
    BY <2>4 DEF RecordsAreFound
  <2>6. RecordPrints'
    <3> SUFFICES ASSUME meanwhile = 0, search.kind \in {"head", "tail"}
                 PROVE  RecordPrints'
      BY <1>0 DEF RecordPrints
    <3>1. PICK U \in Nat, n \in Nat : U = UnreadBytes /\ n = to_print /\ n > 0
      BY <1>0, ReadingOn, LogNumbers
    <3>2. /\ n <= U
          /\ \A k \in 1..(p - 1) : printed[k] = "\n" /\ printed[k + 1] = "[" => k > 1 /\ printed[k - 1] = "\n"
          /\ p > 0 /\ printed[p] = "\n" /\ c = "[" => p > 1 /\ printed[p - 1] = "\n"
          /\ n > 1 /\ c = "\n" /\ ToRead(1) = "[" => p > 0 /\ printed[p] = "\n"
          /\ \A j \in 1..(n - 2) : ToRead(j) = "\n" /\ ToRead(j + 1) = "[" => ToRead(j - 1) = "\n"
          /\ n = U \/ ToRead(n) = "["
      BY <2>2, <2>3, <3>1 DEF PrintFits, RecordPrints
    <3>3. PICK m \in Nat : m = n - 1 /\ n = m + 1 /\ m = to_print'
      BY <2>1, <3>1
    <3>4. /\ UnreadBytes' = U - 1
          /\ \A k \in 0..(U - 1) : ToRead(k)' = ToRead(k + 1)
      BY <1>0, <1>3, <2>1, <3>1, ReadingNext
    <3>5. m <= U - 1
      BY <3>1, <3>2, <3>3
    <3>6. m = U - 1 \/ ToRead(m)' = "["
      <4>1. m \in 0..(U - 1)
        BY <3>1, <3>5
      <4> QED
        BY <3>1, <3>2, <3>3, <3>4, <4>1
    <3>7. ASSUME NEW k \in 1..p, printed'[k] = "\n", printed'[k + 1] = "["
          PROVE  k > 1 /\ printed'[k - 1] = "\n"
      <4>1. printed'[k] = printed[k] /\ (k > 1 => printed'[k - 1] = printed[k - 1])
        <5>1. k > 1 => k - 1 \in 1..p
          OBVIOUS
        <5> QED
          BY <2>4, <5>1
      <4>2. CASE k = p
        BY <2>4, <3>2, <3>7, <4>1, <4>2
      <4>3. CASE k # p
        <5>1. k \in 1..(p - 1) /\ k + 1 \in 1..p
          BY <4>3
        <5>2. printed'[k + 1] = printed[k + 1]
          BY <2>4, <5>1
        <5> QED
          BY <3>2, <3>7, <4>1, <5>1, <5>2
      <4> QED
        BY <4>2, <4>3
    <3>8. ASSUME m > 0, c = "\n", ToRead(0)' = "["
          PROVE  p > 0 /\ printed[p] = "\n"
      <4>1. 0 \in 0..(U - 1) /\ 0 + 1 = 1 /\ n > 1
        BY <3>1, <3>2, <3>3, <3>8
      <4>2. ToRead(1) = "["
        BY <3>4, <3>8, <4>1
      <4> QED
        BY <3>2, <3>8, <4>1, <4>2
    <3>9. ASSUME m > 1, ToRead(0)' = "\n", ToRead(1)' = "["
          PROVE  c = "\n"
      <4>1. 0 \in 0..(U - 1) /\ 0 + 1 = 1 /\ 1 \in 0..(U - 1) /\ 1 + 1 = 2 /\ 1 \in 1..(n - 2) /\ 1 - 1 = 0
        BY <3>1, <3>2, <3>3, <3>9
      <4>2. ToRead(1) = "\n" /\ ToRead(1 + 1) = "["
        BY <3>4, <3>9, <4>1
      <4>3. ToRead(1 - 1) = "\n"
        BY <3>2, <4>1, <4>2
      <4> QED
        BY <2>2, <4>1, <4>3
    <3>10. ASSUME NEW j \in 1..(m - 2), ToRead(j)' = "\n", ToRead(j + 1)' = "["
           PROVE  ToRead(j - 1)' = "\n"
      <4>1. PICK i \in 0..(U - 1), k \in 1..(n - 2) :
              i = j - 1 /\ k = j + 1 /\ k = i + 2 /\ i + 1 = j /\ k - 1 = j
        <5>1. j - 1 \in 0..(U - 1) /\ j + 1 \in 1..(n - 2) /\ j + 1 = (j - 1) + 2 /\ (j - 1) + 1 = j /\ (j + 1) - 1 = j
          BY <3>1, <3>2, <3>3
        <5> QED
          BY <5>1
      <4>2. j \in 0..(U - 1) /\ k \in 0..(U - 1)
        BY <3>1, <3>2, <3>3, <4>1
      <4>3. ToRead(j)' = ToRead(k) /\ ToRead(k)' = ToRead(k + 1) /\ ToRead(i)' = ToRead(j)
        BY <3>4, <4>1, <4>2
      <4>4. ToRead(k) = "\n" /\ ToRead(k + 1) = "["
        BY <3>10, <4>1, <4>3
      <4>5. ToRead(k - 1) = "\n"
        BY <3>2, <4>4
      <4> QED
        BY <4>1, <4>3, <4>5
    <3>11. PICK q \in Nat : q = Len(printed') /\ q = p + 1 /\ q - 1 = p /\ q > 0
      BY <2>4
    <3>12. printed'[q] = c /\ (q > 1 => p > 0 /\ printed'[q - 1] = printed[p]) /\ (p > 0 => q > 1)
      <4>1. q > 1 => p \in 1..p
        BY <3>11
      <4> QED
        BY <2>4, <3>11, <4>1
    <3>13. to_print' = m /\ UnreadBytes' = U - 1
      BY <3>3, <3>4
    <3>14. /\ m <= U - 1
           /\ \A k \in 1..(q - 1) : printed'[k] = "\n" /\ printed'[k + 1] = "[" => k > 1 /\ printed'[k - 1] = "\n"
           /\ q > 0 /\ m > 0 /\ printed'[q] = "\n" /\ ToRead(0)' = "[" => q > 1 /\ printed'[q - 1] = "\n"
           /\ m > 1 /\ ToRead(0)' = "\n" /\ ToRead(1)' = "[" => q > 0 /\ printed'[q] = "\n"
           /\ \A j \in 1..(m - 2) : ToRead(j)' = "\n" /\ ToRead(j + 1)' = "[" => ToRead(j - 1)' = "\n"
           /\ m = U - 1 \/ ToRead(m)' = "["
      BY <3>5, <3>6, <3>7, <3>8, <3>9, <3>10, <3>11, <3>12
    <3> QED
      BY <3>11, <3>13, <3>14 DEF RecordPrints
  <2>7. PrintFits'
    BY <1>0, <2>4, <2>6 DEF PrintFits
  <2> QED
    BY <1>1, <2>5, <2>7
<1> QED
  BY <1>2, <1>3

-----------------------------------------------------------------------------
(* The records of the log. *)

\* An empty log is one that no line is missing from.
LEMMA LogRecordsBegin == LogBufInit => LogRecordsInd
<1> SUFFICES ASSUME LogBufInit PROVE LogRecordsInd
  OBVIOUS
<1>1. /\ log_buf = [i \in LogCells |-> ""] /\ log_wp = 0 /\ ~ flg_buff_full /\ log_message = <<>>
      /\ search = NoScan /\ to_print = 0 /\ printed = <<>> /\ meanwhile = 0
  BY DEF LogBufInit
<1>2. search.doing = "idle" /\ search.kind = "none"
  BY <1>1, NoScanFits
<1>a. log_message = <<>> /\ to_print = 0 /\ printed = <<>> /\ meanwhile = 0
  BY <1>1, Zenon
<1>b. log_wp = 0 /\ ~ flg_buff_full
  BY <1>1, Zenon
<1>3. LinesFit
  <2>1. Len(log_message) = 0 /\ 0 <= StampLength + 3
    BY <1>a, LogNumbers
  <2>2. TextLength = 0
    BY <1>b DEF TextLength
  <2>3. 0..(0 - 1) = {}
    OBVIOUS
  <2>4. TextFits(LogText, 0) /\ MessageFits(LogText, 0, Written)
    BY <2>3 DEF TextFits, MessageFits
  <2>5. \A i \in 1..Len(log_message) : LineByte(Written + i - 1, log_message[i])
    BY <2>1
  <2>6. \A i \in LogCells : log_buf[i] = ""
    BY <1>1, Zenon
  <2>7. meanwhile \in Nat
    BY <1>a
  <2>8. Len(log_message) <= StampLength + 3
    BY <2>1
  <2> QED
    BY <2>2, <2>4, <2>5, <2>6, <2>7, <2>8, Zenon DEF LinesFit
<1>4. SearchCounts /\ RecordsAreFound
  BY <1>2 DEF SearchCounts, RecordsAreFound
<1>5. PrintFits
  BY <1>a, <1>2, StampChars DEF PrintFits, RecordPrints
<1> QED
  BY <1>3, <1>4, <1>5 DEF LogRecordsInd

\* The lines stay as they are while nothing is written.
LEMMA LinesStay ==
    ASSUME LinesFit, UNCHANGED <<log_buf, log_wp, flg_buff_full, log_message>>, meanwhile' \in Nat
    PROVE  LinesFit'
<1>1. LogText' = LogText /\ TextLength' = TextLength
  BY StampsStay
<1>2. Written' = Written
  BY DEF Written
<1> QED
  BY <1>1, <1>2 DEF LinesFit

\* A print that is not begun is right.
LEMMA NothingPrints ==
    ASSUME to_print' = 0, printed' = <<>>
    PROVE  PrintFits'
<1>1. ~ (to_print' > 0 \/ printed' # <<>>)
  OBVIOUS
<1> QED
  BY <1>1, StampChars DEF PrintFits, RecordPrints

\* What is printed stays what it is.
LEMMA PrintStays ==
    ASSUME UNCHANGED <<log_buf, log_wp, log_rp, search, to_print, printed, meanwhile>>, PrintFits
    PROVE  PrintFits'
<1>1. UnreadBytes' = UnreadBytes /\ \A k : ToRead(k)' = ToRead(k)
  BY DEF UnreadBytes, ToRead, LogCell, ReadCell
<1> QED
  BY <1>1 DEF PrintFits, RecordPrints

\* A byte that is written ends what is known of the print, or the print is past.
LEMMA PutcKeepsPrint ==
    ASSUME LinesFit, PrintFits, LogPutc
    PROVE  PrintFits'
<1>1. to_print' = to_print
  BY DEF LogPutc
<1>2. CASE /\ search.doing = "idle" /\ to_print = 0
           /\ search' = NoScan /\ printed' = <<>> /\ meanwhile' = 0
  BY <1>1, <1>2, NothingPrints
<1>3. CASE /\ meanwhile' = IF meanwhile < MaxMeanwhile THEN meanwhile + 1 ELSE meanwhile
           /\ UNCHANGED <<search, printed>>
  <2>1. MaxMeanwhile \in Nat \ {0} /\ meanwhile \in Nat
    BY LogBufAssumption DEF LinesFit
  <2>2. meanwhile' # 0
    BY <1>3, <2>1
  <2> QED
    BY <1>1, <1>3, <2>2 DEF PrintFits, RecordPrints
<1> QED
  BY <1>2, <1>3 DEF LogPutc

\* A search prints nothing.
LEMMA ScanKeepsPrint ==
    ASSUME PrintFits, SearchForward \/ SearchBackward
    PROVE  PrintFits'
<1>1. search.doing # "idle"
  BY DEF SearchForward, SearchBackward
<1>2. to_print' = to_print /\ printed' = printed
  BY DEF SearchForward, SearchBackward, SearchFound, SearchGoes
<1>3. to_print = 0 /\ printed = <<>>
  BY <1>1 DEF PrintFits
<1> QED
  BY <1>2, <1>3, NothingPrints

\* Whoever reads the log does not write it.
LEMMA ReadersKeepLines ==
    ASSUME LinesFit,
           \/ \E kind \in {"head", "tail"} : Seek(kind)
           \/ SearchForward \/ SearchBackward \/ AskLineSize \/ ReadByte
    PROVE  LinesFit'
<1>1. meanwhile \in Nat
  BY DEF LinesFit
<1>2. CASE \E kind \in {"head", "tail"} : Seek(kind)
  <2>1. UNCHANGED <<log_buf, log_wp, flg_buff_full, log_message>> /\ meanwhile' = 0
    BY <1>2 DEF Seek, logWriterVars
  <2> QED
    BY <2>1, LinesStay
<1>3. CASE SearchForward \/ SearchBackward
  <2>1. UNCHANGED <<log_buf, log_wp, flg_buff_full, log_message>> /\ meanwhile' = meanwhile
    BY <1>3 DEF SearchForward, SearchBackward, SearchFound, SearchGoes, logWriterVars
  <2> QED
    BY <1>1, <2>1, LinesStay
<1>4. CASE AskLineSize \/ ReadByte
  <2>1. UNCHANGED <<log_buf, log_wp, flg_buff_full, log_message>> /\ meanwhile' = meanwhile
    BY <1>4 DEF AskLineSize, ReadByte, logWriterVars
  <2> QED
    BY <1>1, <2>1, LinesStay
<1> QED
  BY <1>2, <1>3, <1>4

\* Each step keeps the records.
LEMMA LogRecordsKept == LogBufInd /\ LogRecordsInd /\ [LogBufNext]_logBufVars => LogRecordsInd'
<1> SUFFICES ASSUME LogBufInd, LogRecordsInd, [LogBufNext]_logBufVars
             PROVE  LogRecordsInd'
  OBVIOUS
<1>0. LinesFit /\ SearchCounts /\ RecordsAreFound /\ PrintFits
  BY DEF LogRecordsInd
<1>1. CASE Gslog
  <2>1. UNCHANGED <<log_buf, log_wp, flg_buff_full, log_rp, search, to_print, printed, meanwhile>>
    BY <1>1 DEF Gslog, logReaderVars
  <2> QED
    BY <1>0, <1>1, <2>1, GslogKeepsLines, FoundStays, PrintStays DEF LogRecordsInd
<1>2. CASE LogPutc
  BY <1>0, <1>2, PutcKeepsLines, PutcKeepsRecords, PutcKeepsPrint DEF LogRecordsInd
<1>3. CASE \E kind \in {"head", "tail"} : Seek(kind)
  <2>1. LinesFit'
    BY <1>0, <1>3, ReadersKeepLines
  <2>2. SearchCounts' /\ RecordsAreFound'
    BY <1>3, SeekKeepsRecords
  <2>3. to_print' = 0 /\ printed' = <<>>
    BY <1>3 DEF Seek
  <2> QED
    BY <2>1, <2>2, <2>3, NothingPrints DEF LogRecordsInd
<1>4. CASE SearchForward
  BY <1>0, <1>4, ReadersKeepLines, ForwardKeepsRecords, ScanKeepsPrint DEF LogRecordsInd
<1>5. CASE SearchBackward
  BY <1>0, <1>5, ReadersKeepLines, BackwardKeepsRecords, ScanKeepsPrint DEF LogRecordsInd
<1>6. CASE AskLineSize
  BY <1>0, <1>6, ReadersKeepLines, AskLineSizeKeepsRecords DEF LogRecordsInd
<1>7. CASE ReadByte
  BY <1>0, <1>7, ReadersKeepLines, ReadByteKeepsRecords DEF LogRecordsInd
<1>8. CASE UNCHANGED logBufVars
  <2>1. /\ UNCHANGED <<log_buf, log_wp, flg_buff_full, log_rp, search, to_print, printed, meanwhile>>
        /\ UNCHANGED log_message
    BY <1>8 DEF logBufVars
  <2>2. meanwhile' \in Nat
    BY <1>0, <2>1 DEF LinesFit
  <2> QED
    BY <1>0, <2>1, <2>2, LinesStay, FoundStays, PrintStays DEF LogRecordsInd
<1> QED
  BY <1>1, <1>2, <1>3, <1>4, <1>5, <1>6, <1>7, <1>8 DEF LogBufNext

\* What is printed when nothing is left to print is one record.
LEMMA RecordsSay ==
    ASSUME LogBufInd, PrintFits
    PROVE  PrintsOneRecord
<1> SUFFICES ASSUME meanwhile = 0, search.kind \in {"head", "tail"}, to_print = 0, printed # <<>>
             PROVE  PrintsOneRecord
  BY DEF PrintsOneRecord
<1>1. PICK p \in Nat, U \in Nat : p = Len(printed) /\ U = UnreadBytes /\ (U = 0 <=> log_rp = log_wp)
  BY LenProperties, ReadingOn, LogNumbers DEF PrintFits
<1>2. /\ \A k \in 1..(p - 1) : printed[k] = "\n" /\ printed[k + 1] = "[" => k > 1 /\ printed[k - 1] = "\n"
      /\ 0 = U \/ ToRead(0) = "["
  BY <1>1 DEF PrintFits, RecordPrints
<1>3. log_rp = log_wp \/ LogCell(log_rp) = "["
  BY <1>1, <1>2, ReadingOn
<1> QED
  BY <1>1, <1>2, <1>3 DEF PrintsOneRecord

\* Whatever is written meanwhile, a search of the log's ring stays inside it and is
\* over within one round (kernel/log.c, drivers/logbuf.c), unless it begins or
\* should end at the cell that a search from the head skips; while nothing is
\* written, it finds the record that was sought (shell/com_log.c), and what is
\* printed of it is that record and no more.
THEOREM LogBufInvariant == LogBufSpec => []LogBufInv
<1>1. LogBufInit => LogBufInd /\ LogRecordsInd
  BY LogBufBegins, LogRecordsBegin
<1>2. LogBufInd /\ LogRecordsInd /\ [LogBufNext]_logBufVars => LogBufInd' /\ LogRecordsInd'
  BY LogBufKept, LogRecordsKept
<1>3. LogBufInd /\ LogRecordsInd => LogBufInv
  <2> SUFFICES ASSUME LogBufInd, LogRecordsInd PROVE LogBufInv
    OBVIOUS
  <2>1. LogBufTypeOK /\ SearchesEnd
    BY LogBufIndSays
  <2>2. RecordsAreFound /\ PrintFits
    BY DEF LogRecordsInd
  <2> QED
    BY <2>1, <2>2, RecordsSay DEF LogBufInv
<1> QED
  BY <1>1, <1>2, <1>3, PTL DEF LogBufSpec

-----------------------------------------------------------------------------
(* The terminal. *)

\* A line with its row of the terminal.
Edit(b, c, r, l) == [buf |-> b, cur_pos |-> c, row |-> r, col |-> l]

\* What the terminal may show.
Rows == [Columns -> Letters \cup {Blank}]

\* f tells step by step what the terminal shows while chars are sent.
IsTrace(f, e, chars) ==
    f = [n \in 0..Len(chars) |-> IF n = 0 THEN e ELSE Cputc(f[n - 1], chars[n])]

\* Sending chars leads from e to s.
Leads(e, chars, s) == \E f : IsTrace(f, e, chars) /\ f[Len(chars)] = s

\* The trace that Sends follows.
ShownBy(e, chars) ==
    CHOOSE shown : shown = [n \in 0..Len(chars) |->
                              IF n = 0 THEN e ELSE Cputc(shown[n - 1], chars[n])]

\* One step of a trace.
LEMMA TraceStep ==
    ASSUME NEW f, NEW e, NEW chars, NEW n \in Nat, n = Len(chars), IsTrace(f, e, chars),
           NEW k \in 1..n
    PROVE  f[k] = Cputc(f[k - 1], chars[k])
<1>1. k \in 0..Len(chars) /\ k # 0
  OBVIOUS
<1> QED
  BY <1>1, Zenon DEF IsTrace

\* There is only one trace, so that Sends leads where any trace leads.
LEMMA LeadsThere ==
    ASSUME NEW e, NEW chars, Len(chars) \in Nat, NEW s, Leads(e, chars, s)
    PROVE  Sends(e, chars) = s
<1>1. PICK f : IsTrace(f, e, chars) /\ f[Len(chars)] = s
  BY DEF Leads
<1> DEFINE g == ShownBy(e, chars)
<1>2. IsTrace(g, e, chars)
  BY <1>1 DEF IsTrace, ShownBy
<1>3. Sends(e, chars) = g[Len(chars)]
  BY DEF Sends, ShownBy
<1> HIDE DEF g
<1> DEFINE differ == {n \in 0..Len(chars) : f[n] # g[n]}
<1>4. differ = {}
  <2> SUFFICES ASSUME differ # {} PROVE FALSE
    OBVIOUS
  <2>1. differ \subseteq Nat
    OBVIOUS
  <2>2. PICK n \in differ : \A m \in differ : n <= m
    <3> HIDE DEF differ
    <3> QED
      BY <2>1, MinOfNaturals
  <2>3. n \in 0..Len(chars) /\ f[n] # g[n]
    OBVIOUS
  <2>4. /\ f[n] = IF n = 0 THEN e ELSE Cputc(f[n - 1], chars[n])
        /\ g[n] = IF n = 0 THEN e ELSE Cputc(g[n - 1], chars[n])
    BY <1>1, <1>2, <2>3, Zenon DEF IsTrace
  <2>5. n # 0
    BY <2>3, <2>4
  <2>6. n - 1 \in 0..Len(chars) /\ n - 1 \notin differ
    BY <2>2, <2>3, <2>5
  <2>7. f[n - 1] = g[n - 1]
    BY <2>6
  <2> QED
    BY <2>3, <2>4, <2>5, <2>7
<1>5. f[Len(chars)] = g[Len(chars)]
  <2>1. Len(chars) \in 0..Len(chars)
    OBVIOUS
  <2> QED
    BY <1>4, <2>1
<1> QED
  BY <1>1, <1>3, <1>5

\* What was sent first, and what was sent then.
LEMMA LeadsOn ==
    ASSUME NEW T, NEW chars \in Seq(T), NEW more \in Seq(T), NEW e, NEW s, NEW t,
           Leads(e, chars, s), Leads(s, more, t)
    PROVE  Leads(e, chars \o more, t)
<1>1. PICK f : IsTrace(f, e, chars) /\ f[Len(chars)] = s
  BY DEF Leads
<1>2. PICK g : IsTrace(g, s, more) /\ g[Len(more)] = t
  BY DEF Leads
<1>3. PICK m \in Nat, n \in Nat : m = Len(chars) /\ n = Len(more)
  OBVIOUS
<1> DEFINE both == chars \o more
           h == [k \in 0..(m + n) |-> IF k <= m THEN f[k] ELSE g[k - m]]
<1>4. Len(both) = m + n
  BY <1>3
<1>5. \A k \in 1..m : both[k] = chars[k]
  BY <1>3
<1>6. \A k \in (m + 1)..(m + n) : both[k] = more[k - m]
  BY <1>3
<1>7. g[0] = s /\ f[0] = e
  <2>1. 0 \in 0..Len(more) /\ 0 \in 0..Len(chars)
    BY <1>3
  <2> QED
    BY <1>1, <1>2, <2>1 DEF IsTrace
<1>8. \A k \in 1..m : f[k] = Cputc(f[k - 1], chars[k])
  BY <1>1, <1>3, TraceStep
<1>9. \A k \in 1..n : g[k] = Cputc(g[k - 1], more[k])
  BY <1>2, <1>3, TraceStep, SMTT(30)
<1> HIDE DEF both
<1>10. ASSUME NEW k \in 0..(m + n)
       PROVE  h[k] = IF k = 0 THEN e ELSE Cputc(h[k - 1], both[k])
  <2>1. CASE k = 0
    BY <1>7, <2>1, <1>3
  <2>2. CASE k \in 1..m
    <3>1. k - 1 \in 0..(m + n) /\ k - 1 <= m /\ k # 0 /\ k <= m
      BY <1>3, <2>2
    <3>2. h[k] = f[k] /\ h[k - 1] = f[k - 1]
      BY <3>1
    <3> QED
      BY <1>5, <1>8, <2>2, <3>1, <3>2
  <2>3. CASE k \in (m + 1)..(m + n)
    <3>1. PICK i \in 1..n : i = k - m
      <4>1. k - m \in 1..n
        BY <1>3, <2>3
      <4> QED
        BY <4>1
    <3>2. h[k] = g[i]
      BY <1>3, <2>3, <3>1
    <3>3. h[k - 1] = g[i - 1]
      <4>1. k - 1 \in 0..(m + n)
        BY <1>3, <2>3
      <4>2. CASE i = 1
        <5>1. k - 1 = m /\ m <= m
          BY <1>3, <3>1, <4>2
        <5>2. h[k - 1] = f[m]
          BY <4>1, <5>1
        <5> QED
          BY <1>1, <1>3, <1>7, <4>2, <5>2
      <4>3. CASE i # 1
        <5>1. ~ k - 1 <= m /\ (k - 1) - m = i - 1
          BY <1>3, <3>1, <4>3
        <5> QED
          BY <4>1, <5>1
      <4> QED
        BY <4>2, <4>3
    <3>4. both[k] = more[i] /\ k # 0
      BY <1>3, <1>6, <2>3, <3>1
    <3> HIDE DEF h
    <3> QED
      BY <1>9, <3>2, <3>3, <3>4
  <2> QED
    BY <1>3, <2>1, <2>2, <2>3
<1>11. IsTrace(h, e, both)
  <2>1. h = [k \in 0..(m + n) |-> h[k]]
    OBVIOUS
  <2> HIDE DEF h
  <2>2. h = [k \in 0..(m + n) |-> IF k = 0 THEN e ELSE Cputc(h[k - 1], both[k])]
    BY <1>10, <2>1
  <2> QED
    BY <1>4, <2>2 DEF IsTrace
<1>12. h[Len(both)] = t
  <2>1. m + n \in 0..(m + n) /\ (m + n) - m = n
    BY <1>3
  <2>2. CASE n = 0
    <3>1. h[m + n] = f[m]
      BY <1>3, <2>1, <2>2
    <3> QED
      BY <1>1, <1>2, <1>3, <1>4, <1>7, <2>2, <3>1
  <2>3. CASE n # 0
    <3>1. ~ m + n <= m
      BY <1>3, <2>3
    <3>2. h[m + n] = g[n]
      BY <2>1, <3>1
    <3> QED
      BY <1>2, <1>3, <1>4, <3>2
  <2> QED
    BY <2>2, <2>3
<1> QED
  BY <1>11, <1>12 DEF Leads, both

\* A row that was erased from column l on.
Erased(r, l) == [i \in Columns |-> IF i < l THEN r[i] ELSE Blank]

\* It does not matter which two are joined first.
LEMMA JoinInAnyOrder ==
    ASSUME NEW T, NEW s \in Seq(T), NEW t \in Seq(T), NEW u \in Seq(T)
    PROVE  s \o (t \o u) = (s \o t) \o u
OBVIOUS

\* What a single character does.
LEMMA CputcShows ==
    ASSUME NEW b, NEW c, NEW r \in Rows, NEW l \in Int
    PROVE  /\ Cputc(Edit(b, c, r, l), BS) = Edit(b, c, r, l - 1)
           /\ Cputc(Edit(b, c, r, l), EraseLine)
                = Edit(b, c, Erased(r, l), l)
           /\ \A ch \in Letters \cup {Blank} :
                Cputc(Edit(b, c, r, l), ch) = Edit(b, c, [r EXCEPT ![l] = ch], l + 1)
<1>1. BS = -2 /\ EraseLine = -3 /\ Blank = -1 /\ BS # EraseLine
  BY DEF BS, EraseLine, Blank
<1>2. \A ch \in Letters \cup {Blank} : ch # BS /\ ch # EraseLine
  BY <1>1, LineEditAssumption
<1>3. \A e : Cputc(e, BS) = [e EXCEPT !.col = @ - 1]
  BY <1>1 DEF Cputc
<1>4. \A e : Cputc(e, EraseLine)
               = [e EXCEPT !.row = [i \in Columns |-> IF i < e.col THEN @[i] ELSE Blank]]
  BY <1>1 DEF Cputc
<1>5. \A e : \A ch \in Letters \cup {Blank} : Cputc(e, ch) = [e EXCEPT !.row[e.col] = ch, !.col = @ + 1]
  BY <1>2 DEF Cputc
<1>6. Cputc(Edit(b, c, r, l), BS) = Edit(b, c, r, l - 1)
  BY <1>3 DEF Edit
<1>7. Cputc(Edit(b, c, r, l), EraseLine)
        = Edit(b, c, Erased(r, l), l)
  <2>1. Edit(b, c, r, l).row = r /\ Edit(b, c, r, l).col = l
    BY DEF Edit
  <2>2. Cputc(Edit(b, c, r, l), EraseLine)
          = [Edit(b, c, r, l) EXCEPT !.row = Erased(r, l)]
    BY <1>4, <2>1 DEF Erased
  <2> QED
    BY <2>2 DEF Edit
<1>8. ASSUME NEW ch \in Letters \cup {Blank}
      PROVE  Cputc(Edit(b, c, r, l), ch) = Edit(b, c, [r EXCEPT ![l] = ch], l + 1)
  <2>1. Edit(b, c, r, l).row = r /\ Edit(b, c, r, l).col = l
    BY DEF Edit
  <2>2. PICK q : q = [r EXCEPT ![l] = ch]
    OBVIOUS
  <2>3. Cputc(Edit(b, c, r, l), ch) = [[Edit(b, c, r, l) EXCEPT !.row = q] EXCEPT !.col = l + 1]
    BY <1>5, <2>1, <2>2
  <2>4. [[Edit(b, c, r, l) EXCEPT !.row = q] EXCEPT !.col = l + 1] = Edit(b, c, q, l + 1)
    <3>1. [Edit(b, c, r, l) EXCEPT !.row = q] = Edit(b, c, q, l)
      BY DEF Edit
    <3>2. [Edit(b, c, q, l) EXCEPT !.col = l + 1] = Edit(b, c, q, l + 1)
      BY DEF Edit
    <3> QED
      BY <3>1, <3>2
  <2> QED
    BY <2>2, <2>3, <2>4
<1> QED
  BY <1>6, <1>7, <1>8

\* Backspaces move the cursor and change nothing.
LEMMA BackspacesLead ==
    ASSUME NEW b, NEW c, NEW r \in Rows, NEW l \in Int, NEW n \in Nat, NEW m, m = l - n
    PROVE  /\ Backspaces(n) \in Seq(Int) /\ Len(Backspaces(n)) = n
           /\ Leads(Edit(b, c, r, l), Backspaces(n), Edit(b, c, r, m))
<1> DEFINE f == [k \in 0..n |-> Edit(b, c, r, l - k)]
<1>1. BS \in Int
  BY DEF BS
<1>2. /\ Backspaces(n) \in Seq(Int) /\ Len(Backspaces(n)) = n
      /\ \A k \in 1..n : Backspaces(n)[k] = BS
  BY <1>1 DEF Backspaces
<1>3. ASSUME NEW k \in 0..n
      PROVE  f[k] = IF k = 0 THEN Edit(b, c, r, l) ELSE Cputc(f[k - 1], Backspaces(n)[k])
  <2>1. CASE k = 0
    <3>1. l - 0 = l
      OBVIOUS
    <3> QED
      BY <2>1, <3>1
  <2>2. CASE k # 0
    <3>1. k - 1 \in 0..n /\ k \in 1..n /\ l - (k - 1) \in Int /\ (l - (k - 1)) - 1 = l - k
      BY <2>2
    <3>2. f[k - 1] = Edit(b, c, r, l - (k - 1))
      BY <3>1
    <3>3. Cputc(Edit(b, c, r, l - (k - 1)), BS) = Edit(b, c, r, (l - (k - 1)) - 1)
      BY <3>1, CputcShows
    <3> QED
      BY <1>2, <2>2, <3>1, <3>2, <3>3
  <2> QED
    BY <2>1, <2>2
<1>4. f[n] = Edit(b, c, r, m)
  OBVIOUS
<1>5. IsTrace(f, Edit(b, c, r, l), Backspaces(n))
  <2>1. f = [k \in 0..n |-> f[k]]
    OBVIOUS
  <2> HIDE DEF f
  <2>2. f = [k \in 0..n |-> IF k = 0 THEN Edit(b, c, r, l) ELSE Cputc(f[k - 1], Backspaces(n)[k])]
    BY <1>3, <2>1
  <2> QED
    BY <1>2, <2>2 DEF IsTrace
<1> QED
  BY <1>2, <1>4, <1>5 DEF Leads

\* The row after the first k of the characters p were printed from column l on.
Printed(r, l, p, k) == [i \in Columns |-> IF l <= i /\ i < l + k THEN p[i - l + 1] ELSE r[i]]

\* Characters stand in the row from the cursor on.
LEMMA PrintingLeads ==
    ASSUME NEW b, NEW c, NEW r \in Rows, NEW l \in Nat, NEW p \in Seq(Letters \cup {Blank})
    PROVE  /\ Leads(Edit(b, c, r, l), p, Edit(b, c, Printed(r, l, p, Len(p)), l + Len(p)))
           /\ Printed(r, l, p, Len(p)) \in Rows
           /\ p \in Seq(Int)
<1>0. PICK n \in Nat : n = Len(p)
  OBVIOUS
<1>1. Columns \subseteq Nat
  BY LineEditAssumption DEF Columns
<1>2. \A k \in 1..n : p[k] \in Letters \cup {Blank}
  BY <1>0
<1>3. ASSUME NEW k \in 0..n
      PROVE  Printed(r, l, p, k) \in Rows
  <2>1. ASSUME NEW i \in Columns
        PROVE  (IF l <= i /\ i < l + k THEN p[i - l + 1] ELSE r[i]) \in Letters \cup {Blank}
    <3>1. CASE l <= i /\ i < l + k
      <4>1. i - l + 1 \in 1..n
        BY <1>1, <3>1
      <4> QED
        BY <1>2, <3>1, <4>1
    <3>2. CASE ~ (l <= i /\ i < l + k)
      BY <3>2 DEF Rows
    <3> QED
      BY <3>1, <3>2
  <2> QED
    BY <2>1 DEF Printed, Rows
<1>4. Printed(r, l, p, 0) = r
  BY <1>1 DEF Printed, Rows
<1>5. ASSUME NEW k \in 1..n
      PROVE  Printed(r, l, p, k) = [Printed(r, l, p, k - 1) EXCEPT ![l + (k - 1)] = p[k]]
  <2>1. ASSUME NEW i \in Columns
        PROVE  Printed(r, l, p, k)[i] = IF i = l + (k - 1) THEN p[k] ELSE Printed(r, l, p, k - 1)[i]
    <3>1. i \in Nat /\ k \in Nat
      BY <1>1
    <3>2. CASE i = l + (k - 1)
      <4>1. l <= i /\ i < l + k /\ i - l + 1 = k
        BY <3>1, <3>2
      <4> QED
        BY <3>2, <4>1 DEF Printed
    <3>3. CASE i # l + (k - 1)
      <4>1. l <= i /\ i < l + k <=> l <= i /\ i < l + (k - 1)
        BY <3>1, <3>3
      <4> QED
        BY <3>3, <4>1 DEF Printed
    <3> QED
      BY <3>2, <3>3
  <2> QED
    BY <2>1 DEF Printed
<1> DEFINE f == [k \in 0..n |-> Edit(b, c, Printed(r, l, p, k), l + k)]
<1>6. ASSUME NEW k \in 0..n
      PROVE  f[k] = IF k = 0 THEN Edit(b, c, r, l) ELSE Cputc(f[k - 1], p[k])
  <2>1. CASE k = 0
    <3>1. l + 0 = l
      OBVIOUS
    <3> QED
      BY <1>4, <2>1, <3>1
  <2>2. CASE k # 0
    <3>1. k - 1 \in 0..n /\ k \in 1..n /\ l + (k - 1) \in Int /\ (l + (k - 1)) + 1 = l + k
      BY <2>2
    <3>2. f[k - 1] = Edit(b, c, Printed(r, l, p, k - 1), l + (k - 1))
      BY <3>1
    <3>3. Cputc(Edit(b, c, Printed(r, l, p, k - 1), l + (k - 1)), p[k])
            = Edit(b, c, [Printed(r, l, p, k - 1) EXCEPT ![l + (k - 1)] = p[k]], (l + (k - 1)) + 1)
      <4>1. Printed(r, l, p, k - 1) \in Rows /\ p[k] \in Letters \cup {Blank}
        BY <1>2, <1>3, <3>1
      <4>2. PICK x \in Int, q \in Rows : x = l + (k - 1) /\ q = Printed(r, l, p, k - 1)
        BY <3>1, <4>1
      <4>3. Cputc(Edit(b, c, q, x), p[k]) = Edit(b, c, [q EXCEPT ![x] = p[k]], x + 1)
        BY <4>1, CputcShows
      <4> HIDE DEF f
      <4> QED
        BY <4>2, <4>3
    <3>4. f[k] = Edit(b, c, Printed(r, l, p, k), l + k)
      OBVIOUS
    <3> HIDE DEF f
    <3> QED
      BY <1>5, <2>2, <3>1, <3>2, <3>3, <3>4
  <2> QED
    BY <2>1, <2>2
<1>7. f[n] = Edit(b, c, Printed(r, l, p, n), l + n)
  OBVIOUS
<1>8. IsTrace(f, Edit(b, c, r, l), p)
  <2>1. f = [k \in 0..n |-> f[k]]
    OBVIOUS
  <2> HIDE DEF f
  <2>2. f = [k \in 0..n |-> IF k = 0 THEN Edit(b, c, r, l) ELSE Cputc(f[k - 1], p[k])]
    BY <1>6, <2>1
  <2> QED
    BY <1>0, <2>2 DEF IsTrace
<1>9. p \in Seq(Int)
  <2>1. Letters \cup {Blank} \subseteq Int
    BY LineEditAssumption DEF Blank
  <2> QED
    BY <2>1
<1> QED
  BY <1>0, <1>3, <1>7, <1>8, <1>9 DEF Leads

\* One character.
LEMMA OneLeads ==
    ASSUME NEW b, NEW c, NEW r \in Rows, NEW l \in Int
    PROVE  /\ <<BS>> \in Seq(Int) /\ <<EraseLine>> \in Seq(Int)
           /\ Leads(Edit(b, c, r, l), <<BS>>, Edit(b, c, r, l - 1))
           /\ Leads(Edit(b, c, r, l), <<EraseLine>>,
                    Edit(b, c, Erased(r, l), l))
           /\ Erased(r, l) \in Rows
<1>1. ASSUME NEW e, NEW ch
      PROVE  Leads(e, <<ch>>, Cputc(e, ch))
  <2> DEFINE f == [k \in 0..1 |-> IF k = 0 THEN e ELSE Cputc(e, ch)]
  <2>1. f[0] = e /\ f[1] = Cputc(e, ch)
    OBVIOUS
  <2>2. Len(<<ch>>) = 1 /\ <<ch>>[1] = ch
    OBVIOUS
  <2>3. \A k \in 0..1 : f[k] = IF k = 0 THEN e ELSE Cputc(f[k - 1], <<ch>>[k])
    <3> HIDE DEF f
    <3>1. \A k \in 0..1 : k = 0 \/ (k = 1 /\ k - 1 = 0)
      OBVIOUS
    <3> QED
      BY <2>1, <2>2, <3>1
  <2>4. f = [k \in 0..1 |-> f[k]]
    OBVIOUS
  <2> HIDE DEF f
  <2>5. f = [k \in 0..1 |-> IF k = 0 THEN e ELSE Cputc(f[k - 1], <<ch>>[k])]
    BY <2>3, <2>4
  <2>6. IsTrace(f, e, <<ch>>)
    BY <2>2, <2>5 DEF IsTrace
  <2> QED
    BY <2>1, <2>2, <2>6 DEF Leads
<1>2. Erased(r, l) \in Rows
  BY DEF Rows, Erased
<1>3. <<BS>> \in Seq(Int) /\ <<EraseLine>> \in Seq(Int)
  BY DEF BS, EraseLine
<1>4. /\ Leads(Edit(b, c, r, l), <<BS>>, Cputc(Edit(b, c, r, l), BS))
      /\ Leads(Edit(b, c, r, l), <<EraseLine>>, Cputc(Edit(b, c, r, l), EraseLine))
  BY <1>1
<1>5. /\ Cputc(Edit(b, c, r, l), BS) = Edit(b, c, r, l - 1)
      /\ Cputc(Edit(b, c, r, l), EraseLine)
           = Edit(b, c, Erased(r, l), l)
  BY CputcShows
<1> QED
  BY <1>2, <1>3, <1>4, <1>5
-----------------------------------------------------------------------------
(* What the keys do to a line. *)

\* A buffer, the row that shows it, and the line with its cursor at c.
Buffers == {b \in [0..MAX_LINE_COLUMS -> Letters \cup {NUL}] : b[MAX_LINE_COLUMS] = NUL}
Row(b) == [i \in Columns |-> IF i < Strleng(b) THEN b[i] ELSE Blank]
LineAt(b, c) == Edit(b, c, Row(b), c)
LineOK(e) == \E b \in Buffers : \E c \in 0..Strleng(b) : e = LineAt(b, c)

\* A line with another buffer, with its cursor moved.
WithBuf(e, d) == [e EXCEPT !.buf = d]
WithCur(e, a) == [e EXCEPT !.cur_pos = a]

\* They change nothing else.
LEMMA LineEdits ==
    ASSUME NEW b, NEW c, NEW d, NEW a
    PROVE  /\ WithBuf(LineAt(b, c), d) = Edit(d, c, Row(b), c)
           /\ WithCur(LineAt(b, c), a) = Edit(b, a, Row(b), c)
           /\ WithCur(WithBuf(LineAt(b, c), d), a) = Edit(d, a, Row(b), c)
<1>1. PICK r : r = Row(b)
  OBVIOUS
<1>2. LineAt(b, c) = Edit(b, c, r, c)
  BY <1>1 DEF LineAt
<1>3. WithBuf(Edit(b, c, r, c), d) = Edit(d, c, r, c)
  BY DEF Edit, WithBuf
<1>4. WithCur(Edit(b, c, r, c), a) = Edit(b, a, r, c)
  BY DEF Edit, WithCur
<1>5. WithCur(Edit(d, c, r, c), a) = Edit(d, a, r, c)
  BY DEF Edit, WithCur
<1> QED
  BY <1>1, <1>2, <1>3, <1>4, <1>5

\* The columns, and what is typed.
LEMMA LineColumns ==
    /\ MAX_LINE_COLUMS \in Nat \ {0} /\ Columns = 0..(MAX_LINE_COLUMS - 1)
    /\ \A ch \in Letters : ch \in Nat /\ ch # NUL
    /\ NUL = 0
BY LineEditAssumption DEF Columns, NUL

\* Where a buffer ends.
LEMMA LengthIs ==
    ASSUME NEW b \in Buffers, NEW n \in 0..MAX_LINE_COLUMS, b[n] = NUL,
           \A i \in 0..(n - 1) : b[i] # NUL
    PROVE  Strleng(b) = n
<1>0. DOMAIN b = 0..MAX_LINE_COLUMS
  BY DEF Buffers
<1>1. ASSUME NEW m \in 0..MAX_LINE_COLUMS, b[m] = NUL, \A i \in 0..(m - 1) : b[i] # NUL
      PROVE  m = n
  <2>1. ~ m < n
    <3> SUFFICES ASSUME m < n PROVE FALSE
      OBVIOUS
    <3>1. m \in 0..(n - 1)
      BY LineColumns
    <3> QED
      BY <1>1, <3>1
  <2>2. ~ n < m
    <3> SUFFICES ASSUME n < m PROVE FALSE
      OBVIOUS
    <3>1. n \in 0..(m - 1)
      BY LineColumns
    <3> QED
      BY <1>1, <3>1
  <2> QED
    BY <2>1, <2>2, LineColumns
<1> DEFINE k == Strleng(b)
<1>2. k \in 0..MAX_LINE_COLUMS /\ b[k] = NUL /\ \A i \in 0..(k - 1) : b[i] # NUL
  BY <1>0 DEF Strleng
<1> HIDE DEF k
<1> QED
  <2>1. k = n
    BY <1>1, <1>2
  <2> QED
    BY <2>1 DEF k

\* Every buffer ends, and has letters before its end.
LEMMA LengthsEnd ==
    ASSUME NEW b \in Buffers
    PROVE  /\ Strleng(b) \in 0..MAX_LINE_COLUMS /\ b[Strleng(b)] = NUL
           /\ \A i \in 0..(Strleng(b) - 1) : b[i] \in Letters
           /\ \A i \in 0..MAX_LINE_COLUMS : b[i] \in Letters \cup {NUL}
           /\ Row(b) \in Rows
<1> DEFINE zeros == {n \in 0..MAX_LINE_COLUMS : b[n] = NUL}
<1>1. zeros \subseteq Nat /\ MAX_LINE_COLUMS \in zeros
  BY LineColumns DEF Buffers
<1>2. PICK n \in zeros : \A m \in zeros : n <= m
  <2> HIDE DEF zeros
  <2> QED
    BY <1>1, MinOfNaturals
<1>3. n \in 0..MAX_LINE_COLUMS /\ b[n] = NUL
  OBVIOUS
<1>4. \A i \in 0..(n - 1) : b[i] # NUL
  <2> SUFFICES ASSUME NEW i \in 0..(n - 1), b[i] = NUL
               PROVE  FALSE
    OBVIOUS
  <2>1. i \in 0..MAX_LINE_COLUMS /\ ~ n <= i
    BY <1>3, LineColumns
  <2> QED
    BY <1>2, <2>1
<1>5. Strleng(b) = n
  BY <1>3, <1>4, LengthIs
<1>6. \A i \in 0..MAX_LINE_COLUMS : b[i] \in Letters \cup {NUL}
  BY DEF Buffers
<1>7. \A i \in 0..(n - 1) : b[i] \in Letters
  BY <1>3, <1>4, <1>6, LineColumns
<1>8. \A i \in Columns : (IF i < Strleng(b) THEN b[i] ELSE Blank) \in Letters \cup {Blank}
  BY <1>3, <1>5, <1>7, LineColumns
<1>9. Row(b) \in Rows
  BY <1>8 DEF Row, Rows
<1> QED
  BY <1>3, <1>5, <1>6, <1>7, <1>9

\* A part of a line.
LEMMA PartIs ==
    ASSUME NEW b \in Buffers, NEW i \in Nat, NEW j \in Nat, i <= j, j <= Strleng(b)
    PROVE  /\ Part(b, i, j) \in Seq(Letters) /\ Len(Part(b, i, j)) = j - i
           /\ Part(b, i, j) \in Seq(Letters \cup {Blank})
           /\ \A k \in 1..(j - i) : Part(b, i, j)[k] = b[i + k - 1]
<1>1. PICK n \in Nat : n = j - i
  OBVIOUS
<1>2. \A k \in 1..n : i + k - 1 \in 0..(Strleng(b) - 1)
  BY <1>1, LengthsEnd, LineColumns
<1>3. \A k \in 1..n : b[i + k - 1] \in Letters
  BY <1>2, LengthsEnd
<1>4. Part(b, i, j) = [k \in 1..n |-> b[i + k - 1]]
  BY <1>1 DEF Part
<1>5. Part(b, i, j) \in [1..n -> Letters] /\ Part(b, i, j) \in [1..n -> Letters \cup {Blank}]
  BY <1>3, <1>4
<1>6. Len(Part(b, i, j)) = n
  BY <1>4
<1>7. \A k \in 1..n : Part(b, i, j)[k] = b[i + k - 1]
  BY <1>4
<1> HIDE DEF Part
<1> QED
  BY <1>1, <1>5, <1>6, <1>7

\* What was printed shows the line.
LEMMA PrintedRow ==
    ASSUME NEW b, NEW r, NEW l, NEW p, NEW n,
           \A i \in Columns : (IF l <= i /\ i < l + n THEN p[i - l + 1] ELSE r[i])
                                = (IF i < Strleng(b) THEN b[i] ELSE Blank)
    PROVE  Printed(r, l, p, n) = Row(b)
BY DEF Printed, Row

\* CTRL-B.
LEMMA LeftKey ==
    ASSUME NEW b \in Buffers, NEW c \in 0..Strleng(b)
    PROVE  LineOK(CursorLeft(LineAt(b, c)))
<1>1. CursorLeft(LineAt(b, c))
        = IF c = 0 THEN LineAt(b, c) ELSE Sends(Edit(b, c - 1, Row(b), c), <<BS>>)
  BY DEF CursorLeft, LineAt, Edit
<1>2. c \in Int /\ Row(b) \in Rows
  BY LengthsEnd, LineColumns
<1>3. Leads(Edit(b, c - 1, Row(b), c), <<BS>>, Edit(b, c - 1, Row(b), c - 1))
  BY <1>2, OneLeads
<1>4. Sends(Edit(b, c - 1, Row(b), c), <<BS>>) = LineAt(b, c - 1)
  <2>1. Len(<<BS>>) \in Nat
    OBVIOUS
  <2> QED
    BY <1>3, <2>1, LeadsThere DEF LineAt
<1>5. c # 0 => c - 1 \in 0..Strleng(b)
  BY LengthsEnd, LineColumns
<1> QED
  BY <1>1, <1>4, <1>5 DEF LineOK

\* CTRL-F.
LEMMA RightKey ==
    ASSUME NEW b \in Buffers, NEW c \in 0..Strleng(b)
    PROVE  LineOK(CursorRight(LineAt(b, c)))
<1>1. CursorRight(LineAt(b, c))
        = IF c < Strleng(b) THEN Sends(Edit(b, c + 1, Row(b), c), <<b[c]>>) ELSE LineAt(b, c)
  BY DEF CursorRight, LineLength, LineAt, Edit
<1>2. CASE c < Strleng(b)
  <2>1. c \in Nat /\ Row(b) \in Rows /\ Strleng(b) \in 0..MAX_LINE_COLUMS /\ c \in 0..(Strleng(b) - 1)
    BY <1>2, LengthsEnd, LineColumns
  <2>2. b[c] \in Letters
    BY <2>1, LengthsEnd
  <2> DEFINE p == <<b[c]>>
  <2>3. p \in Seq(Letters \cup {Blank}) /\ Len(p) = 1 /\ p[1] = b[c]
    BY <2>2
  <2> HIDE DEF p
  <2>4. Printed(Row(b), c, p, 1) = Row(b)
    <3>1. ASSUME NEW i \in Columns
          PROVE  (IF c <= i /\ i < c + 1 THEN p[i - c + 1] ELSE Row(b)[i])
                   = (IF i < Strleng(b) THEN b[i] ELSE Blank)
      <4>1. i \in Nat
        BY LineColumns
      <4>2. CASE i = c
        <5>1. c <= i /\ i < c + 1 /\ i - c + 1 = 1
          BY <2>1, <4>2
        <5> QED
          BY <1>2, <2>3, <4>2, <5>1
      <4>3. CASE i # c
        <5>1. ~ (c <= i /\ i < c + 1)
          BY <2>1, <4>1, <4>3
        <5> QED
          BY <5>1 DEF Row
      <4> QED
        BY <4>2, <4>3
    <3> QED
      BY <3>1, PrintedRow
  <2>5. Leads(Edit(b, c + 1, Row(b), c), p, Edit(b, c + 1, Row(b), c + 1))
    BY <2>1, <2>3, <2>4, PrintingLeads
  <2>6. Sends(Edit(b, c + 1, Row(b), c), p) = LineAt(b, c + 1)
    BY <2>3, <2>5, LeadsThere DEF LineAt
  <2>7. c + 1 \in 0..Strleng(b)
    BY <1>2, <2>1
  <2> QED
    BY <1>1, <1>2, <2>6, <2>7 DEF LineOK, p
<1>3. CASE ~ c < Strleng(b)
  BY <1>1, <1>3 DEF LineOK
<1> QED
  BY <1>2, <1>3

\* CTRL-A.
LEMMA HomeKey ==
    ASSUME NEW b \in Buffers, NEW c \in 0..Strleng(b)
    PROVE  LineOK(CursorHome(LineAt(b, c)))
<1>1. CursorHome(LineAt(b, c)) = Sends(Edit(b, 0, Row(b), c), Backspaces(c))
  BY DEF CursorHome, LineAt, Edit
<1>2. c \in Nat /\ c \in Int /\ Row(b) \in Rows /\ 0 = c - c /\ 0 \in 0..Strleng(b)
  BY LengthsEnd, LineColumns
<1>3. Leads(Edit(b, 0, Row(b), c), Backspaces(c), Edit(b, 0, Row(b), 0)) /\ Len(Backspaces(c)) = c
  BY <1>2, BackspacesLead
<1>4. Sends(Edit(b, 0, Row(b), c), Backspaces(c)) = LineAt(b, 0)
  BY <1>2, <1>3, LeadsThere DEF LineAt
<1> QED
  BY <1>1, <1>2, <1>4 DEF LineOK

\* CTRL-E.
LEMMA EndKey ==
    ASSUME NEW b \in Buffers, NEW c \in 0..Strleng(b)
    PROVE  LineOK(CursorEnd(LineAt(b, c)))
<1> DEFINE j == Strleng(b)
           p == Part(b, c, j)
<1>1. CursorEnd(LineAt(b, c)) = Sends(Edit(b, j, Row(b), c), p)
  BY DEF CursorEnd, LineLength, LineAt, Edit
<1>2. c \in Nat /\ Row(b) \in Rows /\ j \in Nat /\ j \in 0..j /\ c <= j /\ j <= j
  BY LengthsEnd, LineColumns
<1>3. /\ p \in Seq(Letters \cup {Blank}) /\ Len(p) = j - c
      /\ \A k \in 1..(j - c) : p[k] = b[c + k - 1]
  <2> HIDE DEF j
  <2>1. j <= Strleng(b)
    BY <1>2 DEF j
  <2> QED
    BY <1>2, <2>1, PartIs
<1> HIDE DEF p
<1>4. Printed(Row(b), c, p, j - c) = Row(b)
  <2>1. ASSUME NEW i \in Columns
        PROVE  (IF c <= i /\ i < c + (j - c) THEN p[i - c + 1] ELSE Row(b)[i])
                 = (IF i < Strleng(b) THEN b[i] ELSE Blank)
    <3>1. i \in Nat
      BY LineColumns
    <3>2. CASE c <= i /\ i < j
      <4>1. i < c + (j - c) /\ i - c + 1 \in 1..(j - c) /\ c + (i - c + 1) - 1 = i
        BY <1>2, <3>1, <3>2
      <4>2. p[i - c + 1] = b[i]
        BY <1>3, <4>1
      <4> QED
        BY <3>2, <4>1, <4>2
    <3>3. CASE ~ (c <= i /\ i < j)
      <4>1. ~ (c <= i /\ i < c + (j - c))
        BY <1>2, <3>1, <3>3
      <4> QED
        BY <4>1 DEF Row
    <3> QED
      BY <3>2, <3>3
  <2> QED
    BY <2>1, PrintedRow
<1>5. Leads(Edit(b, j, Row(b), c), p, Edit(b, j, Row(b), j)) /\ Len(p) \in Nat
  <2>1. c + (j - c) = j
    BY <1>2
  <2> HIDE DEF j
  <2>2. Leads(Edit(b, j, Row(b), c), p, Edit(b, j, Printed(Row(b), c, p, Len(p)), c + Len(p)))
    BY <1>2, <1>3, PrintingLeads
  <2> QED
    BY <1>3, <1>4, <2>1, <2>2
<1>6. Sends(Edit(b, j, Row(b), c), p) = LineAt(b, j)
  BY <1>5, LeadsThere DEF LineAt
<1> QED
  BY <1>1, <1>2, <1>6 DEF LineOK

\* The rest of a line is sent anew, and the cursor goes back: the row shows the line.
LEMMA Redrawn ==
    ASSUME NEW d \in Buffers, NEW c, NEW r \in Rows, NEW l \in Nat,
           NEW p \in Seq(Letters \cup {Blank}),
           NEW n \in Nat, NEW m, m = l + Len(p) - n,
           \A i \in Columns : (IF l <= i /\ i < l + Len(p) THEN p[i - l + 1] ELSE r[i])
                                = (IF i < Strleng(d) THEN d[i] ELSE Blank)
    PROVE  /\ Leads(Edit(d, c, r, l), p \o Backspaces(n), Edit(d, c, Row(d), m))
           /\ p \o Backspaces(n) \in Seq(Int)
<1>0. PICK x \in Nat : x = Len(p)
  OBVIOUS
<1>1. Printed(r, l, p, x) = Row(d)
  BY <1>0, PrintedRow
<1>2. /\ Leads(Edit(d, c, r, l), p, Edit(d, c, Row(d), l + x))
      /\ p \in Seq(Int) /\ Row(d) \in Rows
  <2>1. /\ Leads(Edit(d, c, r, l), p, Edit(d, c, Printed(r, l, p, Len(p)), l + Len(p)))
        /\ Printed(r, l, p, Len(p)) \in Rows /\ p \in Seq(Int)
    BY PrintingLeads
  <2>2. Printed(r, l, p, Len(p)) = Row(d) /\ l + Len(p) = l + x
    BY <1>0, <1>1, Zenon
  <2>3. Leads(Edit(d, c, r, l), p, Edit(d, c, Row(d), l + x))
    BY <2>1, <2>2, Zenon
  <2> QED
    BY <2>1, <2>2, <2>3, Zenon
<1>3. PICK y \in Int : y = l + x /\ m = y - n
  <2>1. m = (l + x) - n
    BY <1>0
  <2>2. l + x \in Int
    BY <1>0
  <2> QED
    BY <2>1, <2>2, Zenon
<1>4. /\ Leads(Edit(d, c, Row(d), y), Backspaces(n), Edit(d, c, Row(d), m))
      /\ Backspaces(n) \in Seq(Int)
  BY <1>2, <1>3, BackspacesLead
<1>5. Leads(Edit(d, c, r, l), p \o Backspaces(n), Edit(d, c, Row(d), m))
  BY <1>2, <1>3, <1>4, LeadsOn
<1>6. p \o Backspaces(n) \in Seq(Int)
  BY <1>2, <1>4
<1> QED
  BY <1>5, <1>6

\* A part of a line and a blank to hide what was behind it.
LEMMA EndedPart ==
    ASSUME NEW b \in Buffers, NEW i \in Nat, NEW j \in Nat, i <= j, j <= Strleng(b)
    PROVE  LET p == Part(b, i, j) \o <<Blank>> IN
           /\ p \in Seq(Letters \cup {Blank}) /\ Len(p) = j - i + 1
           /\ \A k \in 1..(j - i) : p[k] = b[i + k - 1]
           /\ p[j - i + 1] = Blank
<1> DEFINE q == Part(b, i, j)
<1>1. PICK n \in Nat : n = j - i
  OBVIOUS
<1>2. /\ q \in Seq(Letters \cup {Blank}) /\ Len(q) = n
      /\ \A k \in 1..n : q[k] = b[i + k - 1]
  BY <1>1, PartIs
<1> HIDE DEF q
<1>3. /\ q \o <<Blank>> \in Seq(Letters \cup {Blank}) /\ Len(q \o <<Blank>>) = n + 1
      /\ \A k \in 1..n : (q \o <<Blank>>)[k] = q[k]
      /\ (q \o <<Blank>>)[n + 1] = Blank
  BY <1>2
<1>4. \A k \in 1..n : (q \o <<Blank>>)[k] = b[i + k - 1]
  BY <1>2, <1>3
<1> QED
  BY <1>1, <1>3, <1>4 DEF q

\* A line without one of its characters.
LEMMA RemovedIs ==
    ASSUME NEW b \in Buffers, NEW j \in Nat, j = Strleng(b), NEW q \in 0..(j - 1)
    PROVE  /\ Removed(b, q) \in Buffers /\ Strleng(Removed(b, q)) = j - 1
           /\ \A i \in 0..(j - 2) : Removed(b, q)[i] = IF i < q THEN b[i] ELSE b[i + 1]
<1> DEFINE d == Removed(b, q)
<1>1. /\ j \in 0..MAX_LINE_COLUMS /\ \A i \in 0..(j - 1) : b[i] \in Letters
      /\ \A i \in 0..MAX_LINE_COLUMS : b[i] \in Letters \cup {NUL}
      /\ b \in [0..MAX_LINE_COLUMS -> Letters \cup {NUL}] /\ b[MAX_LINE_COLUMS] = NUL
  BY LengthsEnd DEF Buffers
<1>2. d = [i \in 0..MAX_LINE_COLUMS |-> IF i = j - 1 THEN NUL
                                         ELSE IF i \in q..(j - 2) THEN b[i + 1] ELSE b[i]]
  BY <1>1 DEF Removed
<1> HIDE DEF d
<1>3. \A i \in 0..MAX_LINE_COLUMS :
         (IF i = j - 1 THEN NUL ELSE IF i \in q..(j - 2) THEN b[i + 1] ELSE b[i]) \in Letters \cup {NUL}
  BY <1>1, LineColumns
<1>4. d \in [0..MAX_LINE_COLUMS -> Letters \cup {NUL}]
  BY <1>2, <1>3
<1>5. d[MAX_LINE_COLUMS] = NUL
  BY <1>1, <1>2, LineColumns
<1>6. d[j - 1] = NUL /\ j - 1 \in 0..MAX_LINE_COLUMS
  BY <1>1, <1>2, LineColumns
<1>7. \A i \in 0..(j - 2) : d[i] = IF i < q THEN b[i] ELSE b[i + 1]
  BY <1>1, <1>2, LineColumns
<1>8. \A i \in 0..((j - 1) - 1) : d[i] # NUL
  <2> TAKE i \in 0..((j - 1) - 1)
  <2>1. i \in 0..(j - 2) /\ i \in 0..(j - 1) /\ i + 1 \in 0..(j - 1)
    OBVIOUS
  <2>2. b[i] \in Letters /\ b[i + 1] \in Letters
    BY <1>1, <2>1
  <2> QED
    BY <1>7, <2>1, <2>2, LineColumns
<1>9. Strleng(d) = j - 1
  BY <1>4, <1>5, <1>6, <1>8, LengthIs DEF Buffers
<1> QED
  BY <1>4, <1>5, <1>7, <1>9 DEF d, Buffers

\* DEL.
LEMMA DeleteKey ==
    ASSUME NEW b \in Buffers, NEW c \in 0..Strleng(b)
    PROVE  LineOK(DeleteChar(LineAt(b, c)))
<1>1. PICK j \in Nat : j = Strleng(b) /\ c \in 0..j /\ j <= MAX_LINE_COLUMS
  BY LengthsEnd, LineColumns
<1>2. CASE c >= j
  <2>1. DeleteChar(LineAt(b, c)) = LineAt(b, c)
    BY <1>1, <1>2 DEF DeleteChar, LineLength, LineAt, Edit
  <2> QED
    BY <2>1 DEF LineOK
<1>3. CASE ~ c >= j
  <2> DEFINE d == Removed(b, c)
             p == Part(b, c + 1, j) \o <<Blank>>
  <2>1. DeleteChar(LineAt(b, c)) = Sends(Edit(d, c, Row(b), c), p \o Backspaces(j - c))
    BY <1>1, <1>3 DEF DeleteChar, LineLength, LineAt, Edit
  <2>2. c \in 0..(j - 1) /\ c + 1 \in Nat /\ c + 1 <= j /\ j <= Strleng(b)
    BY <1>1, <1>3
  <2>3. /\ d \in Buffers /\ Strleng(d) = j - 1
        /\ \A i \in 0..(j - 2) : d[i] = IF i < c THEN b[i] ELSE b[i + 1]
    BY <1>1, <2>2, RemovedIs
  <2>4. PICK n \in Nat : n = j - c
    BY <1>1, <1>3
  <2>5. /\ p \in Seq(Letters \cup {Blank}) /\ Len(p) = n
        /\ p[n] = Blank /\ \A k \in 1..(n - 1) : p[k] = b[c + k]
    <3>1. PICK x \in Nat : x = c + 1
      BY <2>2
    <3>2. LET q == Part(b, x, j) \o <<Blank>> IN
           /\ q \in Seq(Letters \cup {Blank}) /\ Len(q) = j - x + 1
           /\ \A k \in 1..(j - x) : q[k] = b[x + k - 1]
           /\ q[j - x + 1] = Blank
      BY <2>2, <3>1, EndedPart
    <3>3. /\ p \in Seq(Letters \cup {Blank}) /\ Len(p) = j - x + 1
          /\ \A k \in 1..(j - x) : p[k] = b[x + k - 1]
          /\ p[j - x + 1] = Blank
      BY <3>1, <3>2
    <3>4. j - x + 1 = n /\ \A k \in 1..(n - 1) : k \in 1..(j - x) /\ x + k - 1 = c + k
      BY <2>2, <2>4, <3>1
    <3> HIDE DEF p
    <3> QED
      BY <3>3, <3>4
  <2> HIDE DEF d, p
  <2>6. ASSUME NEW i \in Columns
        PROVE  (IF c <= i /\ i < c + n THEN p[i - c + 1] ELSE Row(b)[i])
                 = (IF i < Strleng(d) THEN d[i] ELSE Blank)
    <3>1. i \in Nat /\ i <= MAX_LINE_COLUMS
      BY LineColumns
    <3>2. Row(b)[i] = IF i < j THEN b[i] ELSE Blank
      BY <1>1 DEF Row
    <3>3. CASE i < c
      <4>1. i \in 0..(j - 2) /\ i < j
        BY <2>2, <3>1, <3>3
      <4> QED
        BY <2>2, <2>3, <3>1, <3>2, <3>3, <4>1
    <3>4. CASE c <= i /\ i < j - 1
      <4>1. i - c + 1 \in 1..(n - 1) /\ i < c + n /\ c + (i - c + 1) = i + 1 /\ i \in 0..(j - 2) /\ ~ i < c
        BY <2>2, <2>4, <3>1, <3>4
      <4>2. p[i - c + 1] = b[i + 1]
        BY <2>5, <4>1
      <4> QED
        BY <2>3, <3>4, <4>1, <4>2
    <3>5. CASE i = j - 1
      <4>1. c <= i /\ i < c + n /\ i - c + 1 = n
        BY <2>2, <2>4, <3>5
      <4>2. p[n] = Blank
        BY <2>5
      <4> QED
        BY <2>3, <3>5, <4>1, <4>2
    <3>6. CASE i >= j
      <4>1. ~ i < c + n /\ ~ i < j - 1 /\ ~ i < j
        BY <2>2, <2>4, <3>1, <3>6
      <4> QED
        BY <2>3, <3>2, <4>1
    <3> QED
      BY <2>2, <3>1, <3>3, <3>4, <3>5, <3>6
  <2>7. Leads(Edit(d, c, Row(b), c), p \o Backspaces(n), Edit(d, c, Row(d), c))
        /\ p \o Backspaces(n) \in Seq(Int)
    <3>1. c \in Nat /\ c = c + Len(p) - n /\ Row(b) \in Rows
      BY <2>2, <2>5, LengthsEnd
    <3>2. \A i \in Columns : (IF c <= i /\ i < c + Len(p) THEN p[i - c + 1] ELSE Row(b)[i])
                               = (IF i < Strleng(d) THEN d[i] ELSE Blank)
      BY <2>5, <2>6
    <3> QED
      BY <2>3, <2>5, <3>1, <3>2, Redrawn
  <2>8. Sends(Edit(d, c, Row(b), c), p \o Backspaces(n)) = LineAt(d, c)
    <3>1. Len(p \o Backspaces(n)) \in Nat
      BY <2>7
    <3> QED
      BY <2>7, <3>1, LeadsThere DEF LineAt
  <2>9. c \in 0..Strleng(d)
    BY <2>2, <2>3
  <2> QED
    BY <2>1, <2>3, <2>4, <2>8, <2>9 DEF LineOK
<1> QED
  BY <1>2, <1>3

\* BACKSPACE.
LEMMA BackspaceKey ==
    ASSUME NEW b \in Buffers, NEW c \in 0..Strleng(b)
    PROVE  LineOK(BackspaceChar(LineAt(b, c)))
<1>1. PICK j \in Nat : j = Strleng(b) /\ c \in 0..j /\ j <= MAX_LINE_COLUMS
  BY LengthsEnd, LineColumns
<1>2. CASE c = 0
  <2>1. BackspaceChar(LineAt(b, c)) = LineAt(b, c)
    BY <1>2 DEF BackspaceChar, LineAt, Edit
  <2> QED
    BY <2>1 DEF LineOK
<1>3. CASE c # 0
  <2>0. PICK a \in Nat, n \in Nat : a = c - 1 /\ n = j - c
    BY <1>1, <1>3, SMTT(30)
  <2> DEFINE d == Removed(b, a)
             p == Part(b, c, j) \o <<Blank>>
  <2>1. BackspaceChar(LineAt(b, c))
          = Sends(Edit(d, a, Row(b), c), <<BS>> \o p \o Backspaces(n) \o <<BS>>)
    <3>1. BackspaceChar(LineAt(b, c))
            = Sends(Edit(d, a, Row(b), c), <<BS>> \o Part(b, c, j) \o <<Blank>> \o Backspaces(n) \o <<BS>>)
      <4>1. /\ LineAt(b, c).cur_pos = c /\ LineAt(b, c).buf = b
            /\ LineLength(LineAt(b, c)) = j
        BY <1>1 DEF LineLength, LineAt, Edit
      <4>2. WithCur(WithBuf(LineAt(b, c), d), a) = Edit(d, a, Row(b), c)
        <5> HIDE DEF d
        <5> QED
          BY LineEdits
      <4>3. BackspaceChar(LineAt(b, c))
              = Sends(WithCur(WithBuf(LineAt(b, c), d), a),
                      <<BS>> \o Part(b, c, j) \o <<Blank>> \o Backspaces(n) \o <<BS>>)
        BY <1>3, <2>0, <4>1 DEF BackspaceChar, WithBuf, WithCur
      <4> QED
        BY <4>2, <4>3
    <3>2. Part(b, c, j) \in Seq(Letters \cup {Blank})
      <4>1. c \in Nat /\ c <= j /\ j <= Strleng(b)
        BY <1>1
      <4> QED
        BY <4>1, PartIs
    <3>3. <<BS>> \in Seq(Int) /\ Letters \subseteq Int /\ <<Blank>> \in Seq(Int)
      BY LineColumns DEF BS, Blank
    <3>4. <<BS>> \o Part(b, c, j) \o <<Blank>> = <<BS>> \o p
      <4>1. PICK q \in Seq(Letters \cup {Blank}) : q = Part(b, c, j)
        BY <3>2
      <4>2. q \in Seq(Int)
        <5>1. Letters \cup {Blank} \subseteq Int
          BY LineColumns DEF Blank
        <5> QED
          BY <5>1
      <4>3. <<BS>> \o q \o <<Blank>> = <<BS>> \o (q \o <<Blank>>)
        BY <3>3, <4>2, JoinInAnyOrder
      <4> QED
        BY <4>1, <4>3
    <3> QED
      BY <3>1, <3>4
  <2>2. a \in 0..(j - 1) /\ c \in Nat /\ c <= j /\ j <= Strleng(b) /\ a + 1 = c
    BY <1>1, <1>3, <2>0
  <2>3. /\ d \in Buffers /\ Strleng(d) = j - 1
        /\ \A i \in 0..(j - 2) : d[i] = IF i < a THEN b[i] ELSE b[i + 1]
    BY <1>1, <2>2, RemovedIs
  <2>5. /\ p \in Seq(Letters \cup {Blank}) /\ Len(p) = n + 1
        /\ p[n + 1] = Blank /\ \A k \in 1..n : p[k] = b[a + k]
    <3>2. LET q == Part(b, c, j) \o <<Blank>> IN
           /\ q \in Seq(Letters \cup {Blank}) /\ Len(q) = j - c + 1
           /\ \A k \in 1..(j - c) : q[k] = b[c + k - 1]
           /\ q[j - c + 1] = Blank
      BY <2>2, EndedPart
    <3>3. /\ p \in Seq(Letters \cup {Blank}) /\ Len(p) = j - c + 1
          /\ \A k \in 1..(j - c) : p[k] = b[c + k - 1]
          /\ p[j - c + 1] = Blank
      BY <3>2
    <3>4. j - c + 1 = n + 1 /\ \A k \in 1..n : k \in 1..(j - c) /\ c + k - 1 = a + k
      BY <2>0, <2>2
    <3> HIDE DEF p
    <3> QED
      BY <3>3, <3>4
  <2> HIDE DEF d, p
  <2>6. ASSUME NEW i \in Columns
        PROVE  (IF a <= i /\ i < a + Len(p) THEN p[i - a + 1] ELSE Row(b)[i])
                 = (IF i < Strleng(d) THEN d[i] ELSE Blank)
    <3>0. Len(p) = n + 1
      BY <2>5
    <3>1. i \in Nat /\ i <= MAX_LINE_COLUMS
      BY LineColumns
    <3>2. Row(b)[i] = IF i < j THEN b[i] ELSE Blank
      BY <1>1 DEF Row
    <3>3. CASE i < a
      <4>1. i \in 0..(j - 2) /\ i < j
        BY <2>2, <3>1, <3>3
      <4> QED
        BY <2>2, <2>3, <3>0, <3>1, <3>2, <3>3, <4>1
    <3>4. CASE a <= i /\ i < j - 1
      <4>1. i - a + 1 \in 1..n /\ i < a + (n + 1) /\ a + (i - a + 1) = i + 1 /\ i \in 0..(j - 2) /\ ~ i < a
        BY <2>0, <2>2, <3>1, <3>4
      <4>2. p[i - a + 1] = b[i + 1]
        BY <2>5, <4>1
      <4> QED
        BY <2>3, <3>0, <3>4, <4>1, <4>2
    <3>5. CASE i = j - 1
      <4>1. a <= i /\ i < a + (n + 1) /\ i - a + 1 = n + 1
        BY <2>0, <2>2, <3>5
      <4>2. p[n + 1] = Blank
        BY <2>5
      <4> QED
        BY <2>3, <3>0, <3>5, <4>1, <4>2
    <3>6. CASE i >= j
      <4>1. ~ i < a + (n + 1) /\ ~ i < j - 1 /\ ~ i < j
        BY <2>0, <2>2, <3>1, <3>6
      <4> QED
        BY <2>3, <3>0, <3>2, <4>1
    <3> QED
      BY <2>2, <3>1, <3>3, <3>4, <3>5, <3>6
  <2>7. Leads(Edit(d, a, Row(b), a), p \o Backspaces(n), Edit(d, a, Row(d), c))
        /\ p \o Backspaces(n) \in Seq(Int)
    <3>1. a \in Nat /\ c = a + Len(p) - n /\ Row(b) \in Rows
      BY <2>0, <2>2, <2>5, LengthsEnd
    <3> QED
      BY <2>3, <2>5, <2>6, <3>1, Redrawn
  <2>8. /\ Row(b) \in Rows /\ Row(d) \in Rows /\ c \in Int /\ c - 1 = a /\ a - 0 = a
        /\ p \in Seq(Int) /\ Backspaces(n) \in Seq(Int) /\ <<BS>> \in Seq(Int)
    <3>1. Letters \cup {Blank} \subseteq Int
      BY LineColumns DEF Blank
    <3>2. p \in Seq(Int)
      BY <2>5, <3>1
    <3>3. Backspaces(n) \in Seq(Int) /\ <<BS>> \in Seq(Int)
      BY DEF Backspaces, BS
    <3> QED
      BY <2>0, <2>2, <2>3, <3>2, <3>3, LengthsEnd
  <2>9. /\ Leads(Edit(d, a, Row(b), c), <<BS>>, Edit(d, a, Row(b), a))
        /\ Leads(Edit(d, a, Row(d), c), <<BS>>, Edit(d, a, Row(d), a))
    <3>1. /\ Leads(Edit(d, a, Row(b), c), <<BS>>, Edit(d, a, Row(b), c - 1))
          /\ Leads(Edit(d, a, Row(d), c), <<BS>>, Edit(d, a, Row(d), c - 1))
      BY <2>8, OneLeads
    <3> QED
      BY <2>8, <3>1
  <2>10. Leads(Edit(d, a, Row(b), c), <<BS>> \o (p \o Backspaces(n)), Edit(d, a, Row(d), c))
    BY <2>7, <2>8, <2>9, LeadsOn
  <2>11. <<BS>> \o (p \o Backspaces(n)) \in Seq(Int)
    BY <2>7, <2>8
  <2>12. Leads(Edit(d, a, Row(b), c), (<<BS>> \o (p \o Backspaces(n))) \o <<BS>>, Edit(d, a, Row(d), a))
    BY <2>8, <2>9, <2>10, <2>11, LeadsOn
  <2>13. (<<BS>> \o (p \o Backspaces(n))) \o <<BS>> = <<BS>> \o p \o Backspaces(n) \o <<BS>>
    <3>1. PICK q \in Seq(Int) : q = Backspaces(n)
      BY <2>8
    <3>2. PICK u \in Seq(Int), v \in Seq(Int) : u = <<BS>> /\ v = p
      BY <2>8
    <3>3. u \o (v \o q) = (u \o v) \o q
      BY JoinInAnyOrder, SMTT(60)
    <3> QED
      BY <3>1, <3>2, <3>3
  <2>14. Sends(Edit(d, a, Row(b), c), <<BS>> \o p \o Backspaces(n) \o <<BS>>) = LineAt(d, a)
    <3>1. Len((<<BS>> \o (p \o Backspaces(n))) \o <<BS>>) \in Nat
      BY <2>8, <2>11
    <3> QED
      BY <2>12, <2>13, <3>1, LeadsThere DEF LineAt
  <2>15. a \in 0..Strleng(d)
    BY <2>2, <2>3
  <2> QED
    BY <2>1, <2>3, <2>14, <2>15 DEF LineOK
<1> QED
  BY <1>2, <1>3

\* CTRL-K.
LEMMA EraseKey ==
    ASSUME NEW b \in Buffers, NEW c \in 0..Strleng(b)
    PROVE  LineOK(EraseToEnd(LineAt(b, c)))
<1>1. PICK j \in Nat : j = Strleng(b) /\ c \in 0..j /\ j <= MAX_LINE_COLUMS
  BY LengthsEnd, LineColumns
<1> DEFINE d == [i \in 0..MAX_LINE_COLUMS |-> IF i \in c..(j - 1) THEN NUL ELSE b[i]]
<1>2. EraseToEnd(LineAt(b, c)) = Sends(Edit(d, c, Row(b), c), <<EraseLine>>)
  <2>1. DOMAIN b = 0..MAX_LINE_COLUMS
    BY DEF Buffers
  <2>2. /\ LineAt(b, c).cur_pos = c /\ LineAt(b, c).buf = b
        /\ LineLength(LineAt(b, c)) = j
    BY <1>1 DEF LineLength, LineAt, Edit
  <2>3. WithBuf(LineAt(b, c), d) = Edit(d, c, Row(b), c)
    <3> HIDE DEF d
    <3> QED
      BY LineEdits
  <2>4. EraseToEnd(LineAt(b, c)) = Sends(WithBuf(LineAt(b, c), d), <<EraseLine>>)
    BY <2>1, <2>2 DEF EraseToEnd, WithBuf
  <2> QED
    BY <2>3, <2>4
<1>3. /\ \A i \in 0..MAX_LINE_COLUMS : b[i] \in Letters \cup {NUL}
      /\ \A i \in 0..(j - 1) : b[i] \in Letters /\ b[j] = NUL
      /\ Row(b) \in Rows /\ b[MAX_LINE_COLUMS] = NUL
  BY <1>1, LengthsEnd DEF Buffers
<1>4. d \in Buffers
  <2>1. d \in [0..MAX_LINE_COLUMS -> Letters \cup {NUL}]
    BY <1>3
  <2>2. d[MAX_LINE_COLUMS] = NUL
    BY <1>1, <1>3, LineColumns
  <2> QED
    BY <2>1, <2>2 DEF Buffers
<1>5. c \in 0..MAX_LINE_COLUMS /\ d[c] = NUL
  <2>1. c \in 0..MAX_LINE_COLUMS
    BY <1>1, LineColumns
  <2>2. CASE c = j
    <3>1. b[j] = NUL
      BY <1>1, LengthsEnd
    <3> QED
      BY <2>1, <2>2, <3>1
  <2>3. CASE c # j
    <3>1. c \in c..(j - 1)
      BY <1>1, <2>3
    <3> QED
      BY <2>1, <3>1
  <2> QED
    BY <2>1, <2>2, <2>3
<1>6. \A i \in 0..(c - 1) : d[i] = b[i] /\ d[i] # NUL
  <2> TAKE i \in 0..(c - 1)
  <2>1. i \in 0..MAX_LINE_COLUMS /\ i \notin c..(j - 1) /\ i \in 0..(j - 1)
    BY <1>1, LineColumns
  <2>2. d[i] = b[i] /\ b[i] \in Letters
    BY <1>3, <2>1
  <2> QED
    BY <2>2, LineColumns
<1> HIDE DEF d
<1>7. Strleng(d) = c
  BY <1>4, <1>5, <1>6, LengthIs
<1>8. Erased(Row(b), c) = Row(d)
  <2>1. ASSUME NEW i \in Columns
        PROVE  (IF i < c THEN Row(b)[i] ELSE Blank) = (IF i < Strleng(d) THEN d[i] ELSE Blank)
    <3>1. i \in Nat
      BY LineColumns
    <3>2. CASE i < c
      <4>1. i \in 0..(c - 1) /\ i < j
        BY <1>1, <3>1, <3>2
      <4> QED
        BY <1>1, <1>6, <1>7, <3>2, <4>1 DEF Row
    <3> QED
      BY <1>7, <3>2
  <2> QED
    BY <2>1 DEF Erased, Row
<1>9. Leads(Edit(d, c, Row(b), c), <<EraseLine>>, Edit(d, c, Row(d), c))
  <2>1. c \in Int
    BY <1>1
  <2> QED
    BY <1>3, <1>8, <2>1, OneLeads
<1>10. Sends(Edit(d, c, Row(b), c), <<EraseLine>>) = LineAt(d, c)
  <2>1. Len(<<EraseLine>>) \in Nat
    OBVIOUS
  <2> QED
    BY <1>9, <2>1, LeadsThere DEF LineAt
<1>11. c \in 0..Strleng(d)
  BY <1>1, <1>7
<1> QED
  BY <1>2, <1>4, <1>10, <1>11 DEF LineOK, d

\* A letter.
LEMMA InsertKey ==
    ASSUME NEW b \in Buffers, NEW c \in 0..Strleng(b), NEW ch \in Letters
    PROVE  LineOK(InsertChar(LineAt(b, c), ch))
<1>1. PICK j \in Nat : j = Strleng(b) /\ c \in 0..j /\ j <= MAX_LINE_COLUMS
  BY LengthsEnd, LineColumns
<1>2. /\ LineAt(b, c).cur_pos = c /\ LineAt(b, c).buf = b
      /\ LineLength(LineAt(b, c)) = j
  BY <1>1 DEF LineLength, LineAt, Edit
<1>3. CASE j >= MAX_LINE_COLUMS
  <2>1. InsertChar(LineAt(b, c), ch) = LineAt(b, c)
    BY <1>2, <1>3 DEF InsertChar
  <2> QED
    BY <2>1 DEF LineOK
<1>4. CASE ~ j >= MAX_LINE_COLUMS
  <2> DEFINE d == [i \in 0..MAX_LINE_COLUMS |->
                     IF i = c THEN ch
                     ELSE IF i = j + 1 THEN NUL
                     ELSE IF i \in c..j THEN b[i - 1] ELSE b[i]]
             p == Part(d, c, j + 1)
  <2>1. InsertChar(LineAt(b, c), ch) = Sends(Edit(d, c + 1, Row(b), c), p \o Backspaces(j - c))
    <3>1. DOMAIN b = 0..MAX_LINE_COLUMS
      BY DEF Buffers
    <3>2. WithCur(WithBuf(LineAt(b, c), d), c + 1) = Edit(d, c + 1, Row(b), c)
      <4> HIDE DEF d
      <4> QED
        BY LineEdits
    <3>3. InsertChar(LineAt(b, c), ch)
            = Sends(WithCur(WithBuf(LineAt(b, c), d), c + 1), p \o Backspaces(j - c))
      BY <1>2, <1>4, <3>1 DEF InsertChar, WithBuf, WithCur
    <3> QED
      BY <3>2, <3>3
  <2>2. /\ \A i \in 0..(j - 1) : b[i] \in Letters
        /\ \A i \in 0..MAX_LINE_COLUMS : b[i] \in Letters \cup {NUL}
        /\ Row(b) \in Rows /\ j + 1 \in 0..MAX_LINE_COLUMS /\ b[MAX_LINE_COLUMS] = NUL
    BY <1>1, <1>4, LengthsEnd, LineColumns DEF Buffers
  <2>3. \A i \in 0..j : d[i] = (IF i < c THEN b[i] ELSE IF i = c THEN ch ELSE b[i - 1]) /\ d[i] \in Letters
    <3> TAKE i \in 0..j
    <3>1. i \in 0..MAX_LINE_COLUMS /\ i # j + 1
      BY <2>2, LineColumns
    <3>2. CASE i < c
      <4>1. i # c /\ i \notin c..j /\ i \in 0..(j - 1)
        BY <1>1, <3>2
      <4> QED
        BY <2>2, <3>1, <3>2, <4>1
    <3>3. CASE i = c
      BY <3>1, <3>3, <1>1
    <3>4. CASE c < i
      <4>1. i # c /\ i \in c..j /\ i - 1 \in 0..(j - 1) /\ ~ i < c
        BY <1>1, <3>4
      <4> QED
        BY <2>2, <3>1, <4>1
    <3> QED
      BY <1>1, <3>2, <3>3, <3>4
  <2>4. d[j + 1] = NUL
    BY <1>1, <2>2
  <2>5. d \in Buffers
    <3>1. \A i \in 0..MAX_LINE_COLUMS : d[i] \in Letters \cup {NUL}
      <4> TAKE i \in 0..MAX_LINE_COLUMS
      <4>1. CASE i \in 0..j
        BY <2>3, <4>1
      <4>2. CASE i = j + 1
        BY <2>4, <4>2
      <4>3. CASE i > j + 1
        <5>1. i # c /\ i # j + 1 /\ i \notin c..j
          BY <1>1, <4>3
        <5> QED
          BY <2>2, <5>1
      <4> QED
        BY <1>1, <4>1, <4>2, <4>3, LineColumns
    <3>2. d[MAX_LINE_COLUMS] = NUL
      <4>1. CASE MAX_LINE_COLUMS = j + 1
        BY <2>4, <4>1
      <4>2. CASE MAX_LINE_COLUMS # j + 1
        <5>1. /\ MAX_LINE_COLUMS \in 0..MAX_LINE_COLUMS /\ MAX_LINE_COLUMS # c
              /\ MAX_LINE_COLUMS \notin c..j
          BY <1>1, <1>4, LineColumns
        <5> QED
          BY <2>2, <4>2, <5>1
      <4> QED
        BY <4>1, <4>2
    <3>3. d = [i \in 0..MAX_LINE_COLUMS |-> d[i]]
      OBVIOUS
    <3> HIDE DEF d
    <3>4. d \in [0..MAX_LINE_COLUMS -> Letters \cup {NUL}]
      BY <3>1, <3>3
    <3> QED
      BY <3>2, <3>4 DEF Buffers
  <2> HIDE DEF d
  <2>6. Strleng(d) = j + 1
    <3>1. \A i \in 0..((j + 1) - 1) : d[i] # NUL
      BY <2>3, LineColumns
    <3> QED
      BY <2>2, <2>4, <2>5, <3>1, LengthIs
  <2>7. PICK n \in Nat : n = j - c
    BY <1>1
  <2>8. /\ p \in Seq(Letters \cup {Blank}) /\ Len(p) = n + 1
        /\ \A k \in 1..(n + 1) : p[k] = d[c + k - 1]
    <3>1. PICK x \in Nat : x = j + 1
      BY <1>1
    <3>2. c \in Nat /\ c <= x /\ x <= Strleng(d)
      BY <1>1, <2>6, <3>1
    <3>3. /\ Part(d, c, x) \in Seq(Letters \cup {Blank}) /\ Len(Part(d, c, x)) = x - c
          /\ \A k \in 1..(x - c) : Part(d, c, x)[k] = d[c + k - 1]
      BY <2>5, <3>2, PartIs
    <3>4. x - c = n + 1
      BY <1>1, <2>7, <3>1
    <3> QED
      BY <3>1, <3>3, <3>4
  <2> HIDE DEF p
  <2>9. ASSUME NEW i \in Columns
        PROVE  (IF c <= i /\ i < c + Len(p) THEN p[i - c + 1] ELSE Row(b)[i])
                 = (IF i < Strleng(d) THEN d[i] ELSE Blank)
    <3>0. Len(p) = n + 1 /\ Strleng(d) = j + 1
      BY <2>6, <2>8
    <3>1. i \in Nat
      BY LineColumns
    <3>2. Row(b)[i] = IF i < j THEN b[i] ELSE Blank
      BY <1>1 DEF Row
    <3>3. CASE i < c
      <4>1. i \in 0..j /\ i < j /\ i < j + 1 /\ ~ c <= i
        BY <1>1, <3>1, <3>3
      <4> QED
        BY <2>3, <3>0, <3>2, <3>3, <4>1
    <3>4. CASE c <= i /\ i <= j
      <4>1. i - c + 1 \in 1..(n + 1) /\ i < c + (n + 1) /\ c + (i - c + 1) - 1 = i /\ i < j + 1
        BY <1>1, <2>7, <3>1, <3>4
      <4>2. p[i - c + 1] = d[i]
        BY <2>8, <4>1
      <4> QED
        BY <3>0, <3>4, <4>1, <4>2
    <3>5. CASE i > j
      <4>1. ~ i < c + (n + 1) /\ ~ i < j + 1 /\ ~ i < j
        BY <1>1, <2>7, <3>1, <3>5
      <4> QED
        BY <3>0, <3>2, <4>1
    <3> QED
      BY <1>1, <3>1, <3>3, <3>4, <3>5
  <2>10. PICK a \in Nat : a = c + 1
    BY <1>1
  <2>11. /\ Leads(Edit(d, a, Row(b), c), p \o Backspaces(n), Edit(d, a, Row(d), a))
         /\ p \o Backspaces(n) \in Seq(Int)
    <3>1. c \in Nat /\ a = c + Len(p) - n
      BY <1>1, <2>8, <2>10
    <3> QED
      BY <2>2, <2>5, <2>8, <2>9, <3>1, Redrawn
  <2>12. Sends(Edit(d, a, Row(b), c), p \o Backspaces(n)) = LineAt(d, a)
    <3>1. Len(p \o Backspaces(n)) \in Nat
      BY <2>11
    <3> QED
      BY <2>11, <3>1, LeadsThere DEF LineAt
  <2>13. a \in 0..Strleng(d)
    BY <1>1, <2>6, <2>10
  <2> QED
    BY <2>1, <2>5, <2>7, <2>10, <2>12, <2>13 DEF LineOK
<1> QED
  BY <1>3, <1>4

\* Lines as strings.
LEMMA LinesAre ==
    \A str : str \in Line <=> str \in Seq(Letters) /\ Len(str) <= MAX_LINE_COLUMS
<1>1. ASSUME NEW str \in Line
      PROVE  str \in Seq(Letters) /\ Len(str) <= MAX_LINE_COLUMS
  <2>1. PICK n \in 0..MAX_LINE_COLUMS : str \in [1..n -> Letters]
    BY DEF Line
  <2>2. n \in Nat /\ n <= MAX_LINE_COLUMS
    BY LineColumns
  <2> QED
    BY <2>1, <2>2
<1>2. ASSUME NEW str \in Seq(Letters), Len(str) <= MAX_LINE_COLUMS
      PROVE  str \in Line
  <2>1. str \in [1..Len(str) -> Letters] /\ Len(str) \in 0..MAX_LINE_COLUMS
    BY <1>2, LineColumns
  <2> QED
    BY <2>1 DEF Line
<1> QED
  BY <1>1, <1>2

\* The string that a line holds.
LEMMA StringIs ==
    ASSUME NEW b \in Buffers, NEW c
    PROVE  String(LineAt(b, c)) = Part(b, 0, Strleng(b)) /\ String(LineAt(b, c)) \in Line
<1>1. LineAt(b, c).buf = b /\ LineLength(LineAt(b, c)) = Strleng(b)
  BY DEF LineLength, LineAt, Edit
<1>2. String(LineAt(b, c)) = Part(b, 0, Strleng(b))
  BY <1>1 DEF String
<1>3. PICK j \in Nat : j = Strleng(b) /\ j <= MAX_LINE_COLUMS /\ j <= Strleng(b) /\ 0 <= j
  BY LengthsEnd, LineColumns
<1>4. Part(b, 0, j) \in Seq(Letters) /\ Len(Part(b, 0, j)) = j - 0
  BY <1>3, PartIs
<1> QED
  BY <1>2, <1>3, <1>4, LinesAre

\* The line on a new row.
LEMMA Redraw ==
    ASSUME NEW b \in Buffers, NEW c \in 0..Strleng(b)
    PROVE  LineOK(Draw(LineAt(b, c)))
<1>1. PICK j \in Nat : j = Strleng(b) /\ c \in 0..j /\ j <= MAX_LINE_COLUMS
  BY LengthsEnd, LineColumns
<1> DEFINE r == [i \in Columns |-> Blank]
           p == Part(b, 0, j)
<1>2. PICK n \in Nat : n = j - c
  BY <1>1
<1>3. /\ LineAt(b, c).cur_pos = c /\ LineAt(b, c).buf = b
      /\ LineLength(LineAt(b, c)) = j
  BY <1>1 DEF LineLength, LineAt, Edit
<1>4. Draw(LineAt(b, c)) = Sends(Edit(b, c, r, 0), p \o Backspaces(n))
  <2>1. NewLine.row = r
    BY DEF NewLine
  <2>2. [LineAt(b, c) EXCEPT !.row = r] = Edit(b, c, r, c)
    <3>1. PICK q, q2 : q = r /\ q2 = Row(b)
      OBVIOUS
    <3>2. [Edit(b, c, q2, c) EXCEPT !.row = q] = Edit(b, c, q, c)
      BY DEF Edit
    <3> HIDE DEF r
    <3> QED
      BY <3>1, <3>2 DEF LineAt
  <2>3. [Edit(b, c, r, c) EXCEPT !.col = 0] = Edit(b, c, r, 0)
    <3>1. PICK q : q = r
      OBVIOUS
    <3>2. [Edit(b, c, q, c) EXCEPT !.col = 0] = Edit(b, c, q, 0)
      BY DEF Edit
    <3> HIDE DEF r
    <3> QED
      BY <3>1, <3>2
  <2>4. [LineAt(b, c) EXCEPT !.row = NewLine.row, !.col = 0] = Edit(b, c, r, 0)
    BY <2>1, <2>2, <2>3
  <2>5. String(LineAt(b, c)) = p
    BY <1>1, StringIs
  <2> QED
    BY <1>2, <1>3, <2>4, <2>5 DEF Draw
<1>5. r \in Rows
  BY DEF Rows
<1>6. /\ p \in Seq(Letters \cup {Blank}) /\ Len(p) = j
      /\ \A k \in 1..j : p[k] = b[k - 1]
  <2>1. 0 <= j /\ j <= Strleng(b) /\ j - 0 = j
    BY <1>1
  <2>2. /\ p \in Seq(Letters \cup {Blank}) /\ Len(p) = j - 0
        /\ \A k \in 1..(j - 0) : p[k] = b[0 + k - 1]
    BY <2>1, PartIs
  <2>3. \A k \in 1..j : 0 + k - 1 = k - 1
    OBVIOUS
  <2> HIDE DEF p
  <2> QED
    BY <2>1, <2>2, <2>3
<1> HIDE DEF p
<1>7. ASSUME NEW i \in Columns
      PROVE  (IF 0 <= i /\ i < 0 + Len(p) THEN p[i - 0 + 1] ELSE r[i])
               = (IF i < Strleng(b) THEN b[i] ELSE Blank)
  <2>1. i \in Nat /\ 0 <= i /\ i - 0 + 1 = i + 1 /\ (i + 1) - 1 = i /\ 0 + Len(p) = j
    BY <1>6, LineColumns
  <2>2. i < j => p[i + 1] = b[i]
    BY <1>6, <2>1
  <2>3. r[i] = Blank
    OBVIOUS
  <2> HIDE DEF r
  <2> QED
    BY <1>1, <2>1, <2>2, <2>3
<1> HIDE DEF r
<1>8. /\ Leads(Edit(b, c, r, 0), p \o Backspaces(n), Edit(b, c, Row(b), c))
      /\ p \o Backspaces(n) \in Seq(Int)
  <2>1. c = 0 + Len(p) - n
    BY <1>1, <1>2, <1>6
  <2> QED
    BY <1>5, <1>6, <1>7, <2>1, Redrawn
<1>9. Sends(Edit(b, c, r, 0), p \o Backspaces(n)) = LineAt(b, c)
  <2>1. Len(p \o Backspaces(n)) \in Nat
    BY <1>8
  <2> QED
    BY <1>8, <2>1, LeadsThere DEF LineAt
<1> QED
  BY <1>4, <1>9 DEF LineOK

\* A line of the history.
LEMMA SetKey ==
    ASSUME NEW b \in Buffers, NEW c \in 0..Strleng(b), NEW str \in Line
    PROVE  LineOK(SetStr(LineAt(b, c), str))
<1>1. PICK n \in Nat : n = Len(str) /\ n <= MAX_LINE_COLUMS
  BY LinesAre
<1>2. str \in Seq(Letters) /\ str \in Seq(Letters \cup {Blank}) /\ \A k \in 1..n : str[k] \in Letters
  <2>1. str \in Seq(Letters)
    BY LinesAre
  <2> QED
    BY <1>1, <2>1
<1>3. c \in Nat /\ Row(b) \in Rows
  BY LengthsEnd, LineColumns
<1>4. /\ LineAt(b, c).cur_pos = c /\ LineAt(b, c).buf = b
  BY DEF LineAt, Edit
<1>5. /\ \A i \in 0..MAX_LINE_COLUMS : b[i] \in Letters \cup {NUL}
      /\ b[MAX_LINE_COLUMS] = NUL /\ DOMAIN b = 0..MAX_LINE_COLUMS
  BY LengthsEnd DEF Buffers
<1> DEFINE d == [i \in 0..MAX_LINE_COLUMS |->
                   IF i < n THEN str[i + 1]
                   ELSE IF i = n /\ i < MAX_LINE_COLUMS THEN NUL ELSE b[i]]
<1>6. SetStr(LineAt(b, c), str)
        = Sends(Edit(d, n, Row(b), c), Backspaces(c) \o <<EraseLine>> \o str)
  <2>1. WithCur(WithBuf(LineAt(b, c), d), n) = Edit(d, n, Row(b), c)
    <3> HIDE DEF d
    <3> QED
      BY LineEdits
  <2>2. SetStr(LineAt(b, c), str)
          = Sends(WithCur(WithBuf(LineAt(b, c), d), n), Backspaces(c) \o <<EraseLine>> \o str)
    BY <1>1, <1>4, <1>5 DEF SetStr, WithBuf, WithCur
  <2> QED
    BY <2>1, <2>2
<1>7. \A i \in 0..(n - 1) : d[i] = str[i + 1] /\ d[i] \in Letters
  <2> TAKE i \in 0..(n - 1)
  <2>1. i \in 0..MAX_LINE_COLUMS /\ i < n /\ i + 1 \in 1..n
    BY <1>1, LineColumns
  <2> QED
    BY <1>2, <2>1
<1>8. n \in 0..MAX_LINE_COLUMS /\ d[n] = NUL
  <2>1. n \in 0..MAX_LINE_COLUMS /\ ~ n < n
    BY <1>1, LineColumns
  <2>2. CASE n < MAX_LINE_COLUMS
    BY <2>1, <2>2
  <2>3. CASE ~ n < MAX_LINE_COLUMS
    <3>1. n = MAX_LINE_COLUMS
      BY <1>1, <2>3, LineColumns
    <3> QED
      BY <1>5, <2>1, <2>3, <3>1
  <2> QED
    BY <2>1, <2>2, <2>3
<1>9. d \in Buffers
  <2>1. \A i \in 0..MAX_LINE_COLUMS : d[i] \in Letters \cup {NUL}
    <3> TAKE i \in 0..MAX_LINE_COLUMS
    <3>1. CASE i < n
      <4>1. i \in 0..(n - 1)
        BY <3>1, LineColumns
      <4> QED
        BY <1>7, <4>1
    <3>2. CASE ~ i < n
      BY <1>5, <3>2
    <3> QED
      BY <3>1, <3>2
  <2>2. d[MAX_LINE_COLUMS] = NUL
    <3>1. MAX_LINE_COLUMS \in 0..MAX_LINE_COLUMS /\ ~ MAX_LINE_COLUMS < n /\ ~ MAX_LINE_COLUMS < MAX_LINE_COLUMS
      BY <1>1, LineColumns
    <3> QED
      BY <1>5, <3>1
  <2>3. d = [i \in 0..MAX_LINE_COLUMS |-> d[i]]
    OBVIOUS
  <2> HIDE DEF d
  <2>4. d \in [0..MAX_LINE_COLUMS -> Letters \cup {NUL}]
    BY <2>1, <2>3
  <2> QED
    BY <2>2, <2>4 DEF Buffers
<1> HIDE DEF d
<1>10. Strleng(d) = n
  <2>1. \A i \in 0..(n - 1) : d[i] # NUL
    BY <1>7, LineColumns
  <2> QED
    BY <1>8, <1>9, <2>1, LengthIs
<1> DEFINE r == Erased(Row(b), 0)
<1>11. /\ Leads(Edit(d, n, Row(b), c), Backspaces(c), Edit(d, n, Row(b), 0))
       /\ Backspaces(c) \in Seq(Int)
  <2>1. 0 = c - c /\ c \in Int
    BY <1>3
  <2> QED
    BY <1>3, <2>1, BackspacesLead
<1>12. /\ Leads(Edit(d, n, Row(b), 0), <<EraseLine>>, Edit(d, n, r, 0))
       /\ <<EraseLine>> \in Seq(Int) /\ r \in Rows
  BY <1>3, OneLeads
<1>13. \A i \in Columns : r[i] = Blank
  <2>1. \A i \in Columns : ~ i < 0
    BY LineColumns
  <2> QED
    BY <2>1 DEF Erased
<1> HIDE DEF r
<1>14. Printed(r, 0, str, n) = Row(d)
  <2>1. ASSUME NEW i \in Columns
        PROVE  (IF 0 <= i /\ i < 0 + n THEN str[i - 0 + 1] ELSE r[i])
                 = (IF i < Strleng(d) THEN d[i] ELSE Blank)
    <3>1. i \in Nat /\ 0 <= i /\ i - 0 + 1 = i + 1 /\ 0 + n = n
      BY LineColumns
    <3>2. i < n => str[i + 1] = d[i]
      BY <1>7, <3>1
    <3> QED
      BY <1>10, <1>13, <3>1, <3>2
  <2> QED
    BY <2>1, PrintedRow
<1>15. Leads(Edit(d, n, r, 0), str, Edit(d, n, Row(d), n)) /\ str \in Seq(Int)
  <2>1. /\ Leads(Edit(d, n, r, 0), str, Edit(d, n, Printed(r, 0, str, Len(str)), 0 + Len(str)))
        /\ str \in Seq(Int)
    BY <1>2, <1>12, PrintingLeads
  <2> QED
    BY <1>1, <1>14, <2>1
<1>16. /\ Leads(Edit(d, n, Row(b), c), Backspaces(c) \o <<EraseLine>>, Edit(d, n, r, 0))
       /\ Backspaces(c) \o <<EraseLine>> \in Seq(Int)
  <2>1. Leads(Edit(d, n, Row(b), c), Backspaces(c) \o <<EraseLine>>, Edit(d, n, r, 0))
    BY <1>11, <1>12, LeadsOn
  <2>2. Backspaces(c) \o <<EraseLine>> \in Seq(Int)
    BY <1>11, <1>12
  <2> QED
    BY <2>1, <2>2
<1>17. /\ Leads(Edit(d, n, Row(b), c), Backspaces(c) \o <<EraseLine>> \o str, Edit(d, n, Row(d), n))
       /\ Len(Backspaces(c) \o <<EraseLine>> \o str) \in Nat
  <2>1. Leads(Edit(d, n, Row(b), c), Backspaces(c) \o <<EraseLine>> \o str, Edit(d, n, Row(d), n))
    BY <1>15, <1>16, LeadsOn
  <2>2. PICK q \in Seq(Int) : q = Backspaces(c) \o <<EraseLine>>
    BY <1>16
  <2>3. Len(q \o str) \in Nat
    BY <1>15
  <2> QED
    BY <2>1, <2>2, <2>3
<1>18. Sends(Edit(d, n, Row(b), c), Backspaces(c) \o <<EraseLine>> \o str) = LineAt(d, n)
  BY <1>17, LeadsThere DEF LineAt
<1>19. n \in 0..Strleng(d)
  BY <1>10
<1> QED
  BY <1>6, <1>9, <1>18, <1>19 DEF LineOK

\* An empty line.
LEMMA NewLineOK ==
    /\ LineOK(NewLine)
    /\ \A e : LineOK(e) => [NewLine EXCEPT !.buf[MAX_LINE_COLUMS] = e.buf[MAX_LINE_COLUMS]] = NewLine
<1> DEFINE z == [i \in 0..MAX_LINE_COLUMS |-> NUL]
<1>1. z \in Buffers
  <2>1. MAX_LINE_COLUMS \in 0..MAX_LINE_COLUMS
    BY LineColumns
  <2> QED
    BY <2>1 DEF Buffers
<1>2. Strleng(z) = 0
  <2>1. 0 \in 0..MAX_LINE_COLUMS /\ z[0] = NUL /\ \A i \in 0..(0 - 1) : z[i] # NUL
    BY LineColumns
  <2> HIDE DEF z
  <2> QED
    BY <1>1, <2>1, LengthIs
<1>3. [i \in Columns |-> Blank] = Row(z)
  <2>1. \A i \in Columns : ~ i < 0
    BY LineColumns
  <2> QED
    BY <1>2, <2>1 DEF Row
<1>4. NewLine = LineAt(z, 0)
  <2>1. NewLine = Edit(z, 0, [i \in Columns |-> Blank], 0)
    BY DEF NewLine, Edit
  <2> QED
    BY <1>3, <2>1 DEF LineAt
<1>5. LineOK(NewLine)
  <2>1. 0 \in 0..Strleng(z)
    BY <1>2
  <2> HIDE DEF z
  <2> QED
    BY <1>1, <1>4, <2>1 DEF LineOK
<1>6. ASSUME NEW e, LineOK(e)
      PROVE  [NewLine EXCEPT !.buf[MAX_LINE_COLUMS] = e.buf[MAX_LINE_COLUMS]] = NewLine
  <2>1. PICK b \in Buffers : \E c \in 0..Strleng(b) : e = LineAt(b, c)
    BY <1>6 DEF LineOK
  <2>2. e.buf[MAX_LINE_COLUMS] = NUL
    BY <2>1 DEF LineAt, Edit, Buffers
  <2>3. NewLine.buf = z
    BY DEF NewLine
  <2>4. [z EXCEPT ![MAX_LINE_COLUMS] = NUL] = z
    OBVIOUS
  <2>5. [NewLine EXCEPT !.buf = NewLine.buf] = NewLine
    BY DEF NewLine
  <2>6. [NewLine EXCEPT !.buf[MAX_LINE_COLUMS] = NUL] = NewLine
    BY <2>3, <2>4, <2>5
  <2> QED
    BY <2>2, <2>6
<1> QED
  BY <1>5, <1>6

\* The lines that InsertString goes through.
TypedBy(e, str) ==
    CHOOSE typed : typed = [n \in 0..Len(str) |->
                              IF n = 0 THEN e ELSE InsertChar(typed[n - 1], str[n])]

\* Typing a word is typing its letters: it has no more than two.
LEMMA WordTyped ==
    ASSUME NEW e, LineOK(e), NEW str \in Seq(Letters), Len(str) <= 2
    PROVE  LineOK(InsertString(e, str))
<1>1. ASSUME NEW s, LineOK(s), NEW ch \in Letters
      PROVE  LineOK(InsertChar(s, ch))
  BY <1>1, InsertKey DEF LineOK
<1>2. PICK n \in 0..2 : n = Len(str)
  <2>1. Len(str) \in 0..2
    <3>1. Len(str) \in Nat
      OBVIOUS
    <3>2. \A k \in Nat : k <= 2 => k \in 0..2
      OBVIOUS
    <3> QED
      BY <3>1, <3>2
  <2> QED
    BY <2>1
<1> DEFINE one == InsertChar(e, str[1])
           two == InsertChar(one, str[2])
           f == [k \in 0..n |-> IF k = 0 THEN e ELSE IF k = 1 THEN one ELSE two]
           g == TypedBy(e, str)
<1>3. f = [k \in 0..n |-> IF k = 0 THEN e ELSE InsertChar(f[k - 1], str[k])]
  <2>1. ASSUME NEW k \in 0..n
        PROVE  f[k] = IF k = 0 THEN e ELSE InsertChar(f[k - 1], str[k])
    <3>1. CASE k = 0
      BY <3>1
    <3>2. CASE k = 1
      <4>1. k - 1 = 0 /\ k - 1 \in 0..n
        BY <3>2
      <4>2. f[k - 1] = e /\ f[k] = one
        BY <3>2, <4>1
      <4> HIDE DEF f
      <4> QED
        BY <3>2, <4>2
    <3>3. CASE k = 2
      <4>1. k - 1 = 1 /\ k - 1 \in 0..n
        BY <3>3
      <4>2. f[k - 1] = one /\ f[k] = two
        BY <3>3, <4>1
      <4> HIDE DEF f, one
      <4> QED
        BY <3>3, <4>2
    <3> QED
      BY <1>2, <3>1, <3>2, <3>3
  <2>2. f = [k \in 0..n |-> f[k]]
    OBVIOUS
  <2> HIDE DEF f
  <2> QED
    BY <2>1, <2>2
<1>4. g = [k \in 0..n |-> IF k = 0 THEN e ELSE InsertChar(g[k - 1], str[k])]
  <2> HIDE DEF f
  <2> QED
    BY <1>2, <1>3 DEF TypedBy
<1>5. InsertString(e, str) = g[n]
  BY <1>2 DEF InsertString, TypedBy
<1> HIDE DEF g, f
<1>6. g[0] = e
  BY <1>2, <1>4
<1>7. n >= 1 => g[1] = InsertChar(e, str[1])
  <2>1. n >= 1 => 1 \in 0..n /\ 1 - 1 = 0
    OBVIOUS
  <2> QED
    BY <1>4, <1>6, <2>1
<1>8. n = 2 => g[2] = InsertChar(g[1], str[2])
  <2>1. n = 2 => 2 \in 0..n /\ 2 - 1 = 1
    OBVIOUS
  <2> QED
    BY <1>4, <2>1
<1>9. /\ n >= 1 => str[1] \in Letters
      /\ n = 2 => str[2] \in Letters
  BY <1>2
<1>10. n >= 1 => LineOK(g[1])
  BY <1>1, <1>7, <1>9
<1>11. n = 2 => LineOK(g[2])
  BY <1>1, <1>8, <1>9, <1>10
<1>12. n = 0 \/ n = 1 \/ n = 2
  BY <1>2
<1> QED
  BY <1>5, <1>6, <1>10, <1>11, <1>12

\* No letter, one, or two.
LEMMA WordsTyped ==
    ASSUME NEW e, LineOK(e)
    PROVE  /\ LineOK(InsertString(e, <<>>))
           /\ \A c \in Letters : LineOK(InsertString(e, <<c>>))
           /\ \A c \in Letters, d \in Letters : LineOK(InsertString(e, <<c, d>>))
<1>1. LineOK(InsertString(e, <<>>))
  <2>1. <<>> \in Seq(Letters) /\ Len(<<>>) <= 2
    OBVIOUS
  <2> QED
    BY <2>1, WordTyped
<1>2. ASSUME NEW c \in Letters
      PROVE  LineOK(InsertString(e, <<c>>))
  <2>1. <<c>> \in Seq(Letters) /\ Len(<<c>>) <= 2
    OBVIOUS
  <2> QED
    BY <2>1, WordTyped
<1>3. ASSUME NEW c \in Letters, NEW d \in Letters
      PROVE  LineOK(InsertString(e, <<c, d>>))
  <2>1. <<c, d>> \in Seq(Letters) /\ Len(<<c, d>>) <= 2
    OBVIOUS
  <2> QED
    BY <2>1, WordTyped
<1> QED
  BY <1>1, <1>2, <1>3

\* A word, or what is left of it when its first letter is swallowed.
LEMMA LetterTyped ==
    ASSUME NEW e, LineOK(e), NEW str, NEW c \in Letters, str = <<c>>
    PROVE  LineOK(InsertString(e, str)) /\ LineOK(InsertString(e, Tail(str)))
<1>1. Tail(<<c>>) = <<>>
  OBVIOUS
<1>2. LineOK(InsertString(e, <<c>>)) /\ LineOK(InsertString(e, <<>>))
  BY WordsTyped
<1>3. LineOK(InsertString(e, Tail(<<c>>)))
  BY <1>1, <1>2
<1> QED
  BY <1>2, <1>3

\* The same of two letters.
LEMMA LettersTyped ==
    ASSUME NEW e, LineOK(e), NEW str, NEW c \in Letters, NEW d \in Letters, str = <<c, d>>
    PROVE  LineOK(InsertString(e, str)) /\ LineOK(InsertString(e, Tail(str)))
<1>1. Tail(<<c, d>>) = <<d>>
  OBVIOUS
<1>2. LineOK(InsertString(e, <<c, d>>)) /\ LineOK(InsertString(e, <<d>>))
  BY WordsTyped
<1>3. LineOK(InsertString(e, Tail(<<c, d>>)))
  BY <1>1, <1>2
<1> QED
  BY <1>2, <1>3

\* Any word that TAB may type.
LEMMA WordTypedOn ==
    ASSUME NEW e, LineOK(e),
           NEW str \in {<<c>> : c \in Letters} \cup {<<c, d>> : c, d \in Letters}
    PROVE  LineOK(InsertString(e, str)) /\ LineOK(InsertString(e, Tail(str)))
<1>1. \/ \E c \in Letters : str = <<c>>
      \/ \E c \in Letters : \E d \in Letters : str = <<c, d>>
  OBVIOUS
<1> QED
  BY <1>1, LetterTyped, LettersTyped

-----------------------------------------------------------------------------
(* The line editor. *)

\* History holds what was entered last, from place 1 on.
HistoryOK ==
    /\ his_buf \in [0..MAX_COM_HIS -> Line] /\ entered \in Seq(Line)
    /\ num \in 0..(MAX_COM_HIS + 1)
    /\ Len(entered) = (IF num < MAX_COM_HIS THEN num ELSE MAX_COM_HIS)
    /\ pos \in 0..Len(entered)
    /\ \A i \in 1..Len(entered) : his_buf[i] = entered[i]

\* What holds between two keys.
LineEditInd == LineOK(ed) /\ stat \in 0..2 /\ HistoryOK

\* It says what is to be shown.
LEMMA LineEditIndSays == LineEditInd => LineEditInv
<1> SUFFICES ASSUME LineEditInd PROVE LineEditInv
  OBVIOUS
<1>1. PICK b \in Buffers : \E c \in 0..Strleng(b) : ed = LineAt(b, c)
  BY DEF LineEditInd, LineOK
<1>2. PICK c \in 0..Strleng(b) : ed = LineAt(b, c)
  BY <1>1
<1>3. ed.buf = b /\ ed.cur_pos = c /\ ed.row = Row(b) /\ ed.col = c /\ LineLength(ed) = Strleng(b)
  BY <1>2 DEF LineAt, Edit, LineLength
<1>4. pos \in 0..MAX_COM_HIS
  BY LineEditAssumption DEF LineEditInd, HistoryOK
<1>5. LineEditTypeOK
  BY <1>3, <1>4, LengthsEnd DEF LineEditTypeOK, LineEditInd, HistoryOK, Buffers, Rows
<1>6. LineIsEnded
  BY <1>3 DEF LineIsEnded, Buffers
<1>7. TerminalShowsTheLine
  BY <1>3 DEF TerminalShowsTheLine, Row
<1>8. HistoryKeepsOrder
  BY DEF HistoryKeepsOrder, LineEditInd, HistoryOK
<1> QED
  BY <1>5, <1>6, <1>7, <1>8 DEF LineEditInv

\* Nothing is a line.
LEMMA EmptyLine == <<>> \in Line
<1>1. <<>> \in Seq(Letters) /\ Len(<<>>) = 0 /\ 0 <= MAX_LINE_COLUMS
  BY LineColumns
<1>2. <<>> \in Seq(Letters) /\ Len(<<>>) <= MAX_LINE_COLUMS
  BY <1>1
<1> QED
  BY <1>2, LinesAre

\* It holds of an empty line without a history.
LEMMA LineEditBegins == LineEditInit => LineEditInd
<1> SUFFICES ASSUME LineEditInit PROVE LineEditInd
  OBVIOUS
<1>1. LineOK(ed) /\ stat \in 0..2
  BY NewLineOK DEF LineEditInit
<1>2. his_buf \in [0..MAX_COM_HIS -> Line]
  BY EmptyLine DEF LineEditInit
<1>3. entered = <<>> /\ Len(entered) = 0 /\ entered \in Seq(Line) /\ num = 0 /\ pos = 0
  BY DEF LineEditInit
<1>4. HistoryOK
  BY <1>2, <1>3, LineEditAssumption DEF HistoryOK
<1> QED
  BY <1>1, <1>4 DEF LineEditInd

\* Every key leaves a line that is shown as it is.
LEMMA ControlsKeep ==
    ASSUME NEW e, LineOK(e)
    PROVE  /\ LineOK(CursorLeft(e)) /\ LineOK(CursorRight(e)) /\ LineOK(CursorHome(e))
           /\ LineOK(CursorEnd(e)) /\ LineOK(DeleteChar(e)) /\ LineOK(BackspaceChar(e))
           /\ LineOK(EraseToEnd(e)) /\ LineOK(Draw(e)) /\ String(e) \in Line
           /\ \A ch \in Letters : LineOK(InsertChar(e, ch))
           /\ \A str \in Line : LineOK(SetStr(e, str))
<1>1. PICK b \in Buffers : \E c \in 0..Strleng(b) : e = LineAt(b, c)
  BY DEF LineOK
<1>2. PICK c \in 0..Strleng(b) : e = LineAt(b, c)
  BY <1>1
<1>3. LineOK(CursorLeft(e)) /\ LineOK(CursorRight(e)) /\ LineOK(CursorHome(e))
  BY <1>2, LeftKey, RightKey, HomeKey
<1>4. LineOK(CursorEnd(e)) /\ LineOK(DeleteChar(e)) /\ LineOK(BackspaceChar(e))
  BY <1>2, EndKey, DeleteKey, BackspaceKey
<1>5. LineOK(EraseToEnd(e)) /\ LineOK(Draw(e)) /\ String(e) \in Line
  BY <1>2, EraseKey, Redraw, StringIs
<1>6. \A ch \in Letters : LineOK(InsertChar(e, ch))
  BY <1>2, InsertKey
<1>7. \A str \in Line : LineOK(SetStr(e, str))
  BY <1>2, SetKey
<1> QED
  BY <1>3, <1>4, <1>5, <1>6, <1>7

\* History is as it was.
LEMMA HistoryStays == HistoryOK /\ UNCHANGED historyVars => HistoryOK'
BY DEF HistoryOK, historyVars

\* A line that was entered is the first to be recalled.
LEMMA HistorySaved ==
    ASSUME HistoryOK, NEW com \in Line, SaveHistory(com)
    PROVE  HistoryOK'
<1>1. CASE com = <<>>
  BY <1>1, HistoryStays DEF SaveHistory
<1>2. CASE com # <<>>
  <2>1. PICK K \in Nat \ {0}, m \in Nat : K = MAX_COM_HIS /\ m = Len(entered)
    BY LineEditAssumption DEF HistoryOK
  <2>2. /\ his_buf' = [i \in 0..K |-> IF i <= 1 THEN com ELSE his_buf[i - 1]]
        /\ num' = (IF num <= K THEN num + 1 ELSE num)
        /\ pos' = 0
        /\ entered' = SubSeq(<<com>> \o entered, 1, IF m < K THEN m + 1 ELSE K)
    BY <1>2, <2>1 DEF SaveHistory
  <2>3. /\ entered \in Seq(Line) /\ num \in 0..(K + 1) /\ m = (IF num < K THEN num ELSE K)
        /\ \A i \in 0..K : his_buf[i] \in Line
        /\ \A i \in 1..m : his_buf[i] = entered[i]
    BY <2>1 DEF HistoryOK
  <2>4. PICK n \in Nat : n = (IF m < K THEN m + 1 ELSE K) /\ n <= m + 1 /\ 1 <= n
    <3>1. m <= K
      BY <2>3
    <3> QED
      BY <3>1
  <2> DEFINE all == <<com>> \o entered
  <2>5. /\ all \in Seq(Line) /\ Len(all) = m + 1 /\ all[1] = com
        /\ \A i \in 1..m : all[i + 1] = entered[i]
    <3>0. PICK u \in Seq(Line) : u = entered /\ Len(u) = m
      BY <2>1, <2>3
    <3>1. PICK w \in Seq(Line) : w = <<com>> /\ Len(w) = 1 /\ w[1] = com
      <4>1. <<com>> \in Seq(Line) /\ Len(<<com>>) = 1 /\ <<com>>[1] = com
        OBVIOUS
      <4> QED
        BY <4>1
    <3>2. /\ w \o u \in Seq(Line) /\ Len(w \o u) = m + 1
          /\ \A i \in 1..m : (w \o u)[i + 1] = u[i]
          /\ (w \o u)[1] = w[1]
      BY <3>0, <3>1
    <3> QED
      BY <3>0, <3>1, <3>2
  <2> HIDE DEF all
  <2>6. /\ SubSeq(all, 1, n) \in Seq(Line) /\ Len(SubSeq(all, 1, n)) = n
        /\ \A i \in 1..n : SubSeq(all, 1, n)[i] = all[i]
    BY <2>4, <2>5
  <2>7. entered' = SubSeq(all, 1, n)
    BY <2>2, <2>4 DEF all
  <2>8. entered' \in Seq(Line) /\ Len(entered') = n /\ \A i \in 1..n : entered'[i] = all[i]
    BY <2>6, <2>7
  <2>9. his_buf' \in [0..K -> Line]
    <3>1. \A i \in 0..K : (IF i <= 1 THEN com ELSE his_buf[i - 1]) \in Line
      BY <2>3
    <3> QED
      BY <2>2, <3>1
  <2>10. num' \in 0..(K + 1) /\ n = (IF num' < K THEN num' ELSE K)
    BY <2>2, <2>3, <2>4
  <2>11. \A i \in 1..n : his_buf'[i] = all[i]
    <3> TAKE i \in 1..n
    <3>1. i \in 0..K /\ i <= m + 1
      BY <2>3, <2>4
    <3>2. CASE i = 1
      BY <2>2, <2>5, <3>1, <3>2
    <3>3. CASE i # 1
      <4>1. PICK k \in 1..m : k = i - 1
        <5>1. i - 1 \in 1..m
          BY <3>1, <3>3
        <5> QED
          BY <5>1
      <4>2. all[k + 1] = entered[k] /\ his_buf[k] = entered[k] /\ k + 1 = i /\ ~ i <= 1
        BY <2>3, <2>5, <3>3, <4>1
      <4> QED
        BY <2>2, <3>1, <4>1, <4>2
    <3> QED
      BY <3>2, <3>3
  <2>12. pos' \in 0..n
    BY <2>2
  <2> QED
    BY <2>1, <2>8, <2>9, <2>10, <2>11, <2>12 DEF HistoryOK
<1> QED
  BY <1>1, <1>2

\* Every key keeps it.
LEMMA LineEditKept == LineEditInd /\ [LineEditNext]_lineEditVars => LineEditInd'
<1> SUFFICES ASSUME LineEditInd, [LineEditNext]_lineEditVars
             PROVE  LineEditInd'
  OBVIOUS
<1>0. LineOK(ed) /\ stat \in 0..2 /\ HistoryOK
  BY DEF LineEditInd
<1>1. CASE ControlKeys
  <2>1. LineOK(ed')
    BY <1>0, <1>1, ControlsKeep DEF ControlKeys
  <2>2. stat' = stat /\ UNCHANGED historyVars
    BY <1>1 DEF ControlKeys
  <2> QED
    BY <1>0, <2>1, <2>2, HistoryStays DEF LineEditInd, LineOK
<1>2. CASE TypeLetter
  <2>1. LineOK(ed')
    BY <1>0, <1>2, ControlsKeep DEF TypeLetter
  <2>2. stat' = stat /\ UNCHANGED historyVars
    BY <1>2 DEF TypeLetter
  <2> QED
    BY <1>0, <2>1, <2>2, HistoryStays DEF LineEditInd, LineOK
<1>3. CASE EscapeKeys
  <2>1. LineOK(ed')
    BY <1>0, <1>3, ControlsKeep DEF EscapeKeys
  <2>2. stat' \in 0..2 /\ UNCHANGED historyVars
    BY <1>3 DEF EscapeKeys
  <2> QED
    BY <1>0, <2>1, <2>2, HistoryStays DEF LineEditInd, LineOK
<1>4. CASE BackLine
  <2>1. stat' \in 0..2 /\ UNCHANGED <<num, entered>>
    BY <1>4 DEF BackLine
  <2>2. CASE pos < MAX_COM_HIS /\ pos < num
    <3>1. /\ his_buf' = (IF pos = 0 THEN [his_buf EXCEPT ![0] = String(ed)] ELSE his_buf)
          /\ pos' = pos + 1
          /\ ed' = SetStr(ed, his_buf'[pos'])
      BY <1>4, <2>2 DEF BackLine
    <3>2. PICK K \in Nat \ {0}, m \in Nat : K = MAX_COM_HIS /\ m = Len(entered) /\ m <= K
      BY <1>0, LineEditAssumption DEF HistoryOK
    <3>3. /\ his_buf \in [0..K -> Line] /\ pos \in 0..m /\ pos + 1 \in 1..m /\ pos' \in 0..m
      BY <1>0, <2>2, <3>1, <3>2 DEF HistoryOK
    <3>4. his_buf' \in [0..K -> Line] /\ \A i \in 1..m : his_buf'[i] = his_buf[i]
      BY <1>0, <3>1, <3>2, <3>3, ControlsKeep
    <3>5. his_buf'[pos'] \in Line
      BY <3>2, <3>3, <3>4
    <3>6. LineOK(ed')
      BY <1>0, <3>1, <3>5, ControlsKeep
    <3>7. HistoryOK'
      BY <1>0, <2>1, <3>2, <3>3, <3>4 DEF HistoryOK
    <3> QED
      BY <2>1, <3>6, <3>7 DEF LineEditInd, LineOK
  <2>3. CASE ~ (pos < MAX_COM_HIS /\ pos < num)
    <3>1. UNCHANGED <<ed, his_buf, pos>>
      BY <1>4, <2>3 DEF BackLine
    <3> QED
      BY <1>0, <2>1, <3>1, HistoryStays DEF LineEditInd, LineOK, historyVars
  <2> QED
    BY <2>2, <2>3
<1>5. CASE NextLine
  <2>1. stat' \in 0..2 /\ UNCHANGED <<his_buf, num, entered>>
    BY <1>5 DEF NextLine
  <2>2. CASE pos > 0
    <3>1. pos' = pos - 1 /\ ed' = SetStr(ed, his_buf[pos'])
      BY <1>5, <2>2 DEF NextLine
    <3>2. pos' \in 0..Len(entered) /\ pos' \in 0..MAX_COM_HIS
      BY <1>0, <2>2, <3>1, LineEditAssumption DEF HistoryOK
    <3>3. his_buf[pos'] \in Line
      BY <1>0, <3>2 DEF HistoryOK
    <3>4. LineOK(ed')
      BY <1>0, <3>1, <3>3, ControlsKeep
    <3>5. HistoryOK'
      BY <1>0, <2>1, <3>2 DEF HistoryOK
    <3> QED
      BY <2>1, <3>4, <3>5 DEF LineEditInd, LineOK
  <2>3. CASE ~ pos > 0
    <3>1. UNCHANGED <<ed, pos>>
      BY <1>5, <2>3 DEF NextLine
    <3> QED
      BY <1>0, <2>1, <3>1, HistoryStays DEF LineEditInd, LineOK, historyVars
  <2> QED
    BY <2>2, <2>3
<1>6. CASE Return
  <2>1. ed' = NewLine
    BY <1>0, <1>6, NewLineOK DEF Return
  <2>2. HistoryOK'
    BY <1>0, <1>6, HistorySaved, ControlsKeep DEF Return
  <2>3. stat' = stat
    BY <1>6 DEF Return
  <2> QED
    BY <1>0, <2>1, <2>2, <2>3, NewLineOK DEF LineEditInd, LineOK
<1>7. CASE ControlC
  <2>1. ed' = NewLine
    BY <1>0, <1>7, NewLineOK DEF ControlC
  <2>2. stat' \in 0..2 /\ UNCHANGED historyVars
    BY <1>7 DEF ControlC
  <2> QED
    BY <1>0, <2>1, <2>2, NewLineOK, HistoryStays DEF LineEditInd, LineOK
<1>8. CASE Complete
  <2>1. PICK str \in {<<c>> : c \in Letters} \cup {<<c, d>> : c, d \in Letters},
             now \in {ed, Draw(ed)} :
           /\ stat' = 0 /\ UNCHANGED historyVars
           /\ ed' = InsertString(now, IF stat = 0 THEN str ELSE Tail(str))
    BY <1>8 DEF Complete
  <2>2. LineOK(now)
    BY <1>0, ControlsKeep
  <2>3. LineOK(InsertString(now, str)) /\ LineOK(InsertString(now, Tail(str)))
    BY <2>2, WordTypedOn
  <2>4. ASSUME stat = 0 PROVE LineOK(ed')
    <3>1. ed' = InsertString(now, str)
      BY <2>1, <2>4
    <3> QED
      BY <2>3, <3>1
  <2>5. ASSUME stat # 0 PROVE LineOK(ed')
    <3>1. ed' = InsertString(now, Tail(str))
      BY <2>1, <2>5
    <3> QED
      BY <2>3, <3>1
  <2>6. LineOK(ed')
    BY <2>4, <2>5
  <2> QED
    BY <1>0, <2>1, <2>6, HistoryStays DEF LineEditInd, LineOK
<1>9. CASE UNCHANGED lineEditVars
  BY <1>0, <1>9, HistoryStays DEF lineEditVars, historyVars, LineEditInd, LineOK
<1> QED
  BY <1>1, <1>2, <1>3, <1>4, <1>5, <1>6, <1>7, <1>8, <1>9 DEF LineEditNext

\* Whatever is typed, recalled or completed, the line is ended within its buffer,
\* the terminal shows it with the cursor in its place, and going back recalls what
\* was entered (shell/lineedit.c, shell/history.c), for every length of a line and
\* of the history.
THEOREM LineEditInvariant == LineEditSpec => []LineEditInv
<1>1. LineEditInit => LineEditInd
  BY LineEditBegins
<1>2. LineEditInd /\ [LineEditNext]_lineEditVars => LineEditInd'
  BY LineEditKept
<1>3. LineEditInd => LineEditInv
  BY LineEditIndSays
<1> QED
  BY <1>1, <1>2, <1>3, PTL DEF LineEditSpec

-----------------------------------------------------------------------------
(* The song that is decoded. *)

\* The song is played, or will be when the player says so.
Alive ==
    \/ soundtask \in {"ready", "read", "frame", "m4a", "m4aframe"}
    \/ soundtask \in {"input", "sync"} /\ status # "end"
    \/ soundtask = "none" /\ status = "ready"

\* The song that is alive can be read, and nothing that would close its file
\* under way.
AliveIsOpen == Alive => opened /\ ~ Contains(soundevents, "end")

\* The function that the sound task runs is the one that is set, and a song
\* that waits to be run is ready.
RunsItsProc ==
    /\ soundtask \in {"ready", "input", "read", "sync", "frame", "done"} => proc = "mp3"
    /\ soundtask \in {"m4a", "m4aframe"} => proc = "m4a"
    /\ soundtask = "ending" => proc # "none"
    /\ soundtask = "none" => (proc # "none" <=> status = "ready" /\ ui # "start")

\* How far the sound task may be with each status.
StatusFits ==
    /\ soundtask = "ready" => status \in {"ready", "syncing"}
    /\ soundtask = "input" => status \in {"ready", "playing", "syncing", "end"}
    /\ soundtask = "sync" => status \in {"playing", "syncing", "end"}
    /\ soundtask \in {"read", "frame", "m4aframe"} => status = "playing"
    /\ soundtask = "m4a" => status \in {"ready", "playing"}
    /\ soundtask \in {"done", "ending"} => status \in {"playing", "syncing", "end"}

\* In which states each command is given.
Allowed == [play |-> {"ready", "end"}, pause |-> {"syncing", "playing"},
            stop |-> {"ready", "playing", "syncing"}]

\* A command that is not taken yet is the one the player waits for, and the
\* song is still as when it was given; when it is taken it has its effect.
CommandIsAwaited ==
    /\ commands # <<>> =>
          commands = <<ui>> /\ ui \in DOMAIN Awaited /\ status \in Allowed[ui]
    /\ commands = <<>> /\ ui = "pause" => status = "ready"
    /\ commands = <<>> /\ ui = "stop" => status = "end"

\* A file is closed when its song is over, and the next song is prepared when
\* the sound task has left the one before.
SongsTakeTurns ==
    /\ ui \in {"close", "open"} => ~ Alive
    /\ ui = "close" => status # "syncing"
    /\ ui \in {"prepare", "start"} =>
          soundtask = "none" /\ opened /\ ~ Contains(soundevents, "end")
    /\ ui = "start" => status = "ready"
    /\ ui = "prepare" => status # "ready"

\* The player and the sound task are in step.
InTime == AliveIsOpen /\ RunsItsProc /\ StatusFits /\ CommandIsAwaited /\ SongsTakeTurns

\* SoundPlayTypeOK, the queues as sequences.
SoundPlayTypes ==
    /\ status \in {"notready", "ready", "syncing", "playing", "end"}
    /\ proc \in {"none", "mp3", "m4a"} /\ format \in {"mp3", "m4a"}
    /\ soundtask \in {"none", "ready", "input", "read", "sync", "frame", "done",
                      "m4a", "m4aframe", "ending"}
    /\ commands \in Seq({"play", "pause", "stop"}) /\ Len(commands) <= MaxCommands
    /\ frames \in 0 .. 3 /\ audioset \in 0 .. 2 /\ seek \in {-1, 0, 3}
    /\ flg_abort \in BOOLEAN /\ opened \in BOOLEAN /\ dma \in BOOLEAN /\ late \in BOOLEAN
    /\ soundevents \in Seq({"prepared", "stop", "end"}) /\ Len(soundevents) <= MaxSoundEvents
    /\ ui \in {"idle", "play", "pause", "stop", "close", "open", "prepare", "start"}
    /\ after \in {"none", "ff", "select"}
    /\ sdstatus \in {"notready", "opened", "play", "stop"}

\* The inductive invariant.
SoundPlayInd == SoundPlayTypes /\ (late \/ InTime)

\* It holds at the start.
LEMMA SoundPlayBegins == SoundPlayInit => SoundPlayInd
<1> SUFFICES ASSUME SoundPlayInit PROVE SoundPlayInd
  OBVIOUS
<1>1. SoundPlayTypes
  <2>1. /\ <<>> \in Seq({"play", "pause", "stop"}) /\ Len(<<>>) = 0
        /\ <<>> \in Seq({"prepared", "stop", "end"})
    OBVIOUS
  <2>2. flg_abort \in BOOLEAN /\ opened \in BOOLEAN /\ dma \in BOOLEAN /\ late \in BOOLEAN
    BY DEF SoundPlayInit
  <2>3. /\ commands = <<>> /\ soundevents = <<>>
        /\ status = "notready" /\ proc = "none" /\ format = "mp3" /\ soundtask = "none"
        /\ frames = 0 /\ audioset = 0 /\ seek = -1 /\ ui = "open" /\ after = "none" /\ sdstatus = "notready"
    BY DEF SoundPlayInit
  <2> QED
    BY <2>1, <2>2, <2>3, SoundPlayAssumption DEF SoundPlayTypes
<1>2. InTime
  BY DEF SoundPlayInit, InTime, AliveIsOpen, RunsItsProc, StatusFits, CommandIsAwaited,
         SongsTakeTurns, Alive
<1> QED
  BY <1>1, <1>2 DEF SoundPlayInd

\* An event is posted, or one is taken.
LEMMA EventsKept ==
    ASSUME SoundPlayTypes, NEW what \in {"prepared", "stop", "end"},
           Posts(what) \/ (soundevents # <<>> /\ soundevents' = Tail(soundevents))
    PROVE  /\ soundevents' \in Seq({"prepared", "stop", "end"})
           /\ Len(soundevents') <= MaxSoundEvents
           /\ (what # "end" /\ ~ Contains(soundevents, "end")) => ~ Contains(soundevents', "end")
<1>1. /\ soundevents \in Seq({"prepared", "stop", "end"}) /\ Len(soundevents) <= MaxSoundEvents
      /\ MaxSoundEvents \in Nat
  BY SoundPlayAssumption DEF SoundPlayTypes
<1>2. CASE soundevents' = Append(soundevents, what) /\ Len(soundevents) < MaxSoundEvents
  <2>1. soundevents' \in Seq({"prepared", "stop", "end"}) /\ Len(soundevents') = Len(soundevents) + 1
    BY <1>1, <1>2
  <2>2. \A i \in 1 .. Len(soundevents') :
           soundevents'[i] = IF i = Len(soundevents') THEN what ELSE soundevents[i]
    BY <1>1, <1>2
  <2> QED
    BY <1>1, <1>2, <2>1, <2>2 DEF Contains
<1>3. CASE soundevents' = soundevents
  BY <1>1, <1>3
<1>4. CASE soundevents # <<>> /\ soundevents' = Tail(soundevents)
  <2>1. soundevents' \in Seq({"prepared", "stop", "end"}) /\ Len(soundevents') = Len(soundevents) - 1
    BY <1>1, <1>4
  <2>2. \A i \in 1 .. Len(soundevents') : soundevents'[i] = soundevents[i + 1]
    BY <1>1, <1>4
  <2> QED
    BY <1>1, <1>4, <2>1, <2>2 DEF Contains
<1> QED
  BY <1>2, <1>3, <1>4 DEF Posts

\* A command is given.
LEMMA CommandGiven ==
    ASSUME SoundPlayTypes, NEW c \in {"play", "pause", "stop"}, Commands(c)
    PROVE  /\ commands' \in Seq({"play", "pause", "stop"}) /\ Len(commands') <= MaxCommands
           /\ commands = <<>> => commands' = <<c>>
<1>1. /\ commands \in Seq({"play", "pause", "stop"}) /\ Len(commands) <= MaxCommands
      /\ MaxCommands \in Nat \ {0}
  BY SoundPlayAssumption DEF SoundPlayTypes
<1>2. CASE Len(commands) < MaxCommands
  <2>1. commands' = Append(commands, c)
    BY <1>2 DEF Commands
  <2>2. commands = <<>> => commands' = <<c>>
    BY <2>1
  <2> QED
    BY <1>1, <1>2, <2>1, <2>2
<1>3. CASE ~ Len(commands) < MaxCommands
  <2>1. commands' = commands
    BY <1>3 DEF Commands
  <2>2. commands # <<>>
    BY <1>1, <1>3
  <2> QED
    BY <1>1, <2>1, <2>2
<1> QED
  BY <1>2, <1>3

\* A command is taken.
LEMMA CommandTaken ==
    ASSUME SoundPlayTypes, TakesCommand
    PROVE  /\ commands' \in Seq({"play", "pause", "stop"}) /\ Len(commands') <= MaxCommands
           /\ NextCommand \in {"noevent", "play", "pause", "stop"}
           /\ commands = <<>> <=> NextCommand = "noevent"
           /\ \A c : commands = <<c>> => NextCommand = c /\ commands' = <<>>
<1>1. /\ commands \in Seq({"play", "pause", "stop"}) /\ Len(commands) <= MaxCommands
      /\ MaxCommands \in Nat \ {0}
  BY SoundPlayAssumption DEF SoundPlayTypes
<1>2. CASE commands = <<>>
  <2>1. commands' = <<>> /\ NextCommand = "noevent"
    BY <1>2 DEF TakesCommand, NextCommand
  <2>2. \A c : commands # <<c>>
    BY <1>2
  <2> QED
    BY <1>1, <1>2, <2>1, <2>2
<1>3. CASE commands # <<>>
  <2>1. commands' = Tail(commands) /\ NextCommand = Head(commands)
    BY <1>3 DEF TakesCommand, NextCommand
  <2>2. /\ Tail(commands) \in Seq({"play", "pause", "stop"})
        /\ Len(Tail(commands)) <= MaxCommands
        /\ Head(commands) \in {"play", "pause", "stop"}
    BY <1>1, <1>3
  <2>3. ASSUME NEW c, commands = <<c>> PROVE Head(commands) = c /\ Tail(commands) = <<>>
    BY <2>3
  <2> QED
    BY <1>3, <2>1, <2>2, <2>3
<1> QED
  BY <1>2, <1>3

\* A command that an M4A song takes is one that the player gives.
LEMMA M4aTakes ==
    ASSUME SoundPlayTypes, M4aCommand
    PROVE  NextCommand \in {"play", "pause", "stop"}
<1>1. commands # <<>> /\ TakesCommand
  BY DEF M4aCommand
<1> QED
  BY <1>1, CommandTaken

\* Each step gives one command, takes one or does neither.
LEMMA CommandsKept ==
    ASSUME SoundPlayTypes, SoundPlayNext
    PROVE  \/ UNCHANGED commands
           \/ TakesCommand
           \/ \E c \in {"play", "pause", "stop"} : Commands(c)
<1> USE DEF soundplay_play, soundplay_pause, soundplay_stop, Command, TakesCommand
<1>1. CASE Player
  BY <1>1 DEF Player, soundplay_open, soundplay_open_Fails, Prepare, PrepareFails, StartProc,
     PlayPause, Change, soundplay_seek, HandleEvent, WaitEnds, soundplay_close
<1>2. CASE SoundTask
  BY <1>2 DEF SoundTask, Mp3Step, Ready, ReadyEnds, InputPlaying, FrameRead, InputReady,
     InputSyncing, Synced, SyncEnds, SyncGoesOn, InputEnds, Output, FrameError, Done,
     M4aStep, M4aCommand, M4aGoesOn, M4aFrame, M4aEnds, RunProc, ProcEnds
<1> QED
  BY <1>1, <1>2 DEF SoundPlayNext

\* Each step posts one event, handles one or does neither.
LEMMA EventsPosted ==
    ASSUME SoundPlayTypes, SoundPlayNext
    PROVE  \/ UNCHANGED soundevents
           \/ soundevents # <<>> /\ soundevents' = Tail(soundevents)
           \/ \E what \in {"prepared", "stop", "end"} : Posts(what)
<1> USE DEF soundVars, fileVars, playerVars
<1>1. CASE Player
  BY <1>1
     DEF Player, soundplay_open, soundplay_open_Fails, Prepare, PrepareFails, StartProc,
         PlayPause, Change, soundplay_seek, HandleEvent, WaitEnds, soundplay_close
<1>2. CASE Mp3Step
  BY <1>2
     DEF Mp3Step, Ready, ReadyEnds, InputPlaying, FrameRead, InputReady,
         InputSyncing, Synced, SyncEnds, SyncGoesOn, InputEnds, Output, FrameError, Done
<1>3. CASE M4aCommand
  BY <1>3, M4aTakes DEF M4aCommand
<1>4. CASE M4aGoesOn \/ M4aFrame \/ M4aEnds \/ RunProc \/ ProcEnds
  BY <1>4 DEF M4aGoesOn, M4aFrame, M4aEnds, RunProc, ProcEnds
<1> QED
  BY <1>1, <1>2, <1>3, <1>4 DEF SoundPlayNext, SoundTask, M4aStep

\* The other types of the state stay as they are.
LEMMA RestTyped ==
    ASSUME SoundPlayTypes, SoundPlayNext
    PROVE  /\ status' \in {"notready", "ready", "syncing", "playing", "end"}
           /\ proc' \in {"none", "mp3", "m4a"} /\ format' \in {"mp3", "m4a"}
           /\ soundtask' \in {"none", "ready", "input", "read", "sync", "frame", "done",
                              "m4a", "m4aframe", "ending"}
           /\ frames' \in 0 .. 3 /\ audioset' \in 0 .. 2 /\ seek' \in {-1, 0, 3}
           /\ ui' \in {"idle", "play", "pause", "stop", "close", "open", "prepare", "start"}
           /\ after' \in {"none", "ff", "select"}
           /\ sdstatus' \in {"notready", "opened", "play", "stop"}
<1> USE DEF SoundPlayTypes, soundVars, fileVars, playerVars, Crosses, Seeks,
           soundplay_play, soundplay_pause, soundplay_stop, Command
<1>1. CASE Player
  BY <1>1
     DEF Player, soundplay_open, soundplay_open_Fails, Prepare, PrepareFails, StartProc,
         PlayPause, Change, soundplay_seek, HandleEvent, WaitEnds, soundplay_close
<1>2. CASE Mp3Step
  BY <1>2
     DEF Mp3Step, Ready, ReadyEnds, InputPlaying, FrameRead, InputReady,
         InputSyncing, Synced, SyncEnds, SyncGoesOn, InputEnds, Output, FrameError, Done
<1>3. CASE M4aCommand
  <2>1. NextCommand \in {"play", "pause", "stop"}
    BY <1>3, M4aTakes
  <2>2. /\ status' \in {"ready", "playing", "end"}
        /\ soundtask' \in {soundtask, "m4aframe", "ending"}
        /\ audioset' \in {audioset, 0}
        /\ seek' \in {seek, -1}
        /\ UNCHANGED <<proc, frames, format, ui, after, sdstatus>>
    BY <1>3, <2>1 DEF M4aCommand
  <2> QED
    BY <2>2
<1>4. CASE M4aGoesOn \/ M4aFrame \/ M4aEnds \/ RunProc \/ ProcEnds
  BY <1>4 DEF M4aGoesOn, M4aFrame, M4aEnds, RunProc, ProcEnds
<1> QED
  BY <1>1, <1>2, <1>3, <1>4 DEF SoundPlayNext, SoundTask, M4aStep

\* The flags stay flags.
LEMMA BooleansTyped ==
    ASSUME SoundPlayTypes, SoundPlayNext
    PROVE  /\ flg_abort' \in BOOLEAN /\ opened' \in BOOLEAN
           /\ dma' \in BOOLEAN /\ late' \in BOOLEAN
<1>0. /\ flg_abort \in BOOLEAN /\ opened \in BOOLEAN
      /\ dma \in BOOLEAN /\ late \in BOOLEAN
  BY DEF SoundPlayTypes
<1> USE DEF soundVars, fileVars, playerVars, Crosses
<1>1. CASE Player
  BY <1>1, <1>0
     DEF Player, soundplay_open, soundplay_open_Fails, Prepare, PrepareFails, StartProc,
         PlayPause, Change, soundplay_seek, HandleEvent, WaitEnds, soundplay_close
<1>2. CASE Mp3Step
  BY <1>2, <1>0
     DEF Mp3Step, Ready, ReadyEnds, InputPlaying, FrameRead, InputReady,
         InputSyncing, Synced, SyncEnds, SyncGoesOn, InputEnds, Output, FrameError, Done
<1>3. CASE M4aCommand
  BY <1>3, <1>0, M4aTakes DEF M4aCommand
<1>4. CASE M4aGoesOn \/ M4aFrame \/ M4aEnds \/ RunProc \/ ProcEnds
  BY <1>4, <1>0 DEF M4aGoesOn, M4aFrame, M4aEnds, RunProc, ProcEnds
<1> QED
  BY <1>1, <1>2, <1>3, <1>4 DEF SoundPlayNext, SoundTask, M4aStep

\* The two queues stay within their sizes, and all types are kept.
LEMMA TypesKept ==
    ASSUME SoundPlayTypes, SoundPlayNext
    PROVE  SoundPlayTypes'
<1>1. commands' \in Seq({"play", "pause", "stop"}) /\ Len(commands') <= MaxCommands
  BY CommandsKept, CommandGiven, CommandTaken DEF SoundPlayTypes
<1>2. soundevents' \in Seq({"prepared", "stop", "end"}) /\ Len(soundevents') <= MaxSoundEvents
  BY EventsPosted, EventsKept DEF SoundPlayTypes
<1> QED
  BY <1>1, <1>2, RestTyped, BooleansTyped DEF SoundPlayTypes

\* What went out of step stays so.
LEMMA LateStays ==
    ASSUME SoundPlayTypes, SoundPlayNext, late
    PROVE  late'
<1> USE DEF Crosses
<1>1. CASE Player
  BY <1>1
     DEF Player, soundplay_open, soundplay_open_Fails, Prepare, PrepareFails, StartProc,
         PlayPause, Change, soundplay_seek, HandleEvent, WaitEnds, soundplay_close
<1>2. CASE Mp3Step
  BY <1>2
     DEF Mp3Step, Ready, ReadyEnds, InputPlaying, FrameRead, InputReady,
         InputSyncing, Synced, SyncEnds, SyncGoesOn, InputEnds, Output, FrameError, Done
<1>3. CASE M4aCommand
  BY <1>3, M4aTakes DEF M4aCommand
<1>4. CASE M4aGoesOn \/ M4aFrame \/ M4aEnds \/ RunProc \/ ProcEnds
  BY <1>4 DEF M4aGoesOn, M4aFrame, M4aEnds, RunProc, ProcEnds
<1> QED
  BY <1>1, <1>2, <1>3, <1>4 DEF SoundPlayNext, SoundTask, M4aStep

\* A command that is taken in time is the awaited one.
LEMMA TakenInTime ==
    ASSUME SoundPlayTypes, CommandIsAwaited, TakesCommand
    PROVE  /\ commands' = <<>>
           /\ \/ commands = <<>> /\ NextCommand = "noevent"
              \/ commands # <<>> /\ NextCommand = ui /\ ui \in {"play", "pause", "stop"}
<1>1. commands = <<>> \/ (commands # <<>> /\ commands = <<ui>> /\ ui \in {"play", "pause", "stop"})
  BY DEF CommandIsAwaited, Awaited
<1>2. CASE commands = <<>>
  BY <1>2 DEF TakesCommand, NextCommand
<1> QED
  BY <1>1, <1>2, CommandTaken

\* A command is given when none is left.
LEMMA GivenInTime ==
    ASSUME SoundPlayTypes, CommandIsAwaited, ui \in {"idle", "start"},
           NEW c \in {"play", "pause", "stop"}, Commands(c)
    PROVE  commands = <<>> /\ commands' = <<c>> /\ <<c>> # <<>>
<1>1. commands = <<>>
  BY DEF CommandIsAwaited, Awaited
<1> QED
  BY <1>1, CommandGiven

\* As long as no wait times out the player and the sound task stay in step.
LEMMA InTimeKept ==
    ASSUME SoundPlayTypes, InTime, SoundPlayNext, ~ late, ~ late'
    PROVE  InTime'
<1> USE DEF soundVars, fileVars, playerVars, Crosses, Seeks,
           soundplay_play, soundplay_pause, soundplay_stop, Command,
           Alive, Awaited, Allowed, InTime, AliveIsOpen, RunsItsProc, StatusFits,
           CommandIsAwaited, SongsTakeTurns
<1>0. /\ soundtask \in {"none", "ready", "input", "read", "sync", "frame", "done",
                       "m4a", "m4aframe", "ending"}
      /\ format \in {"mp3", "m4a"} /\ proc \in {"none", "mp3", "m4a"}
      /\ frames \in 0 .. 3
  BY DEF SoundPlayTypes
<1>1. CASE soundplay_open
  BY <1>1, <1>0 DEF soundplay_open
<1>2. CASE soundplay_open_Fails
  BY <1>2, <1>0 DEF soundplay_open_Fails
<1>3. CASE Prepare
  BY <1>3, <1>0, EventsKept DEF Prepare
<1>4. CASE PrepareFails
  BY <1>4, <1>0 DEF PrepareFails
<1>5. CASE StartProc
  BY <1>5, <1>0, GivenInTime DEF StartProc
<1>6. CASE PlayPause
  BY <1>6, <1>0, GivenInTime DEF PlayPause
<1>7. CASE Change
  <2>6. CASE status \in {"ready", "playing", "syncing"}
    <3>1. ui = "idle" /\ ui' = "stop" /\ commands = <<>> /\ commands' = <<"stop">>
      BY <1>7, <2>6, GivenInTime DEF Change
    <3> QED
      BY <1>7, <1>0, <2>6, <3>1 DEF Change
  <2>7. CASE status \notin {"ready", "playing", "syncing"}
    <3>1. ui = "idle" /\ ui' = "close" /\ UNCHANGED commands
      BY <1>7, <2>7 DEF Change
    <3> QED
      BY <1>7, <1>0, <2>7, <3>1 DEF Change
  <2> QED
    BY <2>6, <2>7
<1>8. CASE HandleEvent
  <2>6. soundevents # <<>> /\ soundevents' = Tail(soundevents)
    BY <1>8 DEF HandleEvent
  <2>7. ~ Contains(soundevents, "end") => ~ Contains(soundevents', "end")
    BY <2>6, EventsKept
  <2>8. Head(soundevents) = "end" => Contains(soundevents, "end")
    <3>1. soundevents \in Seq({"prepared", "stop", "end"})
      BY DEF SoundPlayTypes
    <3> QED
      BY <2>6, <3>1 DEF Contains
  <2> QED
    BY <1>8, <1>0, <2>7, <2>8, GivenInTime DEF HandleEvent
<1>9. CASE WaitEnds
  <2>6. status = Awaited[ui]
    BY <1>9, Zenon DEF WaitEnds
  <2> QED
    BY <1>9, <1>0, <2>6 DEF WaitEnds
<1>10. CASE soundplay_close
  BY <1>10, <1>0 DEF soundplay_close
<1>11. CASE RunProc
  BY <1>11, <1>0 DEF RunProc
<1>12. CASE Ready
  BY <1>12, <1>0, TakenInTime DEF Ready
<1>13. CASE ReadyEnds
  BY <1>13, <1>0 DEF ReadyEnds
<1>14. CASE InputPlaying
  BY <1>14, <1>0, TakenInTime DEF InputPlaying
<1>15. CASE InputReady
  BY <1>15, <1>0, TakenInTime DEF InputReady
<1>16. CASE InputSyncing
  BY <1>16, <1>0 DEF InputSyncing
<1>17. CASE InputEnds
  BY <1>17, <1>0 DEF InputEnds
<1>18. CASE Output
  BY <1>18, <1>0 DEF Output
<1>19. CASE FrameError
  BY <1>19, <1>0 DEF FrameError
<1>20. CASE Done
  BY <1>20, <1>0, EventsKept DEF Done
<1>21. CASE M4aCommand
  BY <1>21, <1>0, TakenInTime DEF M4aCommand
<1>22. CASE M4aGoesOn
  BY <1>22, <1>0 DEF M4aGoesOn
<1>23. CASE M4aFrame
  BY <1>23, <1>0 DEF M4aFrame
<1>24. CASE M4aEnds
  BY <1>24, <1>0, EventsKept DEF M4aEnds
<1>25. CASE ProcEnds
  BY <1>25, <1>0 DEF ProcEnds
<1>26. CASE FrameRead
  BY <1>26, <1>0 DEF FrameRead
<1>27. CASE Synced
  <2>6. status # "end"
    BY <1>27, Zenon DEF Synced
  <2> QED
    BY <1>27, <1>0, <2>6 DEF Synced
<1>28. CASE SyncEnds
  BY <1>28, <1>0 DEF SyncEnds
<1>29. CASE SyncGoesOn
  BY <1>29, <1>0 DEF SyncGoesOn
<1>30. CASE soundplay_seek
  BY <1>30, <1>0 DEF soundplay_seek
<1> QED
  BY <1>1, <1>2, <1>3, <1>4, <1>5, <1>6, <1>7, <1>8, <1>9, <1>10, <1>11, <1>12, <1>13,
     <1>14, <1>15, <1>16, <1>17, <1>18, <1>19, <1>20, <1>21, <1>22, <1>23, <1>24, <1>25,
     <1>26, <1>27, <1>28, <1>29, <1>30
     DEF SoundPlayNext, SoundTask, Player, Mp3Step, M4aStep

\* The invariant is inductive ...
LEMMA SoundPlayKept ==
    ASSUME SoundPlayInd, [SoundPlayNext]_soundPlayVars
    PROVE  SoundPlayInd'
<1>0. SoundPlayTypes /\ (late \/ InTime) /\ late \in BOOLEAN
  BY DEF SoundPlayInd, SoundPlayTypes
<1>1. CASE SoundPlayNext
  <2>1. SoundPlayTypes'
    BY <1>0, <1>1, TypesKept
  <2>2. CASE late
    <3>1. late'
      BY <1>0, <1>1, <2>2, LateStays
    <3> QED
      BY <2>1, <3>1 DEF SoundPlayInd
  <2>3. CASE ~ late /\ ~ late'
    <3>1. InTime'
      BY <1>0, <1>1, <2>3, InTimeKept
    <3> QED
      BY <2>1, <3>1 DEF SoundPlayInd
  <2>4. CASE late'
    BY <2>1, <2>4 DEF SoundPlayInd
  <2> QED
    BY <2>2, <2>3, <2>4
<1>2. CASE UNCHANGED soundPlayVars
  BY <1>0, <1>2 DEF SoundPlayInd, soundPlayVars, SoundPlayTypes, InTime, AliveIsOpen, RunsItsProc,
     StatusFits, CommandIsAwaited, SongsTakeTurns, Alive, Awaited, Allowed
<1> QED
  BY <1>1, <1>2

\* ... and enough.
LEMMA SoundPlayIndEnough == SoundPlayInd => SoundPlayInv
<1> SUFFICES ASSUME SoundPlayInd PROVE SoundPlayInv
  OBVIOUS
<1>1. SoundPlayTypeOK
  <2>1. /\ commands \in BoundedSeq({"play", "pause", "stop"}, MaxCommands)
        /\ soundevents \in BoundedSeq({"prepared", "stop", "end"}, MaxSoundEvents)
    BY SoundPlayAssumption, BoundedSequences DEF SoundPlayInd, SoundPlayTypes
  <2> QED
    BY <2>1, Zenon DEF SoundPlayInd, SoundPlayTypes, SoundPlayTypeOK
<1>2. CASE late
  BY <1>1, <1>2 DEF SoundPlayInv, NoStaleCommands, ReadySongIsRun, ReadsAnOpenFile
<1>3. CASE InTime
  <2>1. NoStaleCommands
    BY <1>3 DEF InTime, CommandIsAwaited, Awaited, NoStaleCommands
  <2>2. ReadySongIsRun
    BY <1>3 DEF InTime, RunsItsProc, StatusFits, ReadySongIsRun, SoundPlayInd, SoundPlayTypes
  <2>3. ReadsAnOpenFile
    BY <1>3 DEF InTime, AliveIsOpen, StatusFits, Alive, ReadsAnOpenFile
  <2> QED
    BY <1>1, <2>1, <2>2, <2>3 DEF SoundPlayInv
<1> QED
  BY <1>2, <1>3 DEF SoundPlayInd

\* As long as no wait of the player times out and no song ends by itself with a
\* command in the FIFO, no command is left for the next song, a song that is ready
\* is run, and no closed file is decoded.
THEOREM SoundPlayInvariant == SoundPlaySpec => []SoundPlayInv
<1>1. SoundPlayInit => SoundPlayInd
  BY SoundPlayBegins
<1>2. SoundPlayInd /\ [SoundPlayNext]_soundPlayVars => SoundPlayInd'
  BY SoundPlayKept
<1>3. SoundPlayInd => SoundPlayInv
  BY SoundPlayIndEnough
<1> QED
  BY <1>1, <1>2, <1>3, PTL DEF SoundPlaySpec

=============================================================================
