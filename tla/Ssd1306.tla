------------------------------ MODULE Ssd1306 -------------------------------
(***************************************************************************)
(* The drawing half of ssd1306_i2c.c: what each function adds to the frame *)
(* buffer.  The buffer is a function from bytes to the bits set in them;   *)
(* a shape is the set of the pixels its loops visit.                       *)
(***************************************************************************)
EXTENDS Integers, Sequences, FiniteSetsExt

CONSTANTS
  W, H,    \* the display, in pixels
  WORD     \* where uint32_t wraps

\* What is asked of them; a module that instantiates this one assumes it.
ScreenAssumption ==
  W \in Nat \ {0} /\ H \in {8 * n : n \in 1 .. 16} /\ WORD \in Nat /\ WORD >= 2 * (W + H)

U(n) == n % WORD

Blank == [byte \in 0 .. W * (H \div 8) - 1 |-> {}]

OnScreen(p) == p[1] < W /\ p[2] < H

Byte(p) == p[1] + W * (p[2] \div 8)
Bit(p) == p[2] % 8

\* Mutant of DrawPixels: pixels off the display are not turned away.
DrawPixelsUnclipped(buf, pixels) ==
  [byte \in DOMAIN buf |->
     buf[byte] \cup {Bit(p) : p \in {q \in pixels : Byte(q) = byte}}]

\* ssd1306_draw_pixel and ssd1306_clear_pixel, for all pixels of a shape.
DrawPixels(buf, pixels) ==
  [byte \in DOMAIN buf |->
     buf[byte] \cup {Bit(p) : p \in {q \in pixels : OnScreen(q) /\ Byte(q) = byte}}]

ClearPixels(buf, pixels) ==
  [byte \in DOMAIN buf |->
     buf[byte] \ {Bit(p) : p \in {q \in pixels : OnScreen(q) /\ Byte(q) = byte}}]

\* What the glass shows of a buffer.
Lit(buf) == {p \in (0 .. W - 1) \X (0 .. H - 1) : Bit(p) \in buf[Byte(p)]}

\* ssd1306_draw_square: uint32_t coordinates, so that a square left of the
\* display or above it comes in again from beyond WORD.
Square(x, y, width, height) ==
  {<<U(x + i), U(y + j)>> : i \in 0 .. width - 1, j \in 0 .. height - 1}

\* Both pointers of swap end up on the second value, so that a line drawn to the
\* left, or straight up, is no more than its end point.
Swap(a, b) == <<b, b>>

Column(x, y1, y2) ==
  LET y == IF y1 > y2 THEN Swap(y1, y2) ELSE <<y1, y2>>
  IN {<<U(x), U(i)>> : i \in y[1] .. y[2]}

\* The float product may come out just below a row it should meet exactly;
\* at is the set of columns in which it does.
Slope(x1, y1, x2, y2, at) ==
  LET rise(i) == (y2 - y1) * (i - x1)
      exact(i) == rise(i) % (x2 - x1) = 0
      below(i) == IF i \in at /\ exact(i) /\ (y2 - y1) % (x2 - x1) # 0 THEN 1 ELSE 0
  IN {<<U(i), Max({0, y1 + rise(i) \div (x2 - x1) - below(i)})>> : i \in x1 .. x2}

\* ssd1306_draw_line.
Line(x1, y1, x2, y2, at) ==
  LET x == IF x1 > x2 THEN Swap(x1, x2) ELSE <<x1, x2>>
      y == IF x1 > x2 THEN Swap(y1, y2) ELSE <<y1, y2>>
  IN IF x[1] = x[2] THEN Column(x[1], y[1], y[2]) ELSE Slope(x[1], y[1], x[2], y[2], at)

EmptySquare(x, y, width, height) ==
  Line(x, y, x + width, y, {}) \cup Line(x, y + height, x + width, y + height, {})
    \cup Line(x, y, x, y + height, {}) \cup Line(x + width, y, x + width, y + height, {})

\* The pixels of a character: each column of a glyph takes the bytes its
\* height needs, lowest bit on top.
Glyph(font, c) ==
  LET parts == (font.height \div 8) + (IF font.height % 8 > 0 THEN 1 ELSE 0)
      at(w, lp) == (c - font.first) * font.width * parts + w * parts + lp
  IN {<<t[1], 8 * t[2] + t[3]>> : t \in
        {t \in (0 .. font.width - 1) \X (0 .. parts - 1) \X (0 .. 7) :
           t[3] \in font.data[at(t[1], t[2])]}}

\* ssd1306_draw_char_with_font.
Char(x, y, scale, font, c) ==
  IF c < font.first \/ c > font.last THEN {}
  ELSE UNION {Square(x + g[1] * scale, y + g[2] * scale, scale, scale) : g \in Glyph(font, c)}

\* Mutant of Advance: the gap between characters is not scaled.
AdvanceUnscaled(font, scale) == font.width * scale + font.gap

Advance(font, scale) == (font.width + font.gap) * scale

\* ssd1306_draw_string_with_font.
Text(x, y, scale, font, s) ==
  UNION {Char(x + (i - 1) * Advance(font, scale), y, scale, font, s[i]) : i \in DOMAIN s}

\* Lines of a bitmap are padded to four bytes.
BytesPerLine(width) ==
  LET n == (width \div 8) + (IF width % 8 > 0 THEN 1 ELSE 0)
  IN IF n % 4 # 0 THEN (n - (n % 4)) + 4 ELSE n

\* The palette entry that is black, the first if none is.
BlackEntry(bmp) == IF ~bmp.black[0] /\ bmp.black[1] THEN 1 ELSE 0

\* ssd1306_bmp_show_image_with_offset: lines from the bottom up when the
\* height is positive, black drawn lit; nothing of any other format.
Bitmap(x, y, bmp) ==
  LET lines == IF bmp.height > 0 THEN bmp.height ELSE -bmp.height
      row(k) == IF bmp.height > 0 THEN bmp.height - 1 - k ELSE k
  IN IF bmp.size < 54 \/ bmp.bits # 1 \/ bmp.compressed THEN {}
     ELSE {<<U(x + t[1]), U(y + row(t[2]))>> : t \in
             {t \in (0 .. bmp.width - 1) \X (0 .. lines - 1) :
                bmp.data[8 * BytesPerLine(bmp.width) * t[2] + t[1]] = BlackEntry(bmp)}}

-----------------------------------------------------------------------------

Screen == (0 .. W - 1) \X (0 .. H - 1)

\* The signed number a coordinate stands for.
Signed(n) == IF n >= WORD \div 2 THEN n - WORD ELSE n

Rectangle(x, y, width, height) ==
  {p \in Screen : p[1] - Signed(x) \in 0 .. width - 1 /\ p[2] - Signed(y) \in 0 .. height - 1}

\* A square drawn over anything lights its own part of the display and
\* leaves the rest alone, also where it reaches over an edge, the left and
\* upper ones included; clearing it takes away just that.
SquareClipped(x, y, width, height) ==
  LET under == DrawPixels(Blank, Square(1, 1, 2, H))
      shape == Square(x, y, width, height)
      there == Rectangle(x, y, width, height)
  IN /\ Lit(DrawPixels(under, shape)) = Lit(under) \cup there
     /\ Lit(ClearPixels(under, shape)) = Lit(under) \ there

\* An empty square is the border of a square one pixel larger each way than
\* the filled one of the same arguments.
SquareOutlined(x, y, width, height) ==
  Lit(DrawPixels(Blank, EmptySquare(x, y, width, height))) =
    Rectangle(x, y, width + 1, height + 1) \ Rectangle(x + 1, y + 1, width - 1, height - 1)

\* A line drawn to the right has one pixel a column, less than a row off
\* where it should be, and at the ends within its rounding.
LineStraight(x1, y1, x2, y2, at) ==
  LET line == Line(x1, y1, x2, y2, at)
  IN /\ \A column \in x1 .. x2 : Cardinality({p \in line : p[1] = column}) = 1
     /\ \A p \in line :
          p[1] \in x1 .. x2 /\ (p[2] - y1) * (x2 - x1) - (y2 - y1) * (p[1] - x1) \in x1 - x2 .. 0

\* A string shows the glyph of each of its characters in a cell of its own,
\* at any scale, and nothing else.
TextReadable(x, y, scale, font, s) ==
  Lit(DrawPixels(Blank, Text(x, y, scale, font, s))) =
    {p \in Screen :
       LET dx == p[1] - Signed(x)  dy == p[2] - Signed(y)
           pitch == (font.width + font.gap) * scale
           c == s[dx \div pitch + 1]
       IN /\ dx >= 0 /\ dy >= 0 /\ dx \div pitch < Len(s)
          /\ c \in font.first .. font.last
          /\ <<(dx % pitch) \div scale, dy \div scale>> \in Glyph(font, c)}

\* A picture in the bitmap format: one bit a pixel, lines padded to four
\* bytes, the lowest first unless the height is negative.
Encoded(picture, width, height, turned, blackEntry) ==
  LET bits == 32 * ((width + 31) \div 32)
      line(k) == IF turned THEN k ELSE height - 1 - k
  IN [size |-> 54, bits |-> 1, compressed |-> FALSE, width |-> width,
      height |-> IF turned THEN -height ELSE height,
      black |-> [e \in 0 .. 1 |-> e = blackEntry],
      data |-> [n \in 0 .. bits * height - 1 |->
                  IF <<n % bits, line(n \div bits)>> \in picture
                  THEN blackEntry ELSE 1 - blackEntry]]

\* A bitmap is shown as it was drawn, whichever way its lines run, whichever
\* entry of its palette is black and whatever its lines are padded with.
BitmapShown(picture, width, height, turned, blackEntry) ==
  Lit(DrawPixels(Blank, Bitmap(0, 0, Encoded(picture, width, height, turned, blackEntry))))
    = {p \in picture \cap Screen : p[1] < width /\ p[2] < height}
=============================================================================
