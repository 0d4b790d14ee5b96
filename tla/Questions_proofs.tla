-------------------------- MODULE Questions_proofs --------------------------
(***************************************************************************)
(* Proofs about the parts that keep no state: what the drawing functions   *)
(* of the display light, what is read of the form of the page, what        *)
(* Unity's assertions decide and what they print.  A behaviour asks one    *)
(* question.                                                               *)
(***************************************************************************)
EXTENDS Components, Recursion

-----------------------------------------------------------------------------
(* Bytes and bits of the frame buffer.                                     *)

\* A number of the form x + w * q tells x and q.
LEMMA TwoDigits ==
  ASSUME NEW w \in Nat \ {0}, NEW a \in 0 .. w - 1, NEW b \in 0 .. w - 1,
         NEW q \in Int, NEW r \in Int, a + w * q = b + w * r
  PROVE  a = b /\ q = r
<1>1. PICK u \in Int, v \in Int : u = w * q /\ v = w * r
  OBVIOUS
<1>2. w * (q - r) = u - v /\ u - v \in -w + 1 .. w - 1
  BY <1>1
<1>3. CASE q - r >= 1
  <2>1. w * (q - r - 1) >= 0 /\ w * (q - r - 1) = w * (q - r) - w
    BY <1>3
  <2> QED
    BY <1>1, <1>2, <2>1
<1>4. CASE q - r <= -1
  <2>1. w * (r - q - 1) >= 0 /\ w * (r - q - 1) = -(w * (q - r)) - w
    BY <1>4
  <2> QED
    BY <1>1, <1>2, <2>1
<1>5. CASE q = r
  BY <1>1, <1>5
<1> QED
  BY <1>3, <1>4, <1>5

\* A pixel of the display is the only one of its byte and bit.
LEMMA OneByteBit ==
  ASSUME Screen!ScreenAssumption, NEW a \in 0 .. W - 1, NEW b \in 0 .. W - 1,
         NEW c \in Nat, NEW d \in Nat, c % 8 = d % 8,
         a + W * (c \div 8) = b + W * (d \div 8)
  PROVE  a = b /\ c = d
<1>1. W \in Nat \ {0}
  BY DEF Screen!ScreenAssumption
<1>2. c \div 8 \in Int /\ d \div 8 \in Int
  OBVIOUS
<1>3. a = b /\ c \div 8 = d \div 8
  <2>1. PICK q \in Int, r \in Int : q = c \div 8 /\ r = d \div 8
    BY <1>2
  <2>2. a + W * q = b + W * r
    BY <2>1
  <2>3. a = b /\ q = r
    BY <1>1, <2>2, TwoDigits
  <2> QED
    BY <2>1, <2>3
<1> QED
  BY <1>3

LEMMA ByteOnScreen ==
  ASSUME Screen!ScreenAssumption, NEW a \in 0 .. W - 1, NEW c \in 0 .. H - 1
  PROVE  a + W * (c \div 8) \in 0 .. W * (H \div 8) - 1
<1>1. W \in Nat \ {0}
  BY DEF Screen!ScreenAssumption
<1>2. PICK k \in Nat, h \in Nat : k = c \div 8 /\ h = H \div 8 /\ k <= h - 1
  <2>1. PICK n \in 1 .. 16 : H = 8 * n
    BY DEF Screen!ScreenAssumption
  <2> QED
    BY <2>1
<1>3. W * (h - 1 - k) >= 0 /\ W * (h - 1 - k) = W * h - W - W * k
  BY <1>1, <1>2
<1>4. W * k >= 0 /\ W * h \in Int /\ W * k \in Int
  BY <1>1, <1>2
<1> QED
  BY <1>1, <1>2, <1>3, <1>4

Canvas == [0 .. W * (H \div 8) - 1 -> SUBSET (0 .. 7)]
Dots == Nat \X Nat

\* Drawing adds the pixels of a shape that lie on the display to those lit,
\* clearing takes them away; no other pixel changes.
LEMMA DrawnLit ==
  ASSUME Screen!ScreenAssumption, NEW buf \in Canvas, NEW P \in SUBSET Dots
  PROVE  /\ Screen!Lit(Screen!DrawPixels(buf, P)) = Screen!Lit(buf) \cup (P \cap Screen!Screen)
         /\ Screen!Lit(Screen!ClearPixels(buf, P)) = Screen!Lit(buf) \ P
         /\ Screen!DrawPixels(buf, P) \in Canvas
<1>1. W \in Nat \ {0} /\ H \in Nat \ {0}
  BY DEF Screen!ScreenAssumption
<1> DEFINE bits(byte) ==
      {Screen!Bit(q) : q \in {r \in P : Screen!OnScreen(r) /\ Screen!Byte(r) = byte}}
<1>2. \A byte : bits(byte) \subseteq 0 .. 7
  BY DEF Screen!Bit, Dots
<1>3. ASSUME NEW p \in Screen!Screen
      PROVE  Screen!Byte(p) \in DOMAIN buf /\ (Screen!Bit(p) \in bits(Screen!Byte(p)) <=> p \in P)
  <2>1. p[1] \in 0 .. W - 1 /\ p[2] \in 0 .. H - 1 /\ p = <<p[1], p[2]>> /\ Screen!OnScreen(p)
    BY <1>1 DEF Screen!Screen, Screen!OnScreen
  <2>2. Screen!Byte(p) \in DOMAIN buf
    BY <2>1, ByteOnScreen DEF Screen!Byte, Canvas
  <2>3. ASSUME NEW q \in P, Screen!OnScreen(q), Screen!Byte(q) = Screen!Byte(p),
               Screen!Bit(q) = Screen!Bit(p)
        PROVE  q = p
    <3>1. q = <<q[1], q[2]>> /\ q[1] \in 0 .. W - 1 /\ q[2] \in Nat /\ p[2] \in Nat
      BY <1>1, <2>1, <2>3 DEF Dots, Screen!OnScreen
    <3>2. q[1] = p[1] /\ q[2] = p[2]
      BY <2>1, <2>3, <3>1, OneByteBit DEF Screen!Byte, Screen!Bit
    <3> QED
      BY <2>1, <3>1, <3>2
  <2> QED
    BY <2>1, <2>2, <2>3, Zenon
<1>4. \A byte \in DOMAIN buf :
        /\ Screen!DrawPixels(buf, P)[byte] = buf[byte] \cup bits(byte)
        /\ Screen!ClearPixels(buf, P)[byte] = buf[byte] \ bits(byte)
  BY Zenon DEF Screen!DrawPixels, Screen!ClearPixels
<1>5. Screen!DrawPixels(buf, P) \in Canvas
  BY <1>2 DEF Screen!DrawPixels, Canvas
<1>6. \A b, p : p \in Screen!Lit(b) <=> p \in Screen!Screen /\ Screen!Bit(p) \in b[Screen!Byte(p)]
  BY Zenon DEF Screen!Lit, Screen!Screen
<1> HIDE DEF bits
<1>7. \A p : p \in Screen!Lit(Screen!DrawPixels(buf, P))
               <=> p \in Screen!Lit(buf) \cup (P \cap Screen!Screen)
  BY <1>3, <1>4, <1>6, Zenon
<1>8. \A p : p \in Screen!Lit(Screen!ClearPixels(buf, P)) <=> p \in Screen!Lit(buf) \ P
  BY <1>3, <1>4, <1>6, Zenon
<1> QED
  BY <1>5, <1>7, <1>8, Zenon

LEMMA BlankFacts ==
  ASSUME Screen!ScreenAssumption
  PROVE  Screen!Blank \in Canvas /\ Screen!Lit(Screen!Blank) = {}
<1>1. Screen!Blank \in Canvas
  BY DEF Screen!Blank, Canvas
<1>2. ASSUME NEW p \in Screen!Screen PROVE Screen!Byte(p) \in DOMAIN Screen!Blank
  <2>1. p[1] \in 0 .. W - 1 /\ p[2] \in 0 .. H - 1
    BY DEF Screen!Screen
  <2> QED
    BY <2>1, ByteOnScreen DEF Screen!Byte, Screen!Blank
<1>3. \A p \in Screen!Screen : Screen!Blank[Screen!Byte(p)] = {}
  BY <1>2, Zenon DEF Screen!Blank
<1> QED
  BY <1>1, <1>3, Zenon DEF Screen!Lit, Screen!Screen

-----------------------------------------------------------------------------
(* Coordinates wrap: where a pixel at a distance from x comes to lie.      *)

LEMMA Unwrapped ==
  ASSUME NEW n \in Nat, n < WORD, WORD \in Nat
  PROVE  Screen!U(n) = n
BY DEF Screen!U

LEMMA Wraps ==
  ASSUME Screen!ScreenAssumption, NEW x0 \in Coordinates, NEW o \in 0 .. WORD \div 2,
         NEW n \in Nat, n < W \/ n < H
  PROVE  Screen!U(x0 + o) = n <=> o = n - Screen!Signed(x0)
<1>1. WORD \in Nat \ {0} /\ n < WORD \div 2 /\ x0 \in 0 .. WORD - 1 /\ WORD \div 2 \in Nat
  BY DEF Screen!ScreenAssumption, Coordinates
<1>2. CASE x0 + o < WORD
  BY <1>1, <1>2 DEF Screen!U, Screen!Signed
<1>3. CASE x0 + o >= WORD
  <2>1. x0 + o - WORD \in 0 .. WORD - 1
    BY <1>1, <1>3
  <2>2. (x0 + o) % WORD = x0 + o - WORD
    BY <1>1, <2>1
  <2> QED
    BY <1>1, <1>3, <2>1, <2>2 DEF Screen!U, Screen!Signed
<1> QED
  BY <1>1, <1>2, <1>3

-----------------------------------------------------------------------------
(* Squares.                                                                *)

\* The pixels of a square that are on the display are those of a rectangle,
\* whose corner may lie off it.
LEMMA SquareFacts ==
  ASSUME Screen!ScreenAssumption, NEW x0 \in Coordinates, NEW y0 \in Coordinates,
         NEW w \in 0 .. WORD \div 2, NEW h \in 0 .. WORD \div 2
  PROVE  /\ Screen!Square(x0, y0, w, h) \in SUBSET Dots
         /\ Screen!Square(x0, y0, w, h) \cap Screen!Screen = Screen!Rectangle(x0, y0, w, h)
<1>1. /\ WORD \in Nat \ {0} /\ x0 \in Nat /\ y0 \in Nat /\ W \in Nat /\ H \in Nat
      /\ WORD \div 2 \in Nat
  BY DEF Screen!ScreenAssumption, Coordinates
<1> DEFINE S == Screen!Square(x0, y0, w, h)
<1>2. \A p : p \in S <=> \E o \in 0 .. w - 1, r \in 0 .. h - 1 :
                            p = <<Screen!U(x0 + o), Screen!U(y0 + r)>>
  BY DEF Screen!Square
<1> HIDE DEF S
<1>3. S \in SUBSET Dots
  <2>1. \A o \in 0 .. w - 1, r \in 0 .. h - 1 :
          Screen!U(x0 + o) \in Nat /\ Screen!U(y0 + r) \in Nat
    BY <1>1 DEF Screen!U
  <2> QED
    BY <1>2, <2>1 DEF Dots
<1>4. ASSUME NEW p \in Screen!Screen PROVE p \in S <=> p \in Screen!Rectangle(x0, y0, w, h)
  <2>1. p = <<p[1], p[2]>> /\ p[1] \in Nat /\ p[1] < W /\ p[2] \in Nat /\ p[2] < H
    BY <1>1 DEF Screen!Screen
  <2>2. Screen!Signed(x0) \in Int /\ Screen!Signed(y0) \in Int
    BY <1>1 DEF Screen!Signed
  <2>3. /\ \A o \in 0 .. w - 1 : Screen!U(x0 + o) = p[1] <=> o = p[1] - Screen!Signed(x0)
        /\ \A o \in 0 .. h - 1 : Screen!U(y0 + o) = p[2] <=> o = p[2] - Screen!Signed(y0)
    <3>1. \A o \in 0 .. w - 1 : o \in 0 .. WORD \div 2
      BY <1>1
    <3>2. \A o \in 0 .. h - 1 : o \in 0 .. WORD \div 2
      BY <1>1
    <3> QED
      BY <2>1, <3>1, <3>2, Wraps
  <2>4. p \in S <=> \E o \in 0 .. w - 1, r \in 0 .. h - 1 :
                       Screen!U(x0 + o) = p[1] /\ Screen!U(y0 + r) = p[2]
    BY <1>2, <2>1
  <2>5. p \in S <=> /\ p[1] - Screen!Signed(x0) \in 0 .. w - 1
                    /\ p[2] - Screen!Signed(y0) \in 0 .. h - 1
    BY <2>2, <2>3, <2>4
  <2> QED
    BY <2>5 DEF Screen!Rectangle
<1>5. Screen!Rectangle(x0, y0, w, h) \subseteq Screen!Screen
  BY DEF Screen!Rectangle
<1> QED
  BY <1>3, <1>4, <1>5 DEF S

LEMMA SquaresClipped ==
  ASSUME Screen!ScreenAssumption, NEW x0 \in Coordinates, NEW y0 \in Coordinates,
         NEW w \in Lengths, NEW h \in Lengths
  PROVE  Screen!SquareClipped(x0, y0, w, h)
<1>1. /\ WORD \in Nat \ {0} /\ W \in Nat \ {0} /\ H \in Nat \ {0} /\ WORD \div 2 \in Nat
      /\ 1 \in Coordinates /\ 2 \in 0 .. WORD \div 2 /\ H \in 0 .. WORD \div 2
      /\ w \in 0 .. WORD \div 2 /\ h \in 0 .. WORD \div 2
  BY DEF Screen!ScreenAssumption, Coordinates, Lengths
<1> DEFINE under == Screen!DrawPixels(Screen!Blank, Screen!Square(1, 1, 2, H))
           shape == Screen!Square(x0, y0, w, h)
           there == Screen!Rectangle(x0, y0, w, h)
<1>2. under \in Canvas
  BY <1>1, SquareFacts, BlankFacts, DrawnLit
<1>3. shape \in SUBSET Dots /\ shape \cap Screen!Screen = there
  BY <1>1, SquareFacts
<1>4. Screen!Lit(under) \subseteq Screen!Screen
  BY Zenon DEF Screen!Lit, Screen!Screen
<1> HIDE DEF under, shape, there
<1>5. /\ Screen!Lit(Screen!DrawPixels(under, shape)) = Screen!Lit(under) \cup there
      /\ Screen!Lit(Screen!ClearPixels(under, shape)) = Screen!Lit(under) \ there
  BY <1>2, <1>3, <1>4, DrawnLit
<1> QED
  BY <1>5 DEF Screen!SquareClipped, under, shape, there

-----------------------------------------------------------------------------
(* Empty squares: four lines of which none is slanted.                     *)

LEMMA GreatestOfTwo ==
  ASSUME NEW n \in Nat
  PROVE  Screen!Max({0, n}) = n
<1>1. n \in {0, n} /\ \A m \in {0, n} : n >= m
  OBVIOUS
<1>2. \A z \in {0, n} : (\A m \in {0, n} : z >= m) => z = n
  BY <1>1
<1> QED
  BY <1>1, <1>2 DEF Screen!Max

\* The row of a slanted line in column n.
Dips(x1, y1, x2, y2, at, n) ==
  n \in at /\ ((y2 - y1) * (n - x1)) % (x2 - x1) = 0 /\ (y2 - y1) % (x2 - x1) # 0
RowAt(x1, y1, x2, y2, at, n) ==
  y1 + ((y2 - y1) * (n - x1)) \div (x2 - x1) - (IF Dips(x1, y1, x2, y2, at, n) THEN 1 ELSE 0)

LEMMA SlopeRows ==
  ASSUME NEW x1, NEW y1, NEW x2, NEW y2, NEW at
  PROVE  Screen!Slope(x1, y1, x2, y2, at) =
           {<<Screen!U(n), Screen!Max({0, RowAt(x1, y1, x2, y2, at, n)})>> : n \in x1 .. x2}
BY Zenon DEF Screen!Slope, RowAt, Dips

Flat(x1, y1, w) ==
  Screen!Line(x1, y1, x1 + w, y1, {}) = {<<n, y1>> : n \in x1 .. x1 + w}
Upright(x1, y1, h) ==
  Screen!Line(x1, y1, x1, y1 + h, {}) = {<<x1, n>> : n \in y1 .. y1 + h}

LEMMA FlatLine ==
  ASSUME WORD \in Nat, NEW x1 \in Nat, NEW y1 \in Nat, y1 < WORD, NEW w \in Nat, x1 + w < WORD
  PROVE  Flat(x1, y1, w)
<1>1. \A n \in x1 .. x1 + w : Screen!U(n) = n
  BY Unwrapped
<1>2. Screen!U(y1) = y1
  BY Unwrapped
<1>3. CASE w = 0
  <2>1. Screen!Line(x1, y1, x1 + w, y1, {}) = {<<Screen!U(x1), Screen!U(n)>> : n \in y1 .. y1}
    BY <1>3 DEF Screen!Line, Screen!Column
  <2> QED
    BY <1>1, <1>2, <1>3, <2>1 DEF Flat
<1>4. CASE w # 0
  <2>1. /\ Screen!Line(x1, y1, x1 + w, y1, {}) = Screen!Slope(x1, y1, x1 + w, y1, {})
        /\ x1 + w - x1 = w
    BY <1>4 DEF Screen!Line
  <2>2. \A n \in x1 .. x1 + w : RowAt(x1, y1, x1 + w, y1, {}, n) = y1
    BY <1>4 DEF RowAt, Dips
  <2>3. \A n \in x1 .. x1 + w :
          <<Screen!U(n), Screen!Max({0, RowAt(x1, y1, x1 + w, y1, {}, n)})>> = <<n, y1>>
    <3>1. Screen!Max({0, y1}) = y1
      BY GreatestOfTwo
    <3> QED
      BY <1>1, <2>2, <3>1, Zenon
  <2>4. Screen!Slope(x1, y1, x1 + w, y1, {}) =
          {<<Screen!U(n), Screen!Max({0, RowAt(x1, y1, x1 + w, y1, {}, n)})>> : n \in x1 .. x1 + w}
    BY SlopeRows, Zenon
  <2> QED
    BY <2>1, <2>3, <2>4, ZenonT(30) DEF Flat
<1> QED
  BY <1>3, <1>4

LEMMA UprightLine ==
  ASSUME WORD \in Nat, NEW x1 \in Nat, x1 < WORD, NEW y1 \in Nat, NEW h \in Nat, y1 + h < WORD
  PROVE  Upright(x1, y1, h)
<1>1. Screen!U(x1) = x1 /\ \A n \in y1 .. y1 + h : Screen!U(n) = n
  BY Unwrapped
<1>2. Screen!Line(x1, y1, x1, y1 + h, {}) = {<<Screen!U(x1), Screen!U(n)>> : n \in y1 .. y1 + h}
  BY DEF Screen!Line, Screen!Column
<1> QED
  BY <1>1, <1>2 DEF Upright
LEMMA SquaresOutlined ==
  ASSUME Screen!ScreenAssumption, NEW x0 \in Coordinates, NEW y0 \in Coordinates,
         x0 < WORD \div 2, y0 < WORD \div 2, NEW w \in Lengths, NEW h \in Lengths
  PROVE  Screen!SquareOutlined(x0, y0, w, h)
<1>1. /\ WORD \in Nat /\ WORD \in Nat \ {0} /\ WORD \div 2 \in Nat
      /\ W \in Nat \ {0} /\ H \in Nat \ {0}
      /\ W < WORD \div 2 /\ H < WORD \div 2 /\ x0 \in Nat /\ y0 \in Nat /\ w \in Nat /\ h \in Nat
      /\ x0 < WORD /\ y0 < WORD /\ x0 + w < WORD /\ y0 + h < WORD
  BY DEF Screen!ScreenAssumption, Coordinates, Lengths
<1> DEFINE E == Screen!EmptySquare(x0, y0, w, h)
           outer == Screen!Rectangle(x0, y0, w + 1, h + 1)
           inner == Screen!Rectangle(x0 + 1, y0 + 1, w - 1, h - 1)
<1>2. E = {<<n, y0>> : n \in x0 .. x0 + w} \cup {<<n, y0 + h>> : n \in x0 .. x0 + w}
            \cup {<<x0, n>> : n \in y0 .. y0 + h} \cup {<<x0 + w, n>> : n \in y0 .. y0 + h}
  <2>1. x0 + w \in Nat /\ y0 + h \in Nat
    BY <1>1
  <2>2. Flat(x0, y0, w) /\ Flat(x0, y0 + h, w) /\ Upright(x0, y0, h) /\ Upright(x0 + w, y0, h)
    BY <1>1, <2>1, FlatLine, UprightLine
  <2> QED
    BY <2>2, Zenon DEF Screen!EmptySquare, Flat, Upright
<1> HIDE DEF E
<1>3. E \in SUBSET Dots
  BY <1>1, <1>2 DEF Dots
<1>4. Screen!Lit(Screen!DrawPixels(Screen!Blank, E)) = E \cap Screen!Screen
  BY <1>3, BlankFacts, DrawnLit
<1>5. /\ Screen!Signed(x0) = x0 /\ Screen!Signed(y0) = y0
      /\ Screen!Signed(x0 + 1) = x0 + 1 \/ Screen!Signed(x0 + 1) < -w
      /\ Screen!Signed(y0 + 1) = y0 + 1 \/ Screen!Signed(y0 + 1) < -h
      /\ Screen!Signed(x0 + 1) \in Int /\ Screen!Signed(y0 + 1) \in Int
      /\ Screen!Signed(x0 + 1) = x0 + 1 \/ x0 >= W
      /\ Screen!Signed(y0 + 1) = y0 + 1 \/ y0 >= H
  BY <1>1 DEF Screen!Signed, Lengths
<1>6. ASSUME NEW p \in Screen!Screen PROVE p \in E <=> p \in outer \ inner
  <2>1. p = <<p[1], p[2]>> /\ p[1] \in Nat /\ p[1] < W /\ p[2] \in Nat /\ p[2] < H
    BY <1>1 DEF Screen!Screen
  <2>2. PICK a \in Nat, b \in Nat : a = p[1] /\ b = p[2]
    BY <2>1
  <2>3. p \in E <=> \/ a \in x0 .. x0 + w /\ (b = y0 \/ b = y0 + h)
                    \/ b \in y0 .. y0 + h /\ (a = x0 \/ a = x0 + w)
    BY <1>1, <1>2, <2>1, <2>2
  <2>4. p \in outer <=> a - x0 \in 0 .. w /\ b - y0 \in 0 .. h
    BY <1>1, <1>5, <2>2 DEF Screen!Rectangle
  <2>5. p \in inner <=> /\ a - Screen!Signed(x0 + 1) \in 0 .. w - 2
                        /\ b - Screen!Signed(y0 + 1) \in 0 .. h - 2
    BY <1>1, <1>5, <2>2 DEF Screen!Rectangle
  <2>6. PICK s \in Int, t \in Int : s = Screen!Signed(x0 + 1) /\ t = Screen!Signed(y0 + 1)
    BY <1>5
  <2> HIDE DEF outer, inner
  <2> QED
    BY <1>1, <1>5, <2>1, <2>2, <2>3, <2>4, <2>5, <2>6
<1>7. outer \subseteq Screen!Screen
  BY DEF Screen!Rectangle
<1> QED
  BY <1>3, <1>4, <1>6, <1>7 DEF Screen!SquareOutlined, E, outer, inner

-----------------------------------------------------------------------------
(* Slanted lines.                                                          *)

LEMMA GreatestWithZero ==
  ASSUME NEW n \in Int
  PROVE  Screen!Max({0, n}) = IF n >= 0 THEN n ELSE 0
<1>1. PICK m \in {0, n} : m = (IF n >= 0 THEN n ELSE 0) /\ \A k \in {0, n} : m >= k
  OBVIOUS
<1>2. \A z \in {0, n} : (\A k \in {0, n} : z >= k) => z = m
  BY <1>1
<1> QED
  BY <1>1, <1>2 DEF Screen!Max

\* The row of a column is less than one row above where the line should be,
\* and never off the display upwards.
LEMMA RowNear ==
  ASSUME NEW a1 \in Nat, NEW b1 \in Nat, NEW a2 \in Nat, NEW b2 \in Nat, a1 < a2,
         NEW at, NEW n \in a1 .. a2,
         NEW row, row = Screen!Max({0, RowAt(a1, b1, a2, b2, at, n)})
  PROVE  /\ row \in Nat
         /\ (row - b1) * (a2 - a1) - (b2 - b1) * (n - a1) \in a1 - a2 .. 0
<1>1. PICK d \in Nat \ {0}, k \in Nat, dy \in Int :
        d = a2 - a1 /\ k = n - a1 /\ k <= d /\ dy = b2 - b1
  OBVIOUS
<1>2. PICK rise \in Int : rise = dy * k
  OBVIOUS
<1>3. PICK q \in Int, m \in 0 .. d - 1 : q = rise \div d /\ m = rise % d /\ rise = q * d + m
  OBVIOUS
<1>4. b1 + q >= 0
  <2>1. b1 * (d - k) >= 0 /\ b2 * k >= 0
    BY <1>1
  <2>2. b1 * (d - k) = b1 * d - b1 * k /\ dy * k = b2 * k - b1 * k
    BY <1>1
  <2>3. b1 * d \in Int /\ b1 * k \in Int /\ b2 * k \in Int /\ q * d \in Int
    BY <1>1
  <2>4. b1 * d + rise >= 0
    BY <1>2, <2>1, <2>2, <2>3
  <2>5. (b1 + q + 1) * d = b1 * d + q * d + d
    OBVIOUS
  <2>6. (b1 + q + 1) * d > 0
    BY <1>3, <2>3, <2>4, <2>5
  <2>7. CASE b1 + q + 1 <= 0
    <3>1. (-(b1 + q + 1)) * d >= 0
      BY <2>7
    <3>2. (-(b1 + q + 1)) * d = -((b1 + q + 1) * d)
      OBVIOUS
    <3> QED
      BY <2>6, <3>1, <3>2
  <2> QED
    BY <2>7
<1>5. PICK b \in 0 .. 1 : /\ b = IF Dips(a1, b1, a2, b2, at, n) THEN 1 ELSE 0
                          /\ b = 1 => m = 0
  <2>1. Dips(a1, b1, a2, b2, at, n) => m = 0
    BY <1>1, <1>2, <1>3 DEF Dips
  <2> QED
    BY <2>1
<1>6. RowAt(a1, b1, a2, b2, at, n) = b1 + q - b
  BY <1>1, <1>2, <1>3, <1>5 DEF RowAt
<1>7. row = IF b1 + q - b >= 0 THEN b1 + q - b ELSE 0
  BY <1>6, GreatestWithZero
<1>8. CASE row = b1 + q
  <2>1. (row - b1) * d - rise = -m
    BY <1>3, <1>8
  <2> QED
    BY <1>1, <1>2, <1>4, <1>8, <2>1
<1>9. CASE row = b1 + q - 1 /\ b = 1 /\ row >= 0
  <2>1. (row - b1) * d = q * d - d
    BY <1>9
  <2>2. (row - b1) * d - rise = -d
    BY <1>3, <1>5, <1>9, <2>1
  <2> QED
    BY <1>1, <1>2, <1>9, <2>2
<1> QED
  BY <1>4, <1>5, <1>7, <1>8, <1>9

LEMMA ScreenCounts == \A S : Screen!Cardinality(S) = Cardinality(S)
BY Zenon DEF Screen!Cardinality, Cardinality

LEMMA LinesStraight ==
  ASSUME WORD \in Nat, NEW a1 \in Coordinates, NEW b1 \in Coordinates,
         NEW a2 \in Coordinates, NEW b2 \in Coordinates, a1 < a2, NEW at
  PROVE  Screen!LineStraight(a1, b1, a2, b2, at)
<1>1. a1 \in Nat /\ b1 \in Nat /\ a2 \in Nat /\ b2 \in Nat /\ a2 < WORD
  BY DEF Coordinates
<1> DEFINE line == Screen!Line(a1, b1, a2, b2, at)
           row(n) == Screen!Max({0, RowAt(a1, b1, a2, b2, at, n)})
<1>2. line = Screen!Slope(a1, b1, a2, b2, at)
  BY <1>1 DEF Screen!Line
<1>3. \A n \in a1 .. a2 : Screen!U(n) = n
  BY <1>1, Unwrapped
<1>4. line = {<<n, row(n)>> : n \in a1 .. a2}
  BY <1>2, <1>3, SlopeRows, Zenon
<1> HIDE DEF row
<1>5. ASSUME NEW column \in a1 .. a2
      PROVE  Screen!Cardinality({p \in line : p[1] = column}) = 1
  <2>1. {p \in line : p[1] = column} = {<<column, row(column)>>}
    BY <1>4
  <2> QED
    BY <2>1, FS_Singleton, ScreenCounts, Zenon
<1>6. ASSUME NEW p \in line
      PROVE  /\ p[1] \in a1 .. a2
             /\ (p[2] - b1) * (a2 - a1) - (b2 - b1) * (p[1] - a1) \in a1 - a2 .. 0
  <2>1. PICK n \in a1 .. a2 : p = <<n, row(n)>>
    BY <1>4
  <2>2. (row(n) - b1) * (a2 - a1) - (b2 - b1) * (n - a1) \in a1 - a2 .. 0
    BY <1>1, RowNear DEF row
  <2> QED
    BY <2>1, <2>2
<1> QED
  BY <1>5, <1>6 DEF Screen!LineStraight
-----------------------------------------------------------------------------
(* Bitmaps.                                                                *)

\* Lines are padded to 32 bits.
LEMMA BitsPerLine ==
  ASSUME NEW w \in Nat
  PROVE  /\ 8 * Screen!BytesPerLine(w) = 32 * ((w + 31) \div 32)
         /\ 32 * ((w + 31) \div 32) >= w
<1>1. PICK q \in Nat, r \in 0 .. 31 : w = 32 * q + r
  <2>1. w \div 32 \in Nat /\ w % 32 \in 0 .. 31 /\ w = 32 * (w \div 32) + (w % 32)
    OBVIOUS
  <2> QED
    BY <2>1
<1>2. (w + 31) \div 32 = IF r = 0 THEN q ELSE q + 1
  BY <1>1
<1>3. PICK n \in Nat : n = (w \div 8) + (IF w % 8 > 0 THEN 1 ELSE 0)
  OBVIOUS
<1>4. Screen!BytesPerLine(w) = IF n % 4 # 0 THEN (n - (n % 4)) + 4 ELSE n
  BY <1>3 DEF Screen!BytesPerLine
<1>5. n \in 4 * q .. 4 * q + 4 /\ (n = 4 * q <=> r = 0)
  BY <1>1, <1>3
<1>6. Screen!BytesPerLine(w) = IF r = 0 THEN 4 * q ELSE 4 * q + 4
  <2>1. CASE n = 4 * q \/ n = 4 * q + 4
    BY <1>4, <1>5, <2>1
  <2>2. CASE n \in 4 * q + 1 .. 4 * q + 3
    <3>1. n % 4 = n - 4 * q
      BY <2>2
    <3> QED
      BY <1>4, <1>5, <2>2, <3>1
  <2> QED
    BY <1>5, <2>1, <2>2
<1> QED
  BY <1>1, <1>2, <1>6

\* The line of the picture that is k-th in the file.
LineOf(turned, height, k) == IF turned THEN k ELSE height - 1 - k

HoldsPicture(bmp, picture, w, h, turned, black) ==
  /\ bmp.size = 54 /\ bmp.bits = 1 /\ bmp.compressed = FALSE /\ bmp.width = w
  /\ bmp.height = (IF turned THEN -h ELSE h)
  /\ Screen!BlackEntry(bmp) = black
  /\ \A a \in 0 .. w - 1, b \in 0 .. h - 1 :
       bmp.data[8 * Screen!BytesPerLine(w) * b + a] = black
         <=> <<a, LineOf(turned, h, b)>> \in picture

LEMMA EncodedFacts ==
  ASSUME NEW picture \in SUBSET Dots, NEW w \in Nat, NEW h \in Nat \ {0},
         NEW turned \in BOOLEAN, NEW black \in 0 .. 1
  PROVE  HoldsPicture(Screen!Encoded(picture, w, h, turned, black), picture, w, h, turned, black)
<1> DEFINE bmp == Screen!Encoded(picture, w, h, turned, black)
<1>1. PICK bits \in Nat : bits = 32 * ((w + 31) \div 32) /\ bits >= w
  BY BitsPerLine
<1>2. /\ bmp.size = 54 /\ bmp.bits = 1 /\ bmp.compressed = FALSE /\ bmp.width = w
      /\ bmp.height = (IF turned THEN -h ELSE h)
      /\ bmp.black = [e \in 0 .. 1 |-> e = black]
  BY DEF Screen!Encoded
<1>3. \A n \in 0 .. bits * h - 1 :
        bmp.data[n] = IF <<n % bits, LineOf(turned, h, n \div bits)>> \in picture
                      THEN black ELSE 1 - black
  BY <1>1 DEF Screen!Encoded, LineOf
<1>4. Screen!BlackEntry(bmp) = black
  <2>1. CASE black = 0
    <3>1. bmp.black[0]
      BY <1>2, <2>1, Zenon
    <3> QED
      BY <2>1, <3>1, Zenon DEF Screen!BlackEntry
  <2>2. CASE black = 1
    <3>1. 0 \in 0 .. 1 /\ 1 \in 0 .. 1 /\ 0 # 1
      OBVIOUS
    <3>2. ~bmp.black[0] /\ bmp.black[1]
      BY <1>2, <2>2, <3>1, Zenon
    <3> QED
      BY <2>2, <3>2, Zenon DEF Screen!BlackEntry
  <2> QED
    BY <2>1, <2>2
<1>5. ASSUME NEW a \in 0 .. w - 1, NEW b \in 0 .. h - 1
      PROVE  /\ bits * b + a \in 0 .. bits * h - 1
             /\ (bits * b + a) % bits = a /\ (bits * b + a) \div bits = b
  <2>1. bits \in Nat \ {0} /\ a \in 0 .. bits - 1
    BY <1>1
  <2>2. bits * (h - 1 - b) >= 0 /\ bits * (h - 1 - b) = bits * h - bits - bits * b
    BY <2>1
  <2>3. bits * b >= 0 /\ bits * b \in Int /\ bits * h \in Int
    BY <2>1
  <2>4. PICK n \in Nat : n = bits * b + a
    BY <2>1, <2>3
  <2>5. n % bits \in 0 .. bits - 1 /\ n \div bits \in Int /\ n = bits * (n \div bits) + (n % bits)
    BY <2>1, <2>4
  <2>6. a + bits * b = (n % bits) + bits * (n \div bits)
    BY <2>3, <2>4, <2>5
  <2>7. a = n % bits /\ b = n \div bits
    BY <2>1, <2>5, <2>6, TwoDigits
  <2> QED
    BY <2>1, <2>2, <2>3, <2>4, <2>7
<1>6. ASSUME NEW a \in 0 .. w - 1, NEW b \in 0 .. h - 1
      PROVE  bmp.data[bits * b + a] = black <=> <<a, LineOf(turned, h, b)>> \in picture
  BY <1>3, <1>5
<1>7. 8 * Screen!BytesPerLine(w) = bits
  BY <1>1, BitsPerLine
<1>8. \A a \in 0 .. w - 1, b \in 0 .. h - 1 :
        bmp.data[8 * Screen!BytesPerLine(w) * b + a] = black
          <=> <<a, LineOf(turned, h, b)>> \in picture
  BY <1>6, <1>7, Zenon
<1> HIDE DEF bmp
<1>9. HoldsPicture(bmp, picture, w, h, turned, black)
  BY <1>2, <1>4, <1>8 DEF HoldsPicture
<1> QED
  BY <1>9 DEF bmp

LEMMA BitmapsShown ==
  ASSUME Screen!ScreenAssumption, NEW picture \in SUBSET Dots, NEW w \in Lengths,
         NEW h \in Lengths \ {0}, NEW turned \in BOOLEAN, NEW black \in 0 .. 1
  PROVE  Screen!BitmapShown(picture, w, h, turned, black)
<1>1. /\ WORD \in Nat \ {0} /\ W \in Nat /\ H \in Nat /\ w \in Nat /\ h \in Nat \ {0}
      /\ w < WORD /\ h < WORD
  BY DEF Screen!ScreenAssumption, Lengths
<1> DEFINE bmp == Screen!Encoded(picture, w, h, turned, black)
           shape == Screen!Bitmap(0, 0, bmp)
           at(t) == 8 * Screen!BytesPerLine(w) * t[2] + t[1]
           inked == {t \in (0 .. w - 1) \X (0 .. h - 1) : bmp.data[at(t)] = black}
<1>0. HoldsPicture(bmp, picture, w, h, turned, black)
  BY <1>1, EncodedFacts
<1> HIDE DEF bmp
<1>2. /\ bmp.size = 54 /\ bmp.bits = 1 /\ bmp.compressed = FALSE /\ bmp.width = w
      /\ bmp.height = (IF turned THEN -h ELSE h)
      /\ Screen!BlackEntry(bmp) = black
      /\ \A a \in 0 .. w - 1, b \in 0 .. h - 1 :
           bmp.data[8 * Screen!BytesPerLine(w) * b + a] = black
             <=> <<a, LineOf(turned, h, b)>> \in picture
  BY <1>0 DEF HoldsPicture
<1>3. shape = {<<Screen!U(0 + t[1]), Screen!U(0 + LineOf(turned, h, t[2]))>> : t \in inked}
  BY <1>1, <1>2 DEF Screen!Bitmap, LineOf
<1>4. \A t \in inked : /\ t[1] \in 0 .. w - 1 /\ t[2] \in 0 .. h - 1
                       /\ Screen!U(0 + t[1]) = t[1]
                       /\ Screen!U(0 + LineOf(turned, h, t[2])) = LineOf(turned, h, t[2])
                       /\ LineOf(turned, h, t[2]) \in 0 .. h - 1
                       /\ <<t[1], LineOf(turned, h, t[2])>> \in picture
  <2>1. ASSUME NEW t \in inked
        PROVE  /\ t[1] \in 0 .. w - 1 /\ t[2] \in 0 .. h - 1
               /\ <<t[1], LineOf(turned, h, t[2])>> \in picture
    BY <1>2
  <2>2. ASSUME NEW t \in inked
        PROVE  /\ LineOf(turned, h, t[2]) \in 0 .. h - 1
               /\ Screen!U(0 + t[1]) = t[1]
               /\ Screen!U(0 + LineOf(turned, h, t[2])) = LineOf(turned, h, t[2])
    <3>1. t[1] \in 0 .. w - 1 /\ LineOf(turned, h, t[2]) \in 0 .. h - 1
      BY <1>1, <2>1 DEF LineOf
    <3> HIDE DEF inked
    <3>2. PICK a \in Nat, b \in Nat : /\ a = t[1] /\ b = LineOf(turned, h, t[2])
                                     /\ a < WORD /\ b < WORD
      BY <1>1, <3>1
    <3>3. Screen!U(0 + a) = a /\ Screen!U(0 + b) = b
      BY <1>1, <3>2, Unwrapped
    <3> QED
      BY <3>1, <3>2, <3>3
  <2> QED
    BY <2>1, <2>2
<1>5. ASSUME NEW p \in picture, p[1] < w, p[2] < h
      PROVE  <<p[1], LineOf(turned, h, p[2])>> \in inked
             /\ LineOf(turned, h, LineOf(turned, h, p[2])) = p[2]
  <2>1. p = <<p[1], p[2]>> /\ p[1] \in 0 .. w - 1 /\ p[2] \in 0 .. h - 1
    BY <1>1, <1>5 DEF Dots
  <2>2. /\ LineOf(turned, h, p[2]) \in 0 .. h - 1
        /\ LineOf(turned, h, LineOf(turned, h, p[2])) = p[2]
    BY <1>1, <2>1 DEF LineOf
  <2> QED
    BY <1>2, <2>1, <2>2
<1> HIDE DEF inked
<1>6. \A p : p \in shape <=> \E t \in inked : p = <<t[1], LineOf(turned, h, t[2])>>
  BY <1>3, <1>4
<1> HIDE DEF shape
<1>7. ASSUME NEW p PROVE p \in shape <=> p \in picture /\ p[1] < w /\ p[2] < h
  <2>1. ASSUME p \in shape PROVE p \in picture /\ p[1] < w /\ p[2] < h
    BY <1>1, <1>4, <1>6, <2>1
  <2>2. ASSUME p \in picture, p[1] < w, p[2] < h PROVE p \in shape
    <3>1. p = <<p[1], p[2]>>
      BY <2>2 DEF Dots
    <3>2. PICK t \in inked : t = <<p[1], LineOf(turned, h, p[2])>>
      BY <1>5, <2>2
    <3>3. p = <<t[1], LineOf(turned, h, t[2])>>
      BY <1>5, <2>2, <3>1, <3>2
    <3> QED
      BY <1>6, <3>3
  <2> QED
    BY <2>1, <2>2
<1>8. shape \in SUBSET Dots
  BY <1>7
<1>9. Screen!Lit(Screen!DrawPixels(Screen!Blank, shape)) = shape \cap Screen!Screen
  BY <1>8, BlankFacts, DrawnLit
<1> QED
  BY <1>7, <1>9 DEF Screen!BitmapShown, shape, bmp
-----------------------------------------------------------------------------
(* Strings.                                                                *)

Splits(n, d, q, r) == n = q * d + r

LEMMA Divided ==
  ASSUME NEW d \in Nat \ {0}, NEW q \in Int, NEW r \in 0 .. d - 1, NEW n, Splits(n, d, q, r)
  PROVE  n \div d = q /\ n % d = r
<1>1. n \in Int /\ n = q * d + r
  BY DEF Splits
<1>2. PICK k \in Int, m \in 0 .. d - 1 : k = n \div d /\ m = n % d /\ n = d * k + m
  BY <1>1
<1>3. m + d * k = r + d * q
  BY <1>1, <1>2
<1>4. m = r /\ k = q
  BY <1>3, TwoDigits
<1> QED
  BY <1>2, <1>4

FontTyped(font) ==
  font.width \in Nat \ {0} /\ font.gap \in Nat /\ font.height \in Nat
    /\ font.first \in Nat /\ font.last \in Nat

LEMMA GlyphFacts ==
  ASSUME NEW font, FontTyped(font), NEW c
  PROVE  Screen!Glyph(font, c) \subseteq (0 .. font.width - 1) \X (0 .. font.height + 6)
<1>1. PICK w \in Nat, h \in Nat : w = font.width /\ h = font.height
  BY DEF FontTyped
<1>2. PICK parts \in Nat : parts = (h \div 8) + (IF h % 8 > 0 THEN 1 ELSE 0) /\ 8 * parts <= h + 7
  OBVIOUS
<1>3. \A g \in Screen!Glyph(font, c) :
        \E t \in (0 .. w - 1) \X (0 .. parts - 1) \X (0 .. 7) : g = <<t[1], 8 * t[2] + t[3]>>
  BY <1>1, <1>2 DEF Screen!Glyph
<1> QED
  BY <1>1, <1>2, <1>3

\* Pixel <<a, b>> of dot g of the i-th character.
InText(x1, y1, scale, font, i1, g, a, b) ==
  <<Screen!U(x1 + (i1 - 1) * Screen!Advance(font, scale) + g[1] * scale + a),
    Screen!U(y1 + g[2] * scale + b)>>

HasDots(shape, x1, y1, scale, font, s, p) ==
  p \in shape <=>
    \E n \in DOMAIN s : /\ s[n] \in font.first .. font.last
                        /\ \E g \in Screen!Glyph(font, s[n]) :
                             \E a \in 0 .. scale - 1, b \in 0 .. scale - 1 :
                               p = InText(x1, y1, scale, font, n, g, a, b)

LEMMA TextPixels ==
  ASSUME NEW x1, NEW y1, NEW scale, NEW font, FontTyped(font), NEW s \in Seq(Nat), NEW p
  PROVE  HasDots(Screen!Text(x1, y1, scale, font, s), x1, y1, scale, font, s, p)
<1>1. \A x2 : \A g : p \in Screen!Square(x2 + g[1] * scale, y1 + g[2] * scale, scale, scale) <=>
        \E a \in 0 .. scale - 1, b \in 0 .. scale - 1 :
          p = <<Screen!U(x2 + g[1] * scale + a), Screen!U(y1 + g[2] * scale + b)>>
  BY DEF Screen!Square
<1>2. \A x2, c : p \in Screen!Char(x2, y1, scale, font, c) <=>
        /\ ~(c < font.first \/ c > font.last)
        /\ \E g \in Screen!Glyph(font, c) :
             p \in Screen!Square(x2 + g[1] * scale, y1 + g[2] * scale, scale, scale)
  BY Zenon DEF Screen!Char
<1>3. p \in Screen!Text(x1, y1, scale, font, s) <=>
        \E n \in DOMAIN s :
          p \in Screen!Char(x1 + (n - 1) * Screen!Advance(font, scale), y1, scale, font, s[n])
  BY Zenon DEF Screen!Text
<1>4. \A n \in DOMAIN s :
        ~(s[n] < font.first \/ s[n] > font.last) <=> s[n] \in font.first .. font.last
  BY DEF FontTyped
<1>5. \A n \in DOMAIN s :
        p \in Screen!Char(x1 + (n - 1) * Screen!Advance(font, scale), y1, scale, font, s[n]) <=>
          /\ s[n] \in font.first .. font.last
          /\ \E g \in Screen!Glyph(font, s[n]) :
               \E a \in 0 .. scale - 1, b \in 0 .. scale - 1 :
                 p = InText(x1, y1, scale, font, n, g, a, b)
  BY <1>1, <1>2, <1>4, Zenon DEF InText
<1> QED
  BY <1>3, <1>5, Zenon DEF HasDots

\* A pixel o to the right and r below the place of a text is pixel <<a, b>> of
\* dot g in cell n of it.
Placed(pitch, scale, n, g, a, b, o, r) ==
  o = (n - 1) * pitch + g[1] * scale + a /\ r = g[2] * scale + b
FoundIn(pitch, scale, n, g, o, r) ==
  o \div pitch = n - 1 /\ <<(o % pitch) \div scale, r \div scale>> = g

LEMMA Cell ==
  ASSUME NEW scale \in Nat \ {0}, NEW font, FontTyped(font), NEW n \in Nat \ {0},
         NEW g \in (0 .. font.width - 1) \X (0 .. font.height + 6),
         NEW a \in 0 .. scale - 1, NEW b \in 0 .. scale - 1,
         NEW pitch, pitch = (font.width + font.gap) * scale,
         NEW o, NEW r, Placed(pitch, scale, n, g, a, b, o, r)
  PROVE  /\ pitch \in Nat \ {0} /\ o \in 0 .. n * pitch - 1
         /\ r \in 0 .. (font.height + 7) * scale - 1
         /\ FoundIn(pitch, scale, n, g, o, r)
<1>0. o = (n - 1) * pitch + g[1] * scale + a /\ r = g[2] * scale + b
  BY DEF Placed
<1>1. PICK w \in Nat \ {0}, gap \in Nat, h \in Nat :
        w = font.width /\ gap = font.gap /\ h = font.height
  BY DEF FontTyped
<1>2. PICK c \in 0 .. w - 1, d \in 0 .. h + 6 : c = g[1] /\ d = g[2]
  BY <1>1
<1>3. PICK k \in Nat : k = c * scale + a
  OBVIOUS
<1>4. (w - 1 - c) * scale >= 0 /\ (w - 1 - c) * scale = w * scale - scale - c * scale
  BY <1>2
<1>5. pitch = w * scale + gap * scale /\ w * scale >= scale /\ gap * scale >= 0
  <2>1. (w - 1) * scale >= 0 /\ (w - 1) * scale = w * scale - scale
    OBVIOUS
  <2> QED
    BY <1>1, <2>1
<1>6. pitch \in Nat \ {0} /\ k \in 0 .. pitch - 1
  BY <1>3, <1>4, <1>5
<1>7. o = (n - 1) * pitch + k
  BY <1>0, <1>2, <1>3, <1>6
<1>8. o \div pitch = n - 1 /\ o % pitch = k
  <2>1. Splits(o, pitch, n - 1, k) /\ n - 1 \in Int
    BY <1>7 DEF Splits
  <2> QED
    BY <1>6, <2>1, Divided
<1>9. k \div scale = c
  <2>1. Splits(k, scale, c, a) /\ c \in Int
    BY <1>3 DEF Splits
  <2> QED
    BY <2>1, Divided
<1>10. r = d * scale + b /\ r \div scale = d
  <2>1. r = d * scale + b
    BY <1>0, <1>2
  <2>2. Splits(r, scale, d, b) /\ d \in Int
    BY <2>1 DEF Splits
  <2> QED
    BY <2>1, <2>2, Divided
<1>11. o \in 0 .. n * pitch - 1
  <2>1. (n - 1) * pitch >= 0 /\ n * pitch = (n - 1) * pitch + pitch
    BY <1>6
  <2> QED
    BY <1>6, <1>7, <2>1
<1>12. r \in 0 .. (h + 7) * scale - 1
  <2>1. (h + 6 - d) * scale >= 0 /\ (h + 6 - d) * scale = (h + 7) * scale - scale - d * scale
    BY <1>2
  <2>2. PICK u \in Nat, v \in Int, z \in Int :
          u = d * scale /\ v = (h + 7) * scale /\ z = (h + 6 - d) * scale
    BY <1>2
  <2>3. z >= 0 /\ z = v - scale - u /\ r = u + b
    BY <1>10, <2>1, <2>2
  <2> QED
    BY <2>2, <2>3
<1>13. g = <<c, d>>
  BY <1>2
<1> QED
  BY <1>1, <1>6, <1>8, <1>9, <1>10, <1>11, <1>12, <1>13 DEF FoundIn

\* Every place to the right and below is in some cell.
LEMMA CellOf ==
  ASSUME NEW scale \in Nat \ {0}, NEW pitch \in Nat \ {0}, NEW n, NEW g,
         NEW o \in Nat, NEW r \in Nat, FoundIn(pitch, scale, n, g, o, r), n \in Int
  PROVE  \E a, b \in 0 .. scale - 1 : Placed(pitch, scale, n, g, a, b, o, r)
<1>1. PICK q \in Nat, m \in Nat : q = o \div pitch /\ m = o % pitch /\ o = pitch * q + m
  <2>1. o \div pitch \in Nat /\ o % pitch \in Nat /\ o = pitch * (o \div pitch) + (o % pitch)
    OBVIOUS
  <2> QED
    BY <2>1
<1>2. PICK c \in Nat, a \in 0 .. scale - 1 : c = m \div scale /\ a = m % scale /\ m = scale * c + a
  <2>1. /\ m \div scale \in Nat /\ m % scale \in 0 .. scale - 1
        /\ m = scale * (m \div scale) + (m % scale)
    OBVIOUS
  <2> QED
    BY <2>1
<1>3. PICK d \in Nat, b \in 0 .. scale - 1 : d = r \div scale /\ b = r % scale /\ r = scale * d + b
  <2>1. /\ r \div scale \in Nat /\ r % scale \in 0 .. scale - 1
        /\ r = scale * (r \div scale) + (r % scale)
    OBVIOUS
  <2> QED
    BY <2>1
<1>4. q = n - 1 /\ g = <<c, d>>
  BY <1>1, <1>2, <1>3 DEF FoundIn
<1>5. o = (n - 1) * pitch + c * scale + a /\ r = d * scale + b
  <2>1. PICK u \in Int, v \in Int, z \in Int : u = pitch * q /\ v = scale * c /\ z = scale * d
    OBVIOUS
  <2>2. u = (n - 1) * pitch /\ v = c * scale /\ z = d * scale
    BY <1>4, <2>1
  <2>3. o = u + m /\ m = v + a /\ r = z + b
    BY <1>1, <1>2, <1>3, <2>1
  <2>4. o = u + v + a
    BY <2>1, <2>3
  <2> QED
    BY <2>2, <2>3, <2>4
<1>6. Placed(pitch, scale, n, g, a, b, o, r)
  BY <1>4, <1>5 DEF Placed
<1> QED
  BY <1>6

LiesAt(x1, y1, scale, font, n, g, a, b, o, r) ==
  InText(x1, y1, scale, font, n, g, a, b) = <<Screen!U(x1 + o), Screen!U(y1 + r)>>

LEMMA PlacedInText ==
  ASSUME NEW x1 \in Nat, NEW y1 \in Nat, NEW scale \in Nat, NEW font, NEW n \in Int,
         NEW g \in Int \X Int, NEW a \in Int, NEW b \in Int,
         NEW pitch \in Int, pitch = Screen!Advance(font, scale),
         NEW o, NEW r, Placed(pitch, scale, n, g, a, b, o, r)
  PROVE  LiesAt(x1, y1, scale, font, n, g, a, b, o, r)
<1>1. PICK u \in Int, v \in Int, z \in Int :
        u = (n - 1) * pitch /\ v = g[1] * scale /\ z = g[2] * scale
  OBVIOUS
<1>2. o = u + v + a /\ r = z + b
  BY <1>1 DEF Placed
<1>3. x1 + u + v + a = x1 + o /\ y1 + z + b = y1 + r
  BY <1>1, <1>2
<1>4. InText(x1, y1, scale, font, n, g, a, b) = <<Screen!U(x1 + u + v + a), Screen!U(y1 + z + b)>>
  BY <1>1, Zenon DEF InText
<1> QED
  BY <1>3, <1>4, Zenon DEF LiesAt

LEMMA OnlyCoordinates ==
  ASSUME Screen!ScreenAssumption, NEW x0 \in Coordinates, NEW y0 \in Coordinates
  PROVE  /\ WORD \in Nat \ {0} /\ W \in Nat /\ H \in Nat /\ WORD \div 2 \in Nat
         /\ x0 \in Nat /\ y0 \in Nat
         /\ Screen!Signed(x0) \in Int /\ Screen!Signed(y0) \in Int
BY DEF Screen!ScreenAssumption, Coordinates, Screen!Signed

LEMMA OfPair ==
  ASSUME NEW w \in Nat, NEW h \in Nat, NEW p \in (0 .. w - 1) \X (0 .. h - 1)
  PROVE  p = <<p[1], p[2]>> /\ p[1] \in Nat /\ p[1] < w /\ p[2] \in Nat /\ p[2] < h
OBVIOUS

LEMMA TextsReadable ==
  ASSUME Screen!ScreenAssumption, NEW x0 \in Coordinates, NEW y0 \in Coordinates,
         NEW scale \in Nat \ {0}, NEW font, FontTyped(font), NEW s \in Seq(Nat),
         Len(s) * ((font.width + font.gap) * scale) <= WORD \div 2,
         (font.height + 7) * scale <= WORD \div 2
  PROVE  Screen!TextReadable(x0, y0, scale, font, s)
<1>1. /\ WORD \in Nat \ {0} /\ W \in Nat /\ H \in Nat /\ WORD \div 2 \in Nat
      /\ x0 \in Nat /\ y0 \in Nat
      /\ Screen!Signed(x0) \in Int /\ Screen!Signed(y0) \in Int
  BY OnlyCoordinates
<1>2. PICK pitch \in Nat \ {0} :
        pitch = (font.width + font.gap) * scale /\ pitch = Screen!Advance(font, scale)
  <2>1. PICK w \in Nat \ {0}, gap \in Nat : w = font.width /\ gap = font.gap
    BY DEF FontTyped
  <2>2. (w + gap) * scale \in Nat \ {0}
    OBVIOUS
  <2> QED
    BY <2>1, <2>2 DEF Screen!Advance
<1>3. PICK length \in Nat, tall \in Nat :
        length = Len(s) /\ tall = (font.height + 7) * scale
          /\ length * pitch <= WORD \div 2 /\ tall <= WORD \div 2
  BY <1>2 DEF FontTyped
<1> DEFINE shape == Screen!Text(x0, y0, scale, font, s)
           Fits(n, g) == s[n] \in font.first .. font.last /\ g \in Screen!Glyph(font, s[n])
           Dot(n, g, a, b) ==
             n \in 1 .. length /\ Fits(n, g) /\ a \in 0 .. scale - 1 /\ b \in 0 .. scale - 1
           Shown(dx, dy) ==
             /\ dx >= 0 /\ dy >= 0 /\ dx \div pitch < Len(s)
             /\ s[dx \div pitch + 1] \in font.first .. font.last
             /\ <<(dx % pitch) \div scale, dy \div scale>> \in
                  Screen!Glyph(font, s[dx \div pitch + 1])
           Spot(o, r) == <<Screen!U(x0 + o), Screen!U(y0 + r)>>
           Within(o, r) == o \in 0 .. WORD \div 2 /\ r \in 0 .. WORD \div 2
<1>4. ASSUME NEW n, NEW g, NEW a, NEW b, Dot(n, g, a, b),
             NEW o, NEW r, Placed(pitch, scale, n, g, a, b, o, r)
      PROVE  /\ Within(o, r) /\ FoundIn(pitch, scale, n, g, o, r)
             /\ InText(x0, y0, scale, font, n, g, a, b) = Spot(o, r)
  <2>1. n \in Nat \ {0} /\ n <= length /\ a \in 0 .. scale - 1 /\ b \in 0 .. scale - 1
    BY <1>3, <1>4
  <2>2. g \in (0 .. font.width - 1) \X (0 .. font.height + 6)
    BY <1>4, GlyphFacts
  <2>3. /\ o \in 0 .. n * pitch - 1 /\ r \in 0 .. tall - 1
        /\ FoundIn(pitch, scale, n, g, o, r)
    BY <1>2, <1>3, <1>4, <2>1, <2>2, Cell
  <2>4. PICK u \in Nat, v \in Nat, half \in Nat :
          u = n * pitch /\ v = length * pitch /\ half = WORD \div 2
    BY <1>1, <2>1
  <2>5. u <= v
    <3>1. (length - n) * pitch >= 0 /\ (length - n) * pitch = v - u
      BY <2>1, <2>4
    <3> QED
      BY <3>1, <2>4
  <2>6. o \in 0 .. u - 1 /\ v <= half /\ tall <= half
    BY <1>3, <2>3, <2>4, Zenon
  <2>7. Within(o, r)
    BY <2>3, <2>4, <2>5, <2>6
  <2>8. g \in Int \X Int /\ a \in Int /\ b \in Int /\ n \in Int /\ pitch \in Int /\ scale \in Nat
    BY <2>1, <2>2 DEF FontTyped
  <2> HIDE DEF Spot
  <2>9. LiesAt(x0, y0, scale, font, n, g, a, b, o, r)
    BY <1>1, <1>2, <1>4, <2>8, PlacedInText
  <2>10. InText(x0, y0, scale, font, n, g, a, b) = Spot(o, r)
    BY <2>9 DEF LiesAt, Spot
  <2> QED
    BY <2>3, <2>7, <2>10, Zenon
<1>5. \A p : p \in shape <=>
        \E n, g, a, b : Dot(n, g, a, b) /\ p = InText(x0, y0, scale, font, n, g, a, b)
  <2>1. \A n : n \in DOMAIN s <=> n \in 1 .. length
    BY <1>3
  <2> SUFFICES ASSUME NEW p
               PROVE  p \in shape <=>
                 \E n, g, a, b : Dot(n, g, a, b) /\ p = InText(x0, y0, scale, font, n, g, a, b)
    OBVIOUS
  <2>2. HasDots(shape, x0, y0, scale, font, s, p)
    BY TextPixels
  <2> HIDE DEF shape
  <2>3. ASSUME p \in shape
        PROVE  \E n, g, a, b : Dot(n, g, a, b) /\ p = InText(x0, y0, scale, font, n, g, a, b)
    <3>1. PICK n \in DOMAIN s :
            /\ s[n] \in font.first .. font.last
            /\ \E g \in Screen!Glyph(font, s[n]) :
                 \E a \in 0 .. scale - 1, b \in 0 .. scale - 1 :
                   p = InText(x0, y0, scale, font, n, g, a, b)
      BY <2>2, <2>3, Zenon DEF HasDots
    <3>2. PICK g \in Screen!Glyph(font, s[n]), a \in 0 .. scale - 1, b \in 0 .. scale - 1 :
            p = InText(x0, y0, scale, font, n, g, a, b)
      BY <3>1
    <3>3. Dot(n, g, a, b)
      BY <2>1, <3>1
    <3> QED
      BY <3>2, <3>3
  <2>4. ASSUME NEW n, NEW g, NEW a, NEW b, Dot(n, g, a, b),
               p = InText(x0, y0, scale, font, n, g, a, b)
        PROVE  p \in shape
    BY <2>1, <2>2, <2>4, Zenon DEF HasDots
  <2> QED
    BY <2>3, <2>4
<1>6. ASSUME NEW n, NEW g, NEW a, NEW b, Dot(n, g, a, b)
      PROVE  \E o, r : Placed(pitch, scale, n, g, a, b, o, r)
  BY DEF Placed
<1> HIDE DEF shape, Dot, Within, Spot
<1>7. ASSUME NEW p
      PROVE  p \in shape <=>
               \E n, g, a, b, o, r : /\ Dot(n, g, a, b) /\ Placed(pitch, scale, n, g, a, b, o, r)
                                     /\ p = Spot(o, r)
  <2>1. ASSUME p \in shape
        PROVE  \E n, g, a, b, o, r : /\ Dot(n, g, a, b) /\ Placed(pitch, scale, n, g, a, b, o, r)
                                     /\ p = Spot(o, r)
    <3>1. PICK n, g, a, b : Dot(n, g, a, b) /\ p = InText(x0, y0, scale, font, n, g, a, b)
      BY <1>5, <2>1, Zenon
    <3>2. PICK o, r : Placed(pitch, scale, n, g, a, b, o, r)
      BY <1>6, <3>1, Zenon
    <3>3. p = Spot(o, r)
      BY <1>4, <3>1, <3>2
    <3> QED
      BY <3>1, <3>2, <3>3, Zenon
  <2>2. ASSUME NEW n, NEW g, NEW a, NEW b, NEW o, NEW r,
               Dot(n, g, a, b), Placed(pitch, scale, n, g, a, b, o, r),
               p = Spot(o, r)
        PROVE  p \in shape
    <3>1. p = InText(x0, y0, scale, font, n, g, a, b)
      BY <1>4, <2>2
    <3> QED
      BY <1>5, <2>2, <3>1, Zenon
  <2> QED
    BY <2>1, <2>2, Zenon
<1>8. shape \in SUBSET Dots
  <2>1. ASSUME NEW o, NEW r, Within(o, r) PROVE Spot(o, r) \in Dots
    BY <1>1, <2>1 DEF Screen!U, Within, Dots, Spot
  <2>2. \A p \in shape : \E o, r : Within(o, r) /\ p = Spot(o, r)
    BY <1>4, <1>7
  <2> QED
    BY <2>1, <2>2
<1>9. ASSUME NEW p \in Screen!Screen,
             NEW dx, dx = p[1] - Screen!Signed(x0), NEW dy, dy = p[2] - Screen!Signed(y0)
      PROVE  p \in shape <=> Shown(dx, dy)
  <2>0. p = <<p[1], p[2]>> /\ p[1] \in Nat /\ p[1] < W /\ p[2] \in Nat /\ p[2] < H
    <3>1. p \in (0 .. W - 1) \X (0 .. H - 1)
      BY Zenon DEF Screen!Screen
    <3> QED
      BY <1>1, <3>1, OfPair
  <2>a. PICK k \in Int, m \in Int : k = p[1] /\ m = p[2]
    BY <2>0
  <2>b. PICK u \in Int, v \in Int : u = Screen!Signed(x0) /\ v = Screen!Signed(y0)
    BY <1>1
  <2>c. dx = k - u /\ dy = m - v
    BY <1>9, <2>a, <2>b
  <2>1. /\ p = <<p[1], p[2]>> /\ p[1] \in Nat /\ p[1] < W /\ p[2] \in Nat /\ p[2] < H
        /\ dx \in Int /\ dy \in Int
    <3>1. dx \in Int /\ dy \in Int
      BY <2>c
    <3> QED
      BY <2>0, <3>1, Zenon
  <2>2. ASSUME NEW o, NEW r, Within(o, r)
        PROVE  p = Spot(o, r) <=> o = dx /\ r = dy
    <3>1. Screen!U(x0 + o) = p[1] <=> o = dx
      BY <1>9, <2>1, <2>2, Wraps DEF Within
    <3>2. Screen!U(y0 + r) = p[2] <=> r = dy
      BY <1>9, <2>1, <2>2, Wraps DEF Within
    <3> QED
      BY <2>1, <3>1, <3>2 DEF Spot
  <2>3. ASSUME p \in shape PROVE Shown(dx, dy)
    <3>1. PICK n, g, a, b, o, r :
            /\ Dot(n, g, a, b) /\ Placed(pitch, scale, n, g, a, b, o, r)
            /\ p = Spot(o, r)
      BY <1>7, <2>3, Zenon
    <3>2. Within(o, r) /\ FoundIn(pitch, scale, n, g, o, r)
      BY <1>4, <3>1, Zenon
    <3>3. o = dx /\ r = dy
      BY <2>2, <3>1, <3>2, Zenon
    <3>4. dx \div pitch = n - 1 /\ <<(dx % pitch) \div scale, dy \div scale>> = g
      BY <3>2, <3>3 DEF FoundIn
    <3>5. PICK q \in Int : q = dx \div pitch
      BY <2>1
    <3>6. n \in 1 .. length /\ s[n] \in font.first .. font.last /\ g \in Screen!Glyph(font, s[n])
      BY <3>1, Zenon DEF Dot
    <3>7. dx \div pitch + 1 = n /\ dx \div pitch < Len(s)
      BY <1>3, <3>4, <3>5, <3>6
    <3>8. dx >= 0 /\ dy >= 0
      BY <1>1, <3>2, <3>3 DEF Within
    <3> QED
      BY <3>4, <3>6, <3>7, <3>8, Zenon
  <2>4. ASSUME Shown(dx, dy) PROVE p \in shape
    <3>1. dx >= 0 /\ dy >= 0 /\ dx \div pitch < Len(s)
      BY <2>4, Zenon
    <3>2. dx \in Nat /\ dy \in Nat
      BY <2>1, <3>1
    <3>3. PICK n \in 1 .. length : n = dx \div pitch + 1 /\ dx \div pitch = n - 1
      <4>1. dx \div pitch \in Nat
        BY <3>2
      <4> QED
        BY <1>3, <3>1, <4>1
    <3>4. PICK g : g = <<(dx % pitch) \div scale, dy \div scale>>
      OBVIOUS
    <3>5. Fits(n, g)
      BY <2>4, <3>3, <3>4, Zenon
    <3>6. FoundIn(pitch, scale, n, g, dx, dy)
      BY <3>3, <3>4, Zenon DEF FoundIn
    <3>7. PICK a \in 0 .. scale - 1, b \in 0 .. scale - 1 : Placed(pitch, scale, n, g, a, b, dx, dy)
      BY <3>2, <3>6, CellOf
    <3>8. Dot(n, g, a, b)
      BY <3>5, Zenon DEF Dot
    <3>9. Within(dx, dy)
      BY <1>4, <3>7, <3>8, Zenon
    <3>10. p = Spot(dx, dy)
      BY <2>2, <3>9, Zenon
    <3> QED
      BY <1>7, <3>7, <3>8, <3>10, Zenon
  <2> QED
    BY <2>3, <2>4
<1>10. Screen!Lit(Screen!DrawPixels(Screen!Blank, shape)) = shape \cap Screen!Screen
  BY <1>8, BlankFacts, DrawnLit
<1>11. Screen!TextReadable(x0, y0, scale, font, s) <=>
         shape \cap Screen!Screen =
           {p \in Screen!Screen : Shown(p[1] - Screen!Signed(x0), p[2] - Screen!Signed(y0))}
  BY <1>2, <1>10, Zenon DEF Screen!TextReadable, shape
<1> HIDE DEF Shown
<1> QED
  BY <1>9, <1>11, Zenon
-----------------------------------------------------------------------------
(* The form of the page: what a browser sends, and what is read of it.     *)

\* The SMT solver reads no string of a space or of an underline alone.
Blank == " "
Stroke == "_"

\* The strings, and by name those that are sent: no prover knows a literal to be one.
Letters ==
  STRING \cup Marks
  \cup {"a", "c", "d", "e", "f", "i", "l", "m", "n", "o", "r", "s", "t", "u", "v", "_"}
  \cup {"G", "E", "T", "H", "P", "R", "/", "?", ".", ":"}
  \cup {Form!Digit(d) : d \in 0 .. 9}

LEMMA LeastOf ==
  ASSUME NEW S \in SUBSET Int, NEW m \in S, \A e \in S : m <= e
  PROVE  Form!Min(S) = m
<1> DEFINE P(e) == e \in S /\ \A f \in S : e <= f
<1>1. ASSUME NEW e, P(e) PROVE e = m
  <2>1. e \in Int /\ m \in Int /\ e <= m /\ m <= e
    BY <1>1
  <2> QED
    BY <2>1
<1>2. P(m)
  OBVIOUS
<1>3. Form!Min(S) = CHOOSE e : P(e)
  BY DEF Form!Min
<1> HIDE DEF P
<1> QED
  BY <1>1, <1>2, <1>3

\* UpTo takes what lies before the first letter to stop at, or all there is.
LEMMA CutAt ==
  ASSUME NEW t, Len(t) \in Nat, NEW from \in Nat \ {0}, NEW to \in Nat, NEW stop,
         from <= to, to <= Len(t) + 1, to <= Len(t) => t[to] \in stop,
         \A k \in from .. to - 1 : t[k] \notin stop
  PROVE  Form!UpTo(t, from, stop) = SubSeq(t, from, to - 1)
<1> DEFINE S == {k \in from .. Len(t) : t[k] \in stop} \cup {Len(t) + 1}
<1>1. to \in S /\ S \in SUBSET Int /\ \A e \in S : to <= e
  OBVIOUS
<1>2. Form!UpTo(t, from, stop) = SubSeq(t, from, Form!Min(S) - 1)
  BY DEF Form!UpTo
<1> HIDE DEF S
<1>3. Form!Min(S) = to
  BY <1>1, LeastOf
<1> QED
  BY <1>2, <1>3

\* The lesser of two numbers.
LEMMA LesserOf ==
  ASSUME NEW a \in Int, NEW b \in Int
  PROVE  Form!Min({a, b}) = IF a <= b THEN a ELSE b
<1>1. CASE a <= b
  <2>1. \A e \in {a, b} : a <= e
    BY <1>1
  <2> QED
    BY <1>1, <2>1, LeastOf
<1>2. CASE ~(a <= b)
  <2>1. \A e \in {a, b} : b <= e
    BY <1>2
  <2> QED
    BY <1>2, <2>1, LeastOf
<1> QED
  BY <1>1, <1>2

LEMMA SameLetters ==
  ASSUME NEW u \in Seq(Letters), NEW v \in Seq(Letters), Len(u) = Len(v),
         \A k \in 1 .. Len(u) : u[k] = v[k]
  PROVE  u = v
OBVIOUS

\* The letters of a part of a text.
PartOf(u, t, lo, n) ==
  u \in Seq(Letters) /\ Len(u) = n /\ \A k \in 1 .. n : u[k] = t[lo + k]

LEMMA PartIs ==
  ASSUME NEW t \in Seq(Letters), NEW lo \in Nat, NEW n \in Nat, lo + n <= Len(t)
  PROVE  PartOf(SubSeq(t, lo + 1, lo + n), t, lo, n)
BY DEF PartOf

LEMMA CopyIs ==
  ASSUME NEW t \in Seq(Letters), NEW size \in Nat \ {0}
  PROVE  PartOf(Form!Copied(t, size), t, 0, IF Len(t) < size THEN Len(t) ELSE size - 1)
<1> DEFINE n == IF Len(t) < size THEN Len(t) ELSE size - 1
<1>1. Len(t) \in Nat /\ n \in Nat /\ n <= Len(t)
  OBVIOUS
<1>2. Form!Min({Len(t), size - 1}) = n
  <2>1. PICK a \in Int, b \in Int : a = Len(t) /\ b = size - 1
    BY <1>1
  <2>2. Form!Min({a, b}) = IF a <= b THEN a ELSE b
    BY LesserOf
  <2> QED
    BY <2>1, <2>2
<1>3. Form!Copied(t, size) = SubSeq(t, 1, n)
  BY <1>2, Zenon DEF Form!Copied
<1> HIDE DEF n
<1>4. 0 + 1 = 1 /\ 0 + n = n
  BY <1>1
<1>5. PartOf(SubSeq(t, 0 + 1, 0 + n), t, 0, n)
  BY <1>1, <1>4, PartIs
<1> QED
  BY <1>3, <1>4, <1>5, Zenon DEF n

\* A key stands behind the letter at p.
StandsAt(line, key, p) == \A k \in 1 .. Len(key) : line[p + k] = key[k]

\* A place at which strstr finds a key of w letters.
LEMMA HitIs ==
  ASSUME NEW line \in Seq(Letters), NEW key \in Seq(Letters), NEW w \in Nat, w = Len(key),
         NEW spot \in 1 .. Len(line) - w + 1
  PROVE  SubSeq(line, spot, spot + Len(key) - 1) = key <=> StandsAt(line, key, spot - 1)
<1> PICK p \in Nat : p = spot - 1 /\ p + w <= Len(line)
  OBVIOUS
<1> DEFINE u == SubSeq(line, p + 1, p + w)
<1>1. PartOf(u, line, p, w)
  BY PartIs
<1>2. SubSeq(line, spot, spot + Len(key) - 1) = u
  <2>1. spot = p + 1 /\ spot + Len(key) - 1 = p + w
    OBVIOUS
  <2> QED
    BY <2>1, Zenon
<1> HIDE DEF u
<1>3. u = key <=> StandsAt(line, key, p)
  <2>1. ASSUME u = key PROVE StandsAt(line, key, p)
    BY <1>1, <2>1 DEF PartOf, StandsAt
  <2>2. ASSUME StandsAt(line, key, p) PROVE u = key
    BY <1>1, <2>2, SameLetters DEF PartOf, StandsAt
  <2> QED
    BY <2>1, <2>2
<1> QED
  BY <1>2, <1>3, Zenon

\* Of the letters behind p, a key of w of them and then those of a field up to q,
\* where a field or the line ends; and the last two letters of the key stand
\* together nowhere before.
Found(line, key, w, p, q) ==
  /\ p + w <= q /\ q <= Len(line)
  /\ StandsAt(line, key, p)
  /\ q < Len(line) => line[q + 1] \in Form!EndsField
  /\ \A k \in p + w + 1 .. q : line[k] \notin Form!EndsField
  /\ \A k \in w .. p + w - 1 : line[k] # "=" \/ line[k - 1] # key[w - 1]

\* A key of some letters that ends in the sign of equality.
IsKey(key, w) ==
  key \in Seq(Letters) /\ w = Len(key) /\ w >= 2 /\ key[w] = "="

\* The field of a key is what lies between it and the end.
LEMMA FieldAt ==
  ASSUME NEW line \in Seq(Letters), NEW key, NEW w \in Nat, IsKey(key, w),
         NEW size \in Nat \ {0}, NEW p \in Nat, NEW q \in Nat, Found(line, key, w, p, q)
  PROVE  PartOf(Form!ParseParam(line, key, size), line, p + w,
                IF q - p - w < size THEN q - p - w ELSE size - 1)
<1> DEFINE hits == {spot \in 1 .. Len(line) - Len(key) + 1 :
                      SubSeq(line, spot, spot + Len(key) - 1) = key}
           field == Form!UpTo(line, Form!Min(hits) + Len(key), Form!EndsField)
<1>0. /\ key \in Seq(Letters) /\ w = Len(key) /\ w \in 1 .. w /\ w - 1 \in 1 .. w
      /\ key[w] = "="
  BY DEF IsKey
<1>n. PICK n \in Nat, lo \in Nat, all \in Nat :
        lo = p + w /\ n = q - p - w /\ all = Len(line) /\ lo + n = q /\ q <= all
  <2>1. Len(line) \in Nat /\ p + w <= q /\ q <= Len(line)
    BY DEF Found
  <2>2. PICK all \in Nat : all = Len(line)
    BY <2>1
  <2>3. PICK lo \in Nat : lo = p + w
    BY ONLY p \in Nat, w \in Nat
  <2>4. q - p - w \in Nat /\ lo + (q - p - w) = q
    BY ONLY <2>1, <2>3, p \in Nat, w \in Nat, q \in Nat
  <2> QED
    BY <2>1, <2>2, <2>3, <2>4
<1>a. /\ StandsAt(line, key, p)
      /\ q < Len(line) => line[q + 1] \in Form!EndsField
      /\ \A k \in p + w + 1 .. q : line[k] \notin Form!EndsField
  BY DEF Found
<1>b. \A k \in w .. p + w - 1 : line[k] # "=" \/ line[k - 1] # key[w - 1]
  BY DEF Found
<1>1. Form!ParseParam(line, key, size) = IF hits = {} THEN <<>> ELSE Form!Copied(field, size)
  BY DEF Form!ParseParam
<1>2. p + 1 \in hits
  <2>1. p + 1 \in 1 .. all - w + 1 /\ p + 1 - 1 = p
    BY ONLY <1>n, p \in Nat, w \in Nat, n \in Nat, lo \in Nat, all \in Nat
  <2>2. PICK spot \in 1 .. Len(line) - w + 1 : spot = p + 1 /\ spot - 1 = p
    BY <1>n, <2>1
  <2>3. SubSeq(line, spot, spot + Len(key) - 1) = key <=> StandsAt(line, key, spot - 1)
    BY <1>0, HitIs
  <2> QED
    BY <1>0, <1>a, <2>2, <2>3
<1>3. ASSUME NEW spot \in hits PROVE spot \in Int /\ p + 1 <= spot
  <2>1. spot \in 1 .. Len(line) - Len(key) + 1 /\ SubSeq(line, spot, spot + Len(key) - 1) = key
    BY Zenon
  <2>2. spot \in 1 .. Len(line) - w + 1
    BY <1>0, <2>1, Zenon
  <2>3. StandsAt(line, key, spot - 1)
    BY <1>0, <2>1, <2>2, HitIs
  <2>4. line[spot - 1 + w] = "=" /\ line[spot - 1 + (w - 1)] = key[w - 1]
    BY <1>0, <2>3, Zenon DEF StandsAt
  <2>5. PICK j \in Nat : j = spot /\ j >= 1
    BY ONLY <1>n, <2>2, w \in Nat, all \in Nat
  <2>6. SUFFICES ASSUME j <= p PROVE FALSE
    BY <2>5
  <2>7. j - 1 + w \in w .. p + w - 1 /\ j - 1 + w - 1 = j - 1 + (w - 1)
    BY ONLY <2>5, <2>6, j \in Nat, p \in Nat, w \in Nat
  <2>8. PICK k \in Int : k = j - 1 + w /\ k - 1 = j - 1 + w - 1 /\ k \in w .. p + w - 1
    BY ONLY <2>7, j \in Nat, w \in Nat
  <2>9. line[k] = "=" /\ line[k - 1] = key[w - 1]
    BY <2>4, <2>5, <2>7, <2>8, Zenon
  <2> QED
    BY <1>b, <2>8, <2>9, Zenon
<1>4. Form!Min(hits) = p + 1
  <2>1. hits \in SUBSET Int
    BY <1>3
  <2>2. \A spot \in hits : p + 1 <= spot
    BY <1>3
  <2> HIDE DEF hits
  <2> QED
    BY <1>2, <2>1, <2>2, LeastOf
<1>5. field = SubSeq(line, lo + 1, lo + n)
  <2>1. PICK from \in Nat \ {0}, to \in Nat :
          /\ from = lo + 1 /\ to = q + 1 /\ from <= to /\ to <= all + 1
          /\ from = p + w + 1 /\ p + 1 + w = from /\ to - 1 = lo + n /\ to - 1 = q
          /\ to <= all => q < all
    BY ONLY <1>n, p \in Nat, w \in Nat, q \in Nat, lo \in Nat, n \in Nat, all \in Nat
  <2>2. to <= Len(line) => line[to] \in Form!EndsField
    BY <1>n, <1>a, <2>1, Zenon
  <2>3. \A k \in from .. to - 1 : line[k] \notin Form!EndsField
    BY <1>a, <2>1, Zenon
  <2>4. from <= to /\ to <= Len(line) + 1 /\ Len(line) \in Nat
    BY <1>n, <2>1
  <2>5. Form!UpTo(line, from, Form!EndsField) = SubSeq(line, from, to - 1)
    BY <2>2, <2>3, <2>4, CutAt
  <2> HIDE DEF hits
  <2> QED
    BY <1>0, <1>4, <2>1, <2>5
<1>6. PartOf(field, line, lo, n)
  <2> HIDE DEF field
  <2> QED
    BY <1>5, <1>n, PartIs
<1>7. hits # {}
  BY <1>2
<1> HIDE DEF field, hits
<1>8. PartOf(Form!Copied(field, size), field, 0,
             IF Len(field) < size THEN Len(field) ELSE size - 1)
  BY <1>6, CopyIs DEF PartOf
<1>9. PartOf(Form!Copied(field, size), line, lo, IF n < size THEN n ELSE size - 1)
  <2>1. ASSUME NEW v, PartOf(v, field, 0, IF n < size THEN n ELSE size - 1)
        PROVE  PartOf(v, line, lo, IF n < size THEN n ELSE size - 1)
    BY <1>6, <2>1 DEF PartOf
  <2>2. Len(field) = n
    BY <1>6 DEF PartOf
  <2> QED
    BY <1>8, <2>1, <2>2
<1> QED
  BY <1>1, <1>7, <1>9, <1>n, Zenon

\* A key that is not whole on the line gives no field.
LEMMA NoField ==
  ASSUME NEW line \in Seq(Letters), NEW key, NEW w \in Nat, IsKey(key, w), NEW size,
         \A k \in w .. Len(line) : line[k] # "=" \/ line[k - 1] # key[w - 1]
  PROVE  Form!ParseParam(line, key, size) = <<>>
<1> DEFINE hits == {spot \in 1 .. Len(line) - Len(key) + 1 :
                      SubSeq(line, spot, spot + Len(key) - 1) = key}
<1>0. /\ key \in Seq(Letters) /\ w = Len(key) /\ w \in 1 .. w /\ w - 1 \in 1 .. w
      /\ key[w] = "="
  BY DEF IsKey
<1>n. PICK all \in Nat : all = Len(line)
  OBVIOUS
<1>1. ASSUME NEW spot \in hits PROVE FALSE
  <2>1. spot \in 1 .. Len(line) - Len(key) + 1 /\ SubSeq(line, spot, spot + Len(key) - 1) = key
    BY Zenon
  <2>2. spot \in 1 .. Len(line) - w + 1
    BY <1>0, <2>1, Zenon
  <2>3. StandsAt(line, key, spot - 1)
    BY <1>0, <2>1, <2>2, HitIs
  <2>4. line[spot - 1 + w] = "=" /\ line[spot - 1 + (w - 1)] = key[w - 1]
    BY <1>0, <2>3, Zenon DEF StandsAt
  <2>5. PICK j \in Nat : j = spot /\ j >= 1 /\ j <= all - w + 1
    BY ONLY <1>n, <2>2, w \in Nat, all \in Nat
  <2>6. j - 1 + w \in w .. all /\ j - 1 + w - 1 = j - 1 + (w - 1)
    BY ONLY <2>5, j \in Nat, all \in Nat, w \in Nat
  <2>7. PICK k \in Int : k = j - 1 + w /\ k - 1 = j - 1 + w - 1 /\ k \in w .. all
    BY ONLY <2>6, j \in Nat, w \in Nat
  <2>8. line[k] = "=" /\ line[k - 1] = key[w - 1]
    BY <2>4, <2>5, <2>6, <2>7, Zenon
  <2> QED
    BY <1>n, <2>7, <2>8, Zenon
<1>2. hits = {}
  BY <1>1
<1> QED
  BY <1>2, Zenon DEF Form!ParseParam

\* A text of that many letters.
Text(u, n) == u \in Seq(Letters) /\ n = Len(u)

\* A text of n letters stands behind the letter of t at p.
At(t, u, n, p) == Text(u, n) /\ n \in Nat /\ p \in Nat /\ \A k \in 1 .. n : t[p + k] = u[k]

\* A text stands in t where it stands in a part of t.
LEMMA InPart ==
  ASSUME NEW t, NEW u, NEW m, NEW p, At(t, u, m, p), NEW v, NEW n, NEW q, At(u, v, n, q),
         NEW o, o = p + q, q + n <= m
  PROVE  At(t, v, n, o)
<1> USE DEF At
<1>1. SUFFICES ASSUME NEW k \in 1 .. n PROVE t[p + q + k] = v[k]
  OBVIOUS
<1>2. PICK j \in 1 .. m : j = q + k /\ p + j = p + q + k
  OBVIOUS
<1>3. t[p + j] = u[j] /\ u[q + k] = v[k]
  OBVIOUS
<1> QED
  BY <1>2, <1>3

Join(c, a, m, b, n, l) == Text(c, l) /\ l \in Nat /\ At(c, a, m, 0) /\ At(c, b, n, m)

LEMMA JoinedAt ==
  ASSUME NEW a, NEW m \in Nat, Text(a, m), NEW b, NEW n \in Nat, Text(b, n), NEW l, l = m + n
  PROVE  Join(a \o b, a, m, b, n, l)
BY DEF Join, At, Text

\* Letters that neither end a line nor are the sign of equality, up to that of a key.
Tidy(w, n) == \A k \in 1 .. n : w[k] \notin Form!EndsLine /\ w[k] # "="

\* The letters before the first field's value, and those behind the second's.
Verb == <<"G", "E", "T", Blank, "/", "?">>
Version == <<Blank, "H", "T", "T", "P", "/", "1", ".", "1", "CR", "LF">>
Referer == <<"R", "e", "f", "e", "r", "e", "r", ":", "/", "?">>

\* A request: the floor, and two fields F and G of h and y letters behind keys K
\* and M of a and b of them; the second key stands at e, the version at z.
Laid(t, digit, K, a, F, h, M, b, G, y, e, z) ==
  /\ \E n \in Nat : Text(t, n) /\ n >= z + 10
  /\ e = 15 + a + h /\ z = e + b + y
  /\ At(t, Verb, 6, 0) /\ At(t, Form!FloorKey, 6, 6) /\ t[13] = digit
  /\ t[14] = "&" /\ At(t, K, a, 14) /\ At(t, F, h, 14 + a)
  /\ t[e] = "&" /\ At(t, M, b, e) /\ At(t, G, y, e + b)
  /\ At(t, Version, 11, z)

\* Of a field: its key's letters, and its own.
Field(K, a, F, h) ==
  /\ IsKey(K, a) /\ Tidy(K, a - 1) /\ K[a] \notin Form!EndsLine
  /\ Text(F, h) /\ \A k \in 1 .. h : F[k] \notin Marks

\* What stands for a field in a request.
Piece(K, F) == <<"&">> \o K \o F

LEMMA SentLaid ==
  ASSUME NEW K, NEW a \in Nat, NEW F, NEW h \in Nat, Field(K, a, F, h)
  PROVE  /\ Text(Piece(K, F), 1 + a + h) /\ Piece(K, F)[1] = "&"
         /\ At(Piece(K, F), K, a, 1) /\ At(Piece(K, F), F, h, 1 + a)
<1> DEFINE one == <<"&">>
           u == one \o K
           v == u \o F
<1>1. Text(K, a) /\ Text(F, h)
  BY DEF Field, IsKey, Text
<1>2. Text(one, 1) /\ one[1] = "&"
  <2>1. "&" \in Letters
    BY Zenon DEF Letters, Marks, Form!EndsField
  <2> QED
    BY <2>1 DEF Text
<1> HIDE DEF one
<1>3. Join(u, one, 1, K, a, 1 + a)
  BY <1>1, <1>2, JoinedAt
<1> HIDE DEF u
<1>4. Text(u, 1 + a)
  BY <1>3 DEF Join
<1>5. Join(v, u, 1 + a, F, h, 1 + a + h)
  BY <1>1, <1>4, JoinedAt
<1>6. v = Piece(K, F)
  BY Zenon DEF Piece, u, one
<1> HIDE DEF v
<1>7. At(v, u, 1 + a, 0) /\ At(u, one, 1, 0) /\ At(u, K, a, 1)
  BY <1>3, <1>5, Zenon DEF Join
<1>8. At(v, K, a, 1)
  BY ONLY <1>7, InPart, a \in Nat
<1>9. At(v, one, 1, 0)
  BY ONLY <1>7, InPart, a \in Nat
<1>10. v[1] = "&"
  <2>1. v[0 + 1] = one[1]
    BY ONLY <1>9 DEF At
  <2> QED
    BY <1>2, <2>1
<1> QED
  BY <1>5, <1>6, <1>8, <1>10 DEF Join

LEMMA FixedLetters ==
  /\ Text(Verb, 6) /\ Text(Form!FloorKey, 6) /\ Text(Version, 11) /\ Text(Referer, 10)
<1>1. /\ "G" \in Letters /\ "E" \in Letters /\ "T" \in Letters /\ "/" \in Letters /\ "?" \in Letters
      /\ "f" \in Letters /\ "l" \in Letters /\ "o" \in Letters /\ "r" \in Letters /\ "=" \in Letters
      /\ "H" \in Letters /\ "P" \in Letters /\ "." \in Letters
      /\ "CR" \in Letters /\ "LF" \in Letters /\ "R" \in Letters /\ "e" \in Letters
      /\ ":" \in Letters /\ Blank \in Letters
  BY Zenon DEF Letters, Marks, Form!EndsLine, Form!EndsField, Blank
<1>2. "1" \in Letters
  <2>1. Form!Digit(1) = "1" /\ 1 \in 0 .. 9
    BY DEF Form!Digit
  <2> QED
    BY <2>1, Zenon DEF Letters
<1> HIDE DEF Letters
<1>3. Text(Verb, 6)
  BY <1>1 DEF Verb, Text
<1>4. Text(Form!FloorKey, 6)
  BY <1>1 DEF Form!FloorKey, Text
<1>5. Text(Version, 11)
  BY <1>1, <1>2 DEF Version, Text
<1>6. Text(Referer, 10)
  BY <1>1 DEF Referer, Text
<1> QED
  BY <1>3, <1>4, <1>5, <1>6

\* The request with two fields, as the browser puts it together.
Whole(digit, K, F, M, G) ==
  Verb \o Form!FloorKey \o <<digit>> \o (Piece(K, F) \o Piece(M, G)) \o Version
  \o Referer \o Form!FloorKey \o <<Form!Digit(0), "CR", "LF">>

LEMMA WholeLaid ==
  ASSUME NEW d \in 0 .. 9, NEW K, NEW a \in Nat, NEW F, NEW h \in Nat, Field(K, a, F, h),
         NEW M, NEW b \in Nat, NEW G, NEW y \in Nat, Field(M, b, G, y),
         NEW e \in Nat, NEW z \in Nat, e = 15 + a + h, z = e + b + y
  PROVE  Laid(Whole(Form!Digit(d), K, F, M, G), Form!Digit(d), K, a, F, h, M, b, G, y, e, z)
<1> DEFINE digit == <<Form!Digit(d)>>
           last == <<Form!Digit(0), "CR", "LF">>
           one == Piece(K, F)
           two == Piece(M, G)
           middle == one \o two
           t1 == Verb \o Form!FloorKey
           t2 == t1 \o digit
           t3 == t2 \o middle
           t4 == t3 \o Version
           t5 == t4 \o Referer
           t6 == t5 \o Form!FloorKey
           t == t6 \o last
<1>1. t = Whole(Form!Digit(d), K, F, M, G)
  BY Zenon DEF Whole
<1>2. Text(digit, 1) /\ digit[1] = Form!Digit(d) /\ Text(last, 3)
  <2>1. "CR" \in Letters /\ "LF" \in Letters
    BY Zenon DEF Letters, Marks, Form!EndsLine
  <2>2. Form!Digit(d) \in Letters /\ Form!Digit(0) \in Letters
    <3>1. 0 \in 0 .. 9
      OBVIOUS
    <3> QED
      BY <3>1, Zenon DEF Letters
  <2> HIDE DEF Letters
  <2> QED
    BY <2>1, <2>2 DEF Text
<1> HIDE DEF digit, last
<1>3. PICK c1 \in Nat, c2 \in Nat, c \in Nat :
        /\ c1 = 1 + a + h /\ c2 = 1 + b + y /\ c = c1 + c2 /\ z = 13 + c /\ e - 1 = 13 + c1
  OBVIOUS
<1>a. PICK z4 \in Nat, z5 \in Nat, z6 \in Nat, z7 \in Nat :
        z4 = z + 11 /\ z5 = z4 + 10 /\ z6 = z5 + 6 /\ z7 = z6 + 3 /\ z7 >= z + 10
  <2>1. z + 11 \in Nat /\ z + 21 \in Nat /\ z + 27 \in Nat /\ z + 30 \in Nat
    OBVIOUS
  <2> QED
    BY <2>1
<1>b. /\ Text(one, c1) /\ one[1] = "&" /\ At(one, K, a, 1) /\ At(one, F, h, 1 + a)
      /\ Text(two, c2) /\ two[1] = "&" /\ At(two, M, b, 1) /\ At(two, G, y, 1 + b)
  BY <1>3, SentLaid
<1> HIDE DEF one, two
<1>4. Join(middle, one, c1, two, c2, c)
  BY <1>3, <1>b, JoinedAt
<1> HIDE DEF middle
<1>5. Join(t1, Verb, 6, Form!FloorKey, 6, 12)
  BY FixedLetters, JoinedAt
<1> HIDE DEF t1
<1>6. Join(t2, t1, 12, digit, 1, 13)
  BY <1>2, <1>5, JoinedAt DEF Join
<1> HIDE DEF t2
<1>7. Join(t3, t2, 13, middle, c, z)
  BY <1>3, <1>4, <1>6, JoinedAt DEF Join
<1> HIDE DEF t3
<1>8. Join(t4, t3, z, Version, 11, z4)
  BY <1>a, <1>7, FixedLetters, JoinedAt DEF Join
<1> HIDE DEF t4
<1>9. Join(t5, t4, z4, Referer, 10, z5)
  BY <1>a, <1>8, FixedLetters, JoinedAt DEF Join
<1> HIDE DEF t5
<1>10. Join(t6, t5, z5, Form!FloorKey, 6, z6)
  BY <1>a, <1>9, FixedLetters, JoinedAt DEF Join
<1> HIDE DEF t6
<1>11. Join(t, t6, z6, last, 3, z7)
  BY <1>a, <1>2, <1>10, JoinedAt DEF Join
<1> HIDE DEF t
<1>c. /\ At(t, t6, z6, 0) /\ At(t6, t5, z5, 0) /\ At(t5, t4, z4, 0) /\ At(t4, t3, z, 0)
      /\ At(t4, Version, 11, z) /\ At(t3, t2, 13, 0) /\ At(t3, middle, c, 13)
      /\ At(t2, t1, 12, 0) /\ At(t2, digit, 1, 12)
      /\ At(t1, Verb, 6, 0) /\ At(t1, Form!FloorKey, 6, 6)
      /\ At(middle, one, c1, 0) /\ At(middle, two, c2, c1)
  BY <1>4, <1>5, <1>6, <1>7, <1>8, <1>9, <1>10, <1>11, Zenon DEF Join
<1>12. At(t, t5, z5, 0)
  BY ONLY <1>a, <1>c, InPart
<1>13. At(t, t4, z4, 0)
  BY ONLY <1>a, <1>c, <1>12, InPart
<1>14. At(t, t3, z, 0) /\ At(t, Version, 11, z)
  BY ONLY <1>a, <1>c, <1>13, InPart, z \in Nat
<1>15. At(t, t2, 13, 0) /\ At(t, middle, c, 13)
  BY ONLY <1>3, <1>c, <1>14, InPart, z \in Nat
<1>16. At(t, t1, 12, 0) /\ At(t, digit, 1, 12)
  BY ONLY <1>c, <1>15, InPart
<1>17. At(t, Verb, 6, 0) /\ At(t, Form!FloorKey, 6, 6)
  BY ONLY <1>c, <1>16, InPart
<1>18. At(t, one, c1, 13) /\ At(t, two, c2, e - 1)
  BY ONLY <1>3, <1>c, <1>15, InPart, e \in Nat
<1>19. At(t, K, a, 14) /\ At(t, F, h, 14 + a)
  BY ONLY <1>3, <1>b, <1>18, InPart, a \in Nat, h \in Nat
<1>d. At(t, M, b, e) /\ At(t, G, y, e + b)
  BY ONLY <1>3, <1>b, <1>18, InPart, b \in Nat, y \in Nat, e \in Nat
<1>e. t[13] = Form!Digit(d) /\ t[14] = "&" /\ t[e] = "&"
  <2>1. t[12 + 1] = digit[1]
    BY ONLY <1>16 DEF At
  <2>2. t[13 + 1] = one[1]
    BY ONLY <1>3, <1>18, a \in Nat, h \in Nat DEF At
  <2>3. t[e - 1 + 1] = two[1] /\ e - 1 + 1 = e
    BY ONLY <1>3, <1>18, b \in Nat, y \in Nat, e \in Nat DEF At
  <2> QED
    BY <1>2, <1>b, <2>1, <2>2, <2>3
<1>20. Laid(t, Form!Digit(d), K, a, F, h, M, b, G, y, e, z)
  <2>1. Text(t, z7) /\ z7 >= z + 10
    BY <1>a, <1>11 DEF Join
  <2> QED
    BY <1>14, <1>17, <1>19, <1>d, <1>e, <2>1, Zenon DEF Laid
<1> QED
  BY <1>1, <1>20

LEMMA MarkFacts ==
  /\ Buttons \cap Marks = {} /\ \A d \in 0 .. 9 : Form!Digit(d) \notin Marks
  /\ "&" \in Form!EndsField /\ Blank \in Form!EndsField
  /\ "CR" \in Form!EndsLine /\ "&" \notin Form!EndsLine /\ "&" # "="
  /\ \A c : c \notin Marks => c \notin Form!EndsLine /\ c \notin Form!EndsField /\ c # "="
<1>1. Buttons \cap Marks = {}
  BY DEF Buttons, Marks, Form!EndsLine, Form!EndsField
<1>2. ASSUME NEW d \in 0 .. 9 PROVE Form!Digit(d) \notin Marks
  <2>1. Form!Digit(d) \in {"0", "1", "2", "3", "4", "5", "6", "7", "8", "9"}
    BY DEF Form!Digit
  <2> QED
    BY <2>1, Zenon DEF Marks, Form!EndsLine, Form!EndsField
<1>3. /\ "&" \in Form!EndsField /\ Blank \in Form!EndsField
      /\ "CR" \in Form!EndsLine /\ "&" \notin Form!EndsLine /\ "&" # "="
  BY Zenon DEF Blank, Form!EndsLine, Form!EndsField
<1>4. ASSUME NEW c, c \notin Marks
      PROVE  c \notin Form!EndsLine /\ c \notin Form!EndsField /\ c # "="
  BY <1>4, Zenon DEF Marks
<1> QED
  BY <1>1, <1>2, <1>3, <1>4, Zenon

LEMMA TidyFixed ==
  /\ Tidy(Verb, 6) /\ Tidy(Form!FloorKey, 5) /\ "=" \notin Form!EndsLine
  /\ \A k \in 1 .. 9 : Version[k] \notin Form!EndsLine /\ Version[k] # "="
  /\ Version[10] \in Form!EndsLine /\ Version[1] \in Form!EndsField
  /\ Form!FloorKey[5] = "r" /\ Form!FloorKey[6] = "="
<1>1. "=" \notin Form!EndsLine /\ Blank \notin Form!EndsLine /\ Blank # "="
  BY Zenon DEF Form!EndsLine, Blank
<1>2. Tidy(Verb, 6)
  BY <1>1 DEF Verb, Tidy, Form!EndsLine
<1>3. /\ Tidy(Form!FloorKey, 5) /\ Form!FloorKey[5] = "r" /\ Form!FloorKey[6] = "="
  BY <1>1 DEF Form!FloorKey, Tidy, Form!EndsLine
<1>4. \A k \in 1 .. 9 : Version[k] \notin Form!EndsLine /\ Version[k] # "="
  <2>1. \A k \in 1 .. 9 : Version[k] \in {Blank, "H", "T", "P", "/", "1", "."}
    BY DEF Version
  <2>2. \A c \in {"H", "T", "P", "/", "1", "."} : c \notin Form!EndsLine /\ c # "="
    BY Zenon DEF Form!EndsLine
  <2> HIDE DEF Version
  <2> QED
    BY <1>1, <2>1, <2>2, Zenon
<1>5. Version[10] \in Form!EndsLine /\ Version[1] \in Form!EndsField
  <2>1. Version[10] = "CR" /\ Version[1] = Blank
    BY DEF Version
  <2> QED
    BY <2>1, MarkFacts
<1> QED
  BY <1>1, <1>2, <1>3, <1>4, <1>5

\* Up to the end of the request line nothing ends one, and a sign of equality
\* stands behind one of the three keys only.
LEMMA Signs ==
  ASSUME NEW d \in 0 .. 9, NEW t, NEW K, NEW a \in Nat, NEW F, NEW h \in Nat, Field(K, a, F, h),
         NEW M, NEW b \in Nat, NEW G, NEW y \in Nat, Field(M, b, G, y),
         NEW e \in Nat, NEW z \in Nat,
         Laid(t, Form!Digit(d), K, a, F, h, M, b, G, y, e, z), NEW k \in 1 .. z + 9
  PROVE  /\ t[k] \notin Form!EndsLine
         /\ t[k] = "=" => k \in {12, 14 + a, e + b}
<1> DEFINE Fine(c) == c \notin Form!EndsLine /\ c # "="
<1>1. e = 15 + a + h /\ z = e + b + y /\ a >= 2 /\ b >= 2
  BY DEF Laid, Field, IsKey
<1>2. /\ At(t, Verb, 6, 0) /\ At(t, Form!FloorKey, 6, 6) /\ t[13] = Form!Digit(d)
      /\ t[14] = "&" /\ At(t, K, a, 14) /\ At(t, F, h, 14 + a)
      /\ t[e] = "&" /\ At(t, M, b, e) /\ At(t, G, y, e + b)
      /\ At(t, Version, 11, z)
  BY DEF Laid
<1>3. /\ Tidy(K, a - 1) /\ K[a] = "=" /\ K[a] \notin Form!EndsLine
      /\ Tidy(M, b - 1) /\ M[b] = "=" /\ M[b] \notin Form!EndsLine
      /\ \A j \in 1 .. h : Fine(F[j])
      /\ \A j \in 1 .. y : Fine(G[j])
  BY MarkFacts DEF Field, IsKey
<1>4. \/ k \in 1 .. 6 \/ k \in 7 .. 11 \/ k = 12 \/ k = 13 \/ k = 14
      \/ k \in 15 .. 13 + a \/ k = 14 + a \/ k \in 15 + a .. 14 + a + h \/ k = e
      \/ k \in e + 1 .. e + b - 1 \/ k = e + b \/ k \in e + b + 1 .. e + b + y
      \/ k \in z + 1 .. z + 9
  BY ONLY <1>1, a \in Nat, h \in Nat, b \in Nat, y \in Nat, e \in Nat, z \in Nat, k \in 1 .. z + 9
<1>5. CASE k \in 1 .. 6
  <2>1. t[0 + k] = Verb[k]
    BY <1>2, <1>5 DEF At
  <2> QED
    BY <1>5, <2>1, TidyFixed DEF Tidy
<1>6. CASE k \in 7 .. 11
  <2>1. PICK j \in 1 .. 5 : k = 6 + j
    BY <1>6
  <2>2. t[6 + j] = Form!FloorKey[j]
    BY <1>2, <2>1 DEF At
  <2> QED
    BY <2>1, <2>2, TidyFixed DEF Tidy
<1>7. CASE k = 12
  <2>1. t[6 + 6] = Form!FloorKey[6]
    BY <1>2 DEF At
  <2> QED
    BY <1>7, <2>1, TidyFixed
<1>8. CASE k = 13 \/ k = 14 \/ k = e
  BY <1>2, <1>8, MarkFacts
<1>9. CASE k \in 15 .. 13 + a
  <2>1. PICK j \in 1 .. a - 1 : k = 14 + j
    BY <1>9
  <2>2. t[14 + j] = K[j]
    BY <1>2, <2>1 DEF At
  <2> QED
    BY <1>3, <2>1, <2>2 DEF Tidy
<1>10. CASE k = 14 + a
  <2>1. t[14 + a] = K[a]
    BY <1>1, <1>2 DEF At
  <2> QED
    BY <1>3, <1>10, <2>1
<1>11. CASE k \in 15 + a .. 14 + a + h
  <2>1. PICK j \in 1 .. h : k = 14 + a + j
    BY <1>11
  <2>2. t[14 + a + j] = F[j]
    BY <1>2, <2>1 DEF At
  <2> QED
    BY <1>3, <2>1, <2>2
<1>12. CASE k \in e + 1 .. e + b - 1
  <2>1. PICK j \in 1 .. b - 1 : k = e + j
    BY <1>12
  <2>2. t[e + j] = M[j]
    BY <1>2, <2>1 DEF At
  <2> QED
    BY <1>3, <2>1, <2>2 DEF Tidy
<1>13. CASE k = e + b
  <2>1. t[e + b] = M[b]
    BY <1>1, <1>2 DEF At
  <2> QED
    BY <1>3, <1>13, <2>1
<1>14. CASE k \in e + b + 1 .. e + b + y
  <2>1. PICK j \in 1 .. y : k = e + b + j
    BY <1>14
  <2>2. t[e + b + j] = G[j]
    BY <1>2, <2>1 DEF At
  <2> QED
    BY <1>3, <2>1, <2>2
<1>15. CASE k \in z + 1 .. z + 9
  <2>1. PICK j \in 1 .. 9 : k = z + j
    BY <1>15
  <2>2. t[z + j] = Version[j]
    BY <1>2, <2>1 DEF At
  <2> QED
    BY <2>1, <2>2, TidyFixed
<1> QED
  BY <1>4, <1>5, <1>6, <1>7, <1>8, <1>9, <1>10, <1>11, <1>12, <1>13, <1>14, <1>15

\* What http_callback takes for the line of a request.
LineRead(t) == Form!Copied(Form!RequestLine(Form!Copied(t, Form!REQUEST)), Form!LINE)

\* It is the line, or its first 255 letters.
LEMMA LineSent ==
  ASSUME NEW d \in 0 .. 9, NEW t, NEW K, NEW a \in Nat, NEW F, NEW h \in Nat, Field(K, a, F, h),
         NEW M, NEW b \in Nat, NEW G, NEW y \in Nat, Field(M, b, G, y),
         NEW e \in Nat, NEW z \in Nat,
         Laid(t, Form!Digit(d), K, a, F, h, M, b, G, y, e, z)
  PROVE  \E m \in Nat : /\ m <= z + 9 /\ m <= 255 /\ (m = 255 \/ m = z + 9)
                        /\ PartOf(LineRead(t), t, 0, m)
<1> DEFINE u == Form!Copied(t, Form!REQUEST)
           v == Form!RequestLine(u)
           words == {k \in DOMAIN u : u[k] \notin Form!EndsLine}
<1>1. PICK n \in Nat : Text(t, n) /\ n >= z + 10
  BY DEF Laid
<1>2. PICK c \in Nat : PartOf(u, t, 0, c) /\ c <= n /\ (c = n \/ c = 1023)
  <2>1. PartOf(u, t, 0, IF Len(t) < 1024 THEN Len(t) ELSE 1024 - 1)
    BY <1>1, CopyIs DEF Form!REQUEST, Text
  <2>2. CASE n < 1024
    BY <1>1, <2>1, <2>2 DEF Text
  <2>3. CASE ~(n < 1024)
    BY <1>1, <2>1, <2>3 DEF Text
  <2> QED
    BY <2>2, <2>3
<1> HIDE DEF u
<1>3. u \in Seq(Letters) /\ Len(u) = c /\ \A k \in 1 .. c : u[k] = t[k]
  <2>1. u \in Seq(Letters) /\ Len(u) = c /\ \A k \in 1 .. c : u[k] = t[0 + k]
    BY <1>2 DEF PartOf
  <2> QED
    BY <2>1
<1>4. PICK q \in Nat : q = IF z + 9 <= c THEN z + 9 ELSE c
  OBVIOUS
<1>a. /\ 1 <= q /\ q <= c /\ q <= z + 9 /\ (q = z + 9 \/ (q = c /\ c = 1023))
      /\ q < c => q = z + 9
  BY <1>1, <1>2, <1>4
<1>5. ASSUME NEW k \in 1 .. q PROVE u[k] \notin Form!EndsLine
  <2>1. k \in 1 .. z + 9 /\ k \in 1 .. c
    BY <1>a
  <2>2. t[k] \notin Form!EndsLine
    BY <2>1, Signs
  <2> QED
    BY <1>3, <2>1, <2>2
<1>6. ASSUME q < Len(u) PROVE u[q + 1] \in Form!EndsLine
  <2>1. q + 1 = z + 10 /\ q + 1 \in 1 .. c
    BY <1>3, <1>a, <1>6
  <2>2. t[z + 10] = Version[10]
    BY DEF Laid, At
  <2>3. u[q + 1] = t[q + 1]
    BY <1>3, <2>1, Zenon
  <2> QED
    BY <2>1, <2>2, <2>3, TidyFixed
<1>7. 1 \in words /\ words \in SUBSET Int /\ \A spot \in words : 1 <= spot
  <2>1. 1 \in 1 .. c /\ DOMAIN u = 1 .. c /\ 1 \in 1 .. q
    BY <1>3, <1>a
  <2>2. 1 \in words
    BY <1>5, <2>1
  <2>3. \A spot \in words : spot \in 1 .. c
    BY <2>1
  <2> HIDE DEF words
  <2> QED
    BY <2>2, <2>3
<1>8. Form!Min(words) = 1 /\ words # {}
  <2> HIDE DEF words
  <2> QED
    BY <1>7, LeastOf
<1>9. v = SubSeq(u, 1, q)
  <2>1. v = Form!UpTo(u, 1, Form!EndsLine)
    BY <1>8, Zenon DEF Form!RequestLine
  <2>2. PICK to \in Nat : to = q + 1 /\ to - 1 = q /\ to <= c + 1 /\ 1 <= to /\ (to <= c => q < c)
    BY <1>a
  <2>3. /\ 1 <= to /\ to <= Len(u) + 1 /\ Len(u) \in Nat
        /\ to <= Len(u) => u[to] \in Form!EndsLine
        /\ \A k \in 1 .. to - 1 : u[k] \notin Form!EndsLine
    BY <1>3, <1>5, <1>6, <2>2
  <2>4. Form!UpTo(u, 1, Form!EndsLine) = SubSeq(u, 1, to - 1)
    BY <2>3, CutAt
  <2> QED
    BY <2>1, <2>2, <2>4
<1>10. PartOf(v, u, 0, q)
  <2>1. 0 + q <= Len(u) /\ u \in Seq(Letters) /\ 0 + 1 = 1 /\ 0 + q = q
    BY <1>3, <1>a
  <2>2. PartOf(SubSeq(u, 0 + 1, 0 + q), u, 0, q)
    BY <2>1, PartIs
  <2> QED
    BY <1>9, <2>1, <2>2
<1> HIDE DEF v
<1>11. PartOf(LineRead(t), v, 0, IF Len(v) < 256 THEN Len(v) ELSE 256 - 1)
  <2>1. v \in Seq(Letters) /\ LineRead(t) = Form!Copied(v, 256)
    BY <1>10, Zenon DEF PartOf, LineRead, u, v, Form!LINE
  <2> QED
    BY <2>1, CopyIs
<1>12. Len(v) = q /\ \A k \in 1 .. q : v[k] = t[k]
  <2>1. Len(v) = q /\ \A k \in 1 .. q : v[k] = u[0 + k]
    BY <1>10 DEF PartOf
  <2>2. ASSUME NEW k \in 1 .. q PROVE v[k] = t[k]
    <3>1. 0 + k = k /\ k \in 1 .. c
      BY <1>a
    <3> QED
      BY <1>3, <2>1, <3>1
  <2> QED
    BY <2>1, <2>2
<1>13. PICK m \in Nat : m = IF q < 256 THEN q ELSE 255
  OBVIOUS
<1>14. PartOf(LineRead(t), v, 0, m) /\ m <= q
  BY <1>11, <1>12, <1>13
<1>15. PartOf(LineRead(t), t, 0, m)
  BY <1>12, <1>14 DEF PartOf
<1>16. m <= z + 9 /\ m <= 255 /\ (m = 255 \/ m = z + 9)
  BY <1>2, <1>a, <1>13
<1> QED
  BY <1>15, <1>16

LEMMA OneDigit ==
  ASSUME NEW d \in 0 .. 9
  PROVE  Form!Atoi(<<Form!Digit(d)>>) = d
<1> DEFINE field == <<Form!Digit(d)>>
           digits == {k \in DOMAIN field : \E c \in 0 .. 9 : Form!Digit(c) = field[k]}
           n == Form!Min({k \in 1 .. Len(field) + 1 : k \notin digits}) - 1
           Read(k) == CHOOSE c \in 0 .. 9 : Form!Digit(c) = field[k]
           Body(g) == [k \in 0 .. n |-> IF k = 0 THEN 0 ELSE 10 * g[k - 1] + Read(k)]
           value == CHOOSE g : g = Body(g)
           f == [k \in 0 .. 1 |-> IF k = 0 THEN 0 ELSE d]
<1>1. Form!Atoi(field) = value[n]
  BY DEF Form!Atoi
<1>2. field[1] = Form!Digit(d) /\ DOMAIN field = {1} /\ Len(field) = 1
  OBVIOUS
<1>3. n = 1
  <2> DEFINE S == {k \in 1 .. Len(field) + 1 : k \notin digits}
  <2>1. S = {2}
    BY <1>2
  <2>2. Form!Min({2}) = 2
    BY LeastOf
  <2>3. n = Form!Min(S) - 1
    OBVIOUS
  <2> HIDE DEF S, n
  <2> QED
    BY <2>1, <2>2, <2>3
<1>4. Read(1) = d
  <2>1. \A c \in 0 .. 9 : Form!Digit(c) = Form!Digit(d) => c = d
    BY DEF Form!Digit
  <2> QED
    BY <1>2, <2>1
<1> HIDE DEF n, Read, field
<1>5. \E g : g = Body(g)
  <2>1. f = Body(f)
    BY <1>3, <1>4
  <2> HIDE DEF Body, f
  <2> QED
    BY <2>1
<1>6. value = Body(value)
  <2> HIDE DEF Body
  <2> QED
    BY <1>5
<1> HIDE DEF value
<1>7. value[0] = 0 /\ value[1] = 10 * value[0] + d
  BY <1>3, <1>4, <1>6
<1> QED
  BY <1>1, <1>3, <1>7 DEF field

\* What a line of m letters of a request gives for a field of K at p, behind which
\* n letters follow up to an end: all of them, if they have room.
LEMMA FieldRead ==
  ASSUME NEW line, NEW m \in Nat, Text(line, m), NEW K, NEW a \in Nat, IsKey(K, a),
         NEW F, NEW n \in Nat, Text(F, n), NEW p \in Nat, NEW size \in Nat \ {0}, n < size,
         p + a + n <= m, At(line, K, a, p), At(line, F, n, p + a),
         \A k \in 1 .. n : F[k] \notin Marks,
         p + a + n < m => line[p + a + n + 1] \in Form!EndsField,
         \A k \in a .. p + a - 1 : line[k] # "=" \/ line[k - 1] # K[a - 1]
  PROVE  Form!ParseParam(line, K, size) = F
<1>1. PICK lo \in Nat, q \in Nat : lo = p + a /\ q = p + a + n /\ q - p - a = n /\ lo + n = q
  <2>1. p + a \in Nat /\ p + a + n \in Nat /\ p + a + n - p - a = n
    OBVIOUS
  <2> QED
    BY <2>1
<1>2. ASSUME NEW k \in p + a + 1 .. q PROVE line[k] \notin Form!EndsField
  <2>1. PICK j \in 1 .. n : k = p + a + j
    BY <1>1
  <2>2. line[p + a + j] = F[j]
    BY <2>1 DEF At
  <2> QED
    BY <2>1, <2>2, MarkFacts
<1>3. Found(line, K, a, p, q)
  <2>1. p + a <= q /\ q <= Len(line) /\ (q < Len(line) => line[q + 1] \in Form!EndsField)
    BY <1>1 DEF Text
  <2>2. StandsAt(line, K, p)
    BY DEF At, StandsAt, Text
  <2> QED
    BY <1>2, <2>1, <2>2 DEF Found
<1>4. PartOf(Form!ParseParam(line, K, size), line, lo, n)
  <2>1. line \in Seq(Letters)
    BY DEF Text
  <2>2. PartOf(Form!ParseParam(line, K, size), line, p + a,
               IF q - p - a < size THEN q - p - a ELSE size - 1)
    BY <1>3, <2>1, FieldAt
  <2> QED
    BY <1>1, <2>2
<1> DEFINE r == Form!ParseParam(line, K, size)
<1> HIDE DEF r
<1>5. r \in Seq(Letters) /\ Len(r) = n /\ \A k \in 1 .. n : r[k] = line[lo + k]
  BY <1>4 DEF PartOf, r
<1>6. \A k \in 1 .. n : F[k] = line[lo + k]
  BY <1>1 DEF At
<1>7. r = F
  <2>1. F \in Seq(Letters) /\ Len(F) = n
    BY DEF Text
  <2> QED
    BY <1>5, <1>6, <2>1, SameLetters
<1> QED
  BY <1>7 DEF r

\* The line of m letters ends before the field of K at p does.
CutField(line, m, K, a, F, n, p) ==
  /\ Text(line, m) /\ IsKey(K, a) /\ Text(F, n) /\ n >= 1 /\ p + a + n > m
  /\ p + a <= m => At(line, K, a, p)
  /\ p + a <= m => \A k \in 1 .. m - p - a : line[p + a + k] = F[k]
  /\ \A k \in 1 .. n : F[k] \notin Marks
  /\ \A k \in a .. m : line[k] = "=" /\ line[k - 1] = K[a - 1] => k = p + a

\* Of such a field less is read than it has.
LEMMA FieldLost ==
  ASSUME NEW line, NEW m \in Nat, NEW K, NEW a \in Nat, NEW F, NEW n \in Nat, NEW p \in Nat,
         CutField(line, m, K, a, F, n, p), NEW size \in Nat \ {0}
  PROVE  Len(Form!ParseParam(line, K, size)) < n
<1>0. /\ Text(line, m) /\ IsKey(K, a) /\ n >= 1 /\ p + a + n > m
      /\ p + a <= m => At(line, K, a, p)
      /\ p + a <= m => \A k \in 1 .. m - p - a : line[p + a + k] = F[k]
      /\ \A k \in 1 .. n : F[k] \notin Marks
      /\ \A k \in a .. m : line[k] = "=" /\ line[k - 1] = K[a - 1] => k = p + a
  BY DEF CutField
<1>1. line \in Seq(Letters) /\ Len(line) = m
  BY <1>0 DEF Text
<1>2. CASE p + a <= m
  <2>1. PICK lo \in Nat, l \in Nat : lo = p + a /\ l = m - p - a /\ lo + l = m /\ l < n
    <3>1. p + a \in Nat /\ m - p - a \in Nat /\ p + a + (m - p - a) = m /\ m - p - a < n
      BY <1>0, <1>2
    <3> QED
      BY <3>1
  <2>2. ASSUME NEW k \in p + a + 1 .. m PROVE line[k] \notin Form!EndsField
    <3>1. PICK j \in 1 .. l : k = p + a + j
      BY <2>1
    <3>2. line[p + a + j] = F[j] /\ j \in 1 .. n
      BY <1>0, <1>2, <2>1, <3>1
    <3> QED
      BY <1>0, <3>1, <3>2, MarkFacts
  <2>3. StandsAt(line, K, p)
    BY <1>0, <1>2 DEF At, StandsAt, Text
  <2>4. ASSUME NEW k \in a .. p + a - 1 PROVE line[k] # "=" \/ line[k - 1] # K[a - 1]
    <3>1. k \in a .. m /\ k # p + a
      BY <1>2
    <3> QED
      BY <1>0, <3>1
  <2>5. Found(line, K, a, p, m)
    BY <1>1, <1>2, <2>2, <2>3, <2>4 DEF Found
  <2>6. PartOf(Form!ParseParam(line, K, size), line, p + a,
               IF m - p - a < size THEN m - p - a ELSE size - 1)
    BY <1>0, <1>1, <2>5, FieldAt
  <2>7. Len(Form!ParseParam(line, K, size)) = IF l < size THEN l ELSE size - 1
    BY <2>1, <2>6 DEF PartOf
  <2> QED
    BY <2>1, <2>7
<1>3. CASE p + a > m
  <2>1. ASSUME NEW k \in a .. m PROVE line[k] # "=" \/ line[k - 1] # K[a - 1]
    BY <1>0, <1>3
  <2>2. Form!ParseParam(line, K, size) = <<>>
    BY <1>0, <1>1, <2>1, NoField
  <2> QED
    BY <1>0, <2>2
<1> QED
  BY <1>2, <1>3

\* A request with two fields, of keys told apart by the last letter of their names.
TwoFields(t, d, K, a, F, h, M, b, G, y, e, z) ==
  /\ Field(K, a, F, h) /\ Field(M, b, G, y)
  /\ K[a - 1] # "r" /\ M[b - 1] # "r" /\ K[a - 1] # M[b - 1]
  /\ Laid(t, Form!Digit(d), K, a, F, h, M, b, G, y, e, z)

\* What is read of its fields: the floor, each other that ends on the line and is
\* smaller than its buffer, and of the second less than there is, if it does not.
LEMMA FieldsRead ==
  ASSUME NEW d \in 0 .. 9, NEW t, NEW K, NEW a \in Nat, NEW F, NEW h \in Nat,
         NEW M, NEW b \in Nat, NEW G, NEW y \in Nat, NEW e \in Nat, NEW z \in Nat,
         TwoFields(t, d, K, a, F, h, M, b, G, y, e, z), NEW size \in Nat \ {0}
  PROVE  /\ Form!Parsed(t).floor = <<Form!Digit(d)>>
         /\ h < size /\ 14 + a + h <= 255 => Form!ParseParam(LineRead(t), K, size) = F
         /\ y < size /\ z <= 255 => Form!ParseParam(LineRead(t), M, size) = G
         /\ z > 255 /\ y >= 1 => Len(Form!ParseParam(LineRead(t), M, size)) < y
<1> DEFINE line == LineRead(t)
<1>a. /\ Field(K, a, F, h) /\ Field(M, b, G, y)
      /\ K[a - 1] # "r" /\ M[b - 1] # "r" /\ K[a - 1] # M[b - 1]
      /\ Laid(t, Form!Digit(d), K, a, F, h, M, b, G, y, e, z)
  BY DEF TwoFields
<1>0. ASSUME NEW k \in 1 .. z + 9 PROVE t[k] = "=" => k \in {12, 14 + a, e + b}
  BY <1>a, Signs
<1>1. PICK m \in Nat : /\ m <= z + 9 /\ m <= 255 /\ (m = 255 \/ m = z + 9)
                       /\ PartOf(line, t, 0, m)
  BY <1>a, LineSent
<1>2. /\ e = 15 + a + h /\ z = e + b + y /\ a >= 2 /\ b >= 2
      /\ IsKey(K, a) /\ IsKey(M, b) /\ Text(F, h) /\ Text(G, y)
      /\ \A k \in 1 .. h : F[k] \notin Marks
      /\ \A k \in 1 .. y : G[k] \notin Marks
  BY <1>a DEF Laid, Field, IsKey
<1>3. /\ At(t, Form!FloorKey, 6, 6) /\ t[13] = Form!Digit(d)
      /\ t[14] = "&" /\ At(t, K, a, 14) /\ At(t, F, h, 14 + a)
      /\ t[e] = "&" /\ At(t, M, b, e) /\ At(t, G, y, e + b)
      /\ At(t, Version, 11, z)
  BY <1>a DEF Laid
<1>4. Form!Parsed(t).floor = Form!ParseParam(line, Form!FloorKey, Form!NUMBER)
  BY DEF Form!Parsed, LineRead
<1> HIDE DEF line
<1>5. Text(line, m) /\ \A k \in 1 .. m : line[k] = t[k]
  <2>1. Text(line, m) /\ \A k \in 1 .. m : line[k] = t[0 + k]
    BY <1>1 DEF PartOf, Text
  <2> QED
    BY <2>1
<1>6. ASSUME NEW w, NEW n \in Nat, NEW p \in Nat, At(t, w, n, p), p + n <= m
      PROVE  At(line, w, n, p)
  <2>1. ASSUME NEW k \in 1 .. n PROVE line[p + k] = w[k]
    <3>1. p + k \in 1 .. m
      BY <1>6
    <3>2. t[p + k] = w[k]
      BY <1>6 DEF At
    <3> QED
      BY <1>5, <3>1, <3>2
  <2> QED
    BY <1>6, <2>1 DEF At
<1>7. ASSUME NEW k \in 2 .. m, line[k] = "="
      PROVE  /\ k \in {12, 14 + a, e + b}
             /\ k = 12 => line[k - 1] = "r"
             /\ k = 14 + a => line[k - 1] = K[a - 1]
             /\ k = e + b => line[k - 1] = M[b - 1]
  <2>1. k \in 1 .. z + 9 /\ t[k] = "=" /\ line[k - 1] = t[k - 1]
    <3>1. k \in 1 .. m /\ k - 1 \in 1 .. m /\ k \in 1 .. z + 9
      BY <1>1
    <3> QED
      BY <1>5, <1>7, <3>1
  <2>2. k \in {12, 14 + a, e + b}
    BY <1>0, <2>1
  <2>3. k = 12 => t[k - 1] = "r"
    <3>1. t[6 + 5] = Form!FloorKey[5]
      BY <1>3 DEF At
    <3> QED
      BY <3>1, TidyFixed
  <2>4. k = 14 + a => t[k - 1] = K[a - 1]
    <3>1. t[14 + (a - 1)] = K[a - 1] /\ 14 + (a - 1) = 14 + a - 1
      BY <1>2, <1>3 DEF At
    <3> QED
      BY <3>1
  <2>5. k = e + b => t[k - 1] = M[b - 1]
    <3>1. t[e + (b - 1)] = M[b - 1] /\ e + (b - 1) = e + b - 1
      BY <1>2, <1>3 DEF At
    <3> QED
      BY <3>1
  <2> QED
    BY <2>1, <2>2, <2>3, <2>4, <2>5
<1>8. Form!Parsed(t).floor = <<Form!Digit(d)>>
  <2> DEFINE F1 == <<Form!Digit(d)>>
  <2>1. Text(F1, 1) /\ F1[1] = Form!Digit(d)
    <3>1. Form!Digit(d) \in Letters
      BY Zenon DEF Letters
    <3> HIDE DEF Letters
    <3> QED
      BY <3>1 DEF Text
  <2>2. m >= 14
    BY <1>1, <1>2
  <2>3. At(line, Form!FloorKey, 6, 6)
    BY <1>3, <1>6, <2>2
  <2>4. line[13] = Form!Digit(d) /\ line[14] = "&"
    BY <1>3, <1>5, <2>2
  <2>5. At(line, F1, 1, 12)
    <3>1. ASSUME NEW k \in 1 .. 1 PROVE line[12 + k] = F1[k]
      BY <2>1, <2>4
    <3> QED
      BY <2>1, <3>1 DEF At
  <2>6. \A k \in 1 .. 1 : F1[k] \notin Marks
    BY <2>1, MarkFacts
  <2>7. ASSUME NEW k \in 6 .. 11 PROVE line[k] # "="
    <3>1. k \in 2 .. m
      BY <2>2
    <3> QED
      BY <1>2, <1>7, <3>1
  <2>8. IsKey(Form!FloorKey, 6)
    BY FixedLetters, TidyFixed DEF IsKey, Text
  <2> HIDE DEF F1
  <2>9. Form!ParseParam(line, Form!FloorKey, 8) = F1
    <3>1. /\ 1 \in Nat /\ 6 \in Nat /\ 8 \in Nat \ {0} /\ 1 < 8 /\ 6 + 6 + 1 <= m
          /\ 6 + 6 = 12 /\ 6 + 6 + 1 + 1 = 14 /\ 6 + 6 - 1 = 11
      BY <2>2
    <3>2. line[6 + 6 + 1 + 1] \in Form!EndsField
      BY <2>4, <3>1, MarkFacts
    <3>3. At(line, F1, 1, 6 + 6)
      BY <2>5, <3>1
    <3>4. \A k \in 6 .. 6 + 6 - 1 : line[k] # "=" \/ line[k - 1] # Form!FloorKey[6 - 1]
      BY <2>7, <3>1
    <3> QED
      BY ONLY <1>5, <2>1, <2>3, <2>6, <2>8, <3>1, <3>2, <3>3, <3>4, FieldRead, m \in Nat
  <2> QED
    BY <1>4, <2>9 DEF F1, Form!NUMBER
<1>9. ASSUME h < size, 14 + a + h <= 255 PROVE Form!ParseParam(line, K, size) = F
  <2>1. 14 + a + h <= m
    BY <1>1, <1>2, <1>9
  <2>2. At(line, K, a, 14) /\ At(line, F, h, 14 + a)
    BY <1>3, <1>6, <2>1
  <2>3. ASSUME 14 + a + h < m PROVE line[14 + a + h + 1] \in Form!EndsField
    <3>1. 14 + a + h + 1 = e /\ e \in 1 .. m
      BY <1>2, <2>3
    <3> QED
      BY <1>3, <1>5, <3>1, MarkFacts
  <2>4. ASSUME NEW k \in a .. 14 + a - 1 PROVE line[k] # "=" \/ line[k - 1] # K[a - 1]
    <3>1. k \in 2 .. m /\ k # 14 + a /\ k # e + b
      BY <1>2, <2>1
    <3> QED
      BY <1>7, <1>a, <3>1
  <2> QED
    BY <1>2, <1>5, <1>9, <2>1, <2>2, <2>3, <2>4, FieldRead
<1>10. ASSUME y < size, z <= 255 PROVE Form!ParseParam(line, M, size) = G
  <2>1. z <= m
    BY <1>1, <1>10
  <2>2. At(line, M, b, e) /\ At(line, G, y, e + b)
    BY <1>2, <1>3, <1>6, <2>1
  <2>3. e + b + y < m => line[e + b + y + 1] \in Form!EndsField
    <3>1. ASSUME e + b + y < m PROVE line[e + b + y + 1] = Version[1]
      <4>1. e + b + y + 1 = z + 1 /\ z + 1 \in 1 .. m
        BY <1>2, <3>1
      <4>2. t[z + 1] = Version[1]
        BY <1>3 DEF At
      <4> QED
        BY <1>5, <4>1, <4>2
    <3> QED
      BY <3>1, TidyFixed
  <2>4. ASSUME NEW k \in b .. e + b - 1 PROVE line[k] # "=" \/ line[k - 1] # M[b - 1]
    <3>1. k \in 2 .. m /\ k # e + b
      BY <1>2, <2>1
    <3> QED
      BY <1>7, <1>a, <3>1
  <2> QED
    BY <1>2, <1>5, <1>10, <2>1, <2>2, <2>3, <2>4, FieldRead
<1>11. ASSUME z > 255, y >= 1 PROVE Len(Form!ParseParam(line, M, size)) < y
  <2>1. e + b + y > m
    BY <1>1, <1>2, <1>11
  <2>2. ASSUME e + b <= m
        PROVE  At(line, M, b, e) /\ (\A k \in 1 .. m - e - b : line[e + b + k] = G[k])
    <3>1. At(line, M, b, e)
      BY <1>3, <1>6, <2>2
    <3>2. ASSUME NEW k \in 1 .. m - e - b PROVE line[e + b + k] = G[k]
      <4>1. k \in 1 .. y /\ e + b + k \in 1 .. m
        BY <2>1, <2>2
      <4>2. t[e + b + k] = G[k]
        BY <1>3, <4>1 DEF At
      <4> QED
        BY <1>5, <4>1, <4>2
    <3> QED
      BY <3>1, <3>2
  <2>3. ASSUME NEW k \in b .. m, line[k] = "=", line[k - 1] = M[b - 1] PROVE k = e + b
    <3>1. k \in 2 .. m
      BY <1>2
    <3> QED
      BY <1>7, <1>a, <2>3, <3>1
  <2> QED
    <3>1. CutField(line, m, M, b, G, y, e)
      BY <1>2, <1>5, <1>11, <2>1, <2>2, <2>3 DEF CutField
    <3> QED
      BY <3>1, FieldLost
<1> QED
  BY <1>8, <1>9, <1>10, <1>11 DEF line

\* The page with a floor in view, sent with a button and a text.
FormSent(selected, button, typed) ==
  Form!Submit(Form!Page([f \in 0 .. FLOORS - 1 |-> 0], selected), button, typed)

LEMMA FloorMarked ==
  ASSUME FLOORS \in 1 .. 10, NEW s \in 0 .. FLOORS - 1, NEW button \in Buttons, NEW typed
  PROVE  FormSent(s, button, typed) =
           IF button # Form!Set
           THEN Whole(Form!Digit(s), Form!ActionKey, button, Form!ValueKey, typed)
           ELSE Whole(Form!Digit(s), Form!ValueKey, typed, Form!ActionKey, button)
<1> DEFINE page == Form!Page([f \in 0 .. FLOORS - 1 |-> 0], s)
           marked == {f \in DOMAIN page.options : page.options[f]}
<1>1. page.options = [f \in 0 .. FLOORS - 1 |-> f = s]
  BY DEF Form!Page
<1>2. marked = {s}
  <2> HIDE DEF page
  <2> QED
    BY <1>1
<1>3. Form!Min({s}) = s
  BY LeastOf
<1>4. (button \in page.before) <=> button # Form!Set
  <2>1. page.before = {Form!Add, Form!Remove, Form!Clear, Form!ClearAll}
    BY DEF Form!Page
  <2>2. Form!Set \notin {Form!Add, Form!Remove, Form!Clear, Form!ClearAll}
    BY DEF Form!Add, Form!Remove, Form!Clear, Form!Set, Form!ClearAll
  <2> QED
    BY <2>1, <2>2, Zenon DEF Buttons
<1>5. (IF marked = {} THEN 0 ELSE Form!Min(marked)) = s
  <2> HIDE DEF marked
  <2> QED
    BY <1>2, <1>3
<1> QED
  BY <1>4, <1>5, Zenon DEF FormSent, Form!Submit, Blank, Whole, Piece, Verb, Version, Referer

\* The keys and the buttons.
LEMMA KeyFacts ==
  /\ IsKey(Form!ActionKey, 7) /\ Tidy(Form!ActionKey, 6)
  /\ IsKey(Form!ValueKey, 6) /\ Tidy(Form!ValueKey, 5)
  /\ Form!ActionKey[7] \notin Form!EndsLine /\ Form!ActionKey[6] = "n"
  /\ Form!ValueKey[6] \notin Form!EndsLine /\ Form!ValueKey[5] = "e"
<1>1. /\ "a" \in Letters /\ "c" \in Letters /\ "t" \in Letters /\ "i" \in Letters
      /\ "o" \in Letters /\ "n" \in Letters /\ "=" \in Letters /\ "v" \in Letters
      /\ "l" \in Letters /\ "u" \in Letters /\ "e" \in Letters
  BY Zenon DEF Letters, Marks
<1>2. "=" \notin Form!EndsLine
  BY TidyFixed
<1> HIDE DEF Letters
<1>3. IsKey(Form!ActionKey, 7) /\ Form!ActionKey[7] \notin Form!EndsLine /\ Form!ActionKey[6] = "n"
  BY <1>1, <1>2 DEF IsKey, Form!ActionKey
<1>4. IsKey(Form!ValueKey, 6) /\ Form!ValueKey[6] \notin Form!EndsLine /\ Form!ValueKey[5] = "e"
  BY <1>1, <1>2 DEF IsKey, Form!ValueKey
<1>5. Tidy(Form!ActionKey, 6)
  BY DEF Tidy, Form!ActionKey, Form!EndsLine
<1>6. Tidy(Form!ValueKey, 5)
  BY DEF Tidy, Form!ValueKey, Form!EndsLine
<1> QED
  BY <1>3, <1>4, <1>5, <1>6

LEMMA ButtonFacts ==
  ASSUME NEW button \in Buttons
  PROVE  \E w \in 3 .. 9 : /\ Text(button, w) /\ \A k \in 1 .. w : button[k] \notin Marks
                           /\ button = Form!Set => w = 3
<1>1. /\ "a" \in Letters /\ "c" \in Letters /\ "t" \in Letters
      /\ "o" \in Letters /\ "r" \in Letters /\ "v" \in Letters /\ "m" \in Letters
      /\ "l" \in Letters /\ "d" \in Letters /\ "e" \in Letters /\ "s" \in Letters
      /\ Stroke \in Letters
  BY Zenon DEF Letters, Stroke
<1>2. \A c \in {"a", "c", "t", "o", "r", "v", "m", "l", "d", "e", "s", Stroke} : c \notin Marks
  BY Zenon DEF Marks, Form!EndsLine, Form!EndsField, Stroke
<1> HIDE DEF Letters
<1> DEFINE Good(u, w) == Text(u, w) /\ \A k \in 1 .. w : u[k] \notin Marks
           Plain == {"a", "c", "t", "o", "r", "v", "m", "l", "d", "e", "s", Stroke}
<1>3. Good(Form!Add, 3)
  <2>1. Text(Form!Add, 3)
    BY <1>1 DEF Text, Form!Add
  <2>2. \A k \in 1 .. 3 : Form!Add[k] \in Plain
    BY DEF Form!Add
  <2> HIDE DEF Plain
  <2> QED
    BY <1>2, <2>1, <2>2 DEF Plain
<1>4. Good(Form!Remove, 6)
  <2>1. Text(Form!Remove, 6)
    BY <1>1 DEF Text, Form!Remove
  <2>2. \A k \in 1 .. 6 : Form!Remove[k] \in Plain
    BY DEF Form!Remove
  <2> HIDE DEF Plain
  <2> QED
    BY <1>2, <2>1, <2>2 DEF Plain
<1>5. Good(Form!Clear, 5)
  <2>1. Text(Form!Clear, 5)
    BY <1>1 DEF Text, Form!Clear
  <2>2. \A k \in 1 .. 5 : Form!Clear[k] \in Plain
    BY DEF Form!Clear
  <2> HIDE DEF Plain
  <2> QED
    BY <1>2, <2>1, <2>2 DEF Plain
<1>6. Good(Form!Set, 3)
  <2>1. Text(Form!Set, 3)
    BY <1>1 DEF Text, Form!Set
  <2>2. \A k \in 1 .. 3 : Form!Set[k] \in Plain
    BY DEF Form!Set
  <2> HIDE DEF Plain
  <2> QED
    BY <1>2, <2>1, <2>2 DEF Plain
<1>7. Good(Form!ClearAll, 9)
  <2>0. Form!ClearAll = <<"c", "l", "e", "a", "r", Stroke, "a", "l", "l">>
    BY Zenon DEF Form!ClearAll, Stroke
  <2>1. Text(Form!ClearAll, 9)
    BY <1>1, <2>0 DEF Text
  <2>2. \A k \in 1 .. 9 : Form!ClearAll[k] \in Plain
    BY <2>0
  <2> HIDE DEF Plain
  <2> QED
    BY <1>2, <2>1, <2>2 DEF Plain
<1>8. \E w \in 3 .. 9 : Good(button, w) /\ (button = Form!Set => w = 3)
  <2> HIDE DEF Good
  <2>1. button = Form!Set \/ button \in {Form!Add, Form!Remove, Form!Clear, Form!ClearAll}
    BY Zenon DEF Buttons
  <2>2. CASE button = Form!Set
    BY <1>6, <2>2
  <2>3. CASE button # Form!Set
    <3>1. \E w \in 3 .. 9 : Good(button, w)
      BY <1>3, <1>4, <1>5, <1>7, <2>1, <2>3
    <3> QED
      BY <2>3, <3>1
  <2> QED
    BY <2>2, <2>3
<1> QED
  BY <1>8

LEMMA FormsUnderstood ==
  ASSUME FLOORS \in 1 .. 10,
         NEW s \in 0 .. FLOORS - 1, NEW button \in Buttons, NEW typed \in Seq(STRING \ Marks)
  PROVE  Form!FormUnderstood(s, button, typed)
<1> DEFINE t == FormSent(s, button, typed)
           r == Form!Parsed(t)
<1>1. PICK n \in Nat : Text(typed, n) /\ n = Len(typed) /\ \A k \in 1 .. n : typed[k] \notin Marks
  <2>1. /\ Len(typed) \in Nat /\ \A k \in 1 .. Len(typed) : typed[k] \in STRING \ Marks
    OBVIOUS
  <2>2. STRING \ Marks \subseteq Letters
    BY Zenon DEF Letters
  <2> HIDE DEF Letters
  <2>3. typed \in Seq(Letters)
    BY <2>2
  <2> QED
    BY <2>1, <2>3 DEF Text
<1>2. PICK w \in 3 .. 9 : /\ Text(button, w) /\ \A k \in 1 .. w : button[k] \notin Marks
                          /\ button = Form!Set => w = 3
  BY ButtonFacts
<1>3. PICK a \in Nat, b \in Nat : a = 7 /\ b = 6 /\ a - 1 = 6 /\ b - 1 = 5
  OBVIOUS
<1>4. Field(Form!ActionKey, a, button, w) /\ Field(Form!ValueKey, b, typed, n)
  BY <1>1, <1>2, <1>3, KeyFacts DEF Field
<1>5. /\ r.action = Form!ParseParam(LineRead(t), Form!ActionKey, 16)
      /\ r.value = Form!ParseParam(LineRead(t), Form!ValueKey, 8)
  BY DEF Form!Parsed, LineRead, Form!NAME, Form!NUMBER
<1>6. s \in 0 .. 9 /\ w \in Nat
  OBVIOUS
<1>7. /\ Form!ActionKey[a - 1] # "r" /\ Form!ValueKey[b - 1] # "r"
      /\ Form!ActionKey[a - 1] # Form!ValueKey[b - 1]
  BY <1>3, KeyFacts
<1> DEFINE page == Form!Page([f \in 0 .. FLOORS - 1 |-> 0], s)
<1>8. page.before \cup page.after = Buttons /\ (button \in page.before <=> button # Form!Set)
  <2>1. /\ page.before = {Form!Add, Form!Remove, Form!Clear, Form!ClearAll}
        /\ page.after = {Form!Set}
    BY DEF Form!Page
  <2>2. Form!Set \notin {Form!Add, Form!Remove, Form!Clear, Form!ClearAll}
    BY DEF Form!Add, Form!Remove, Form!Clear, Form!Set, Form!ClearAll
  <2> HIDE DEF page
  <2> QED
    BY <2>1, <2>2, Zenon DEF Buttons
<1>9. SUFFICES /\ r.floor = <<Form!Digit(s)>>
               /\ IF button \in page.before \/ n + 31 < 256
                  THEN r.action = button
                  ELSE r.action \notin page.before \cup page.after
               /\ n < 8 => r.value = typed
  BY <1>1, <1>6, OneDigit, Zenon
  DEF Form!FormUnderstood, FormSent, Form!NUMBER, Form!Around, Form!LINE
<1> HIDE DEF page
<1>10. CASE button # Form!Set
  <2>1. t = Whole(Form!Digit(s), Form!ActionKey, button, Form!ValueKey, typed)
    BY <1>10, FloorMarked
  <2>2. PICK e \in Nat, z \in Nat : e = 15 + a + w /\ z = e + b + n
    <3>1. 15 + a + w \in Nat /\ 15 + a + w + b + n \in Nat
      OBVIOUS
    <3> QED
      BY <3>1
  <2> HIDE DEF t
  <2>3. Laid(t, Form!Digit(s), Form!ActionKey, a, button, w, Form!ValueKey, b, typed, n, e, z)
    BY <1>4, <1>6, <2>1, <2>2, WholeLaid
  <2>4. ASSUME NEW size \in Nat \ {0}
        PROVE  /\ Form!Parsed(t).floor = <<Form!Digit(s)>>
               /\ w < size /\ 14 + a + w <= 255 =>
                    Form!ParseParam(LineRead(t), Form!ActionKey, size) = button
               /\ n < size /\ z <= 255 => Form!ParseParam(LineRead(t), Form!ValueKey, size) = typed
               /\ z > 255 /\ n >= 1 => Len(Form!ParseParam(LineRead(t), Form!ValueKey, size)) < n
    <3>1. TwoFields(t, s, Form!ActionKey, a, button, w, Form!ValueKey, b, typed, n, e, z)
      BY <1>4, <1>7, <2>3, Zenon DEF TwoFields
    <3> QED
      BY <1>6, <3>1, FieldsRead
  <2>5. r.floor = <<Form!Digit(s)>>
    <3>1. 8 \in Nat \ {0}
      OBVIOUS
    <3> QED
      BY <2>4, <3>1
  <2> HIDE DEF r
  <2>6. r.action = button /\ (n < 8 => r.value = typed)
    BY <1>3, <1>5, <2>2, <2>4
  <2> QED
    BY <1>8, <1>10, <2>5, <2>6
<1>11. CASE button = Form!Set
  <2>0. w = 3
    BY <1>2, <1>11
  <2>1. t = Whole(Form!Digit(s), Form!ValueKey, typed, Form!ActionKey, button)
    BY <1>11, FloorMarked
  <2>2. PICK e \in Nat, z \in Nat : e = 15 + b + n /\ z = e + a + w
    <3>1. 15 + b + n \in Nat /\ 15 + b + n + a + w \in Nat
      OBVIOUS
    <3> QED
      BY <3>1
  <2> HIDE DEF t
  <2>3. Laid(t, Form!Digit(s), Form!ValueKey, b, typed, n, Form!ActionKey, a, button, w, e, z)
    BY <1>4, <1>6, <2>1, <2>2, WholeLaid
  <2>4. ASSUME NEW size \in Nat \ {0}
        PROVE  /\ Form!Parsed(t).floor = <<Form!Digit(s)>>
               /\ n < size /\ 14 + b + n <= 255 =>
                    Form!ParseParam(LineRead(t), Form!ValueKey, size) = typed
               /\ w < size /\ z <= 255 => Form!ParseParam(LineRead(t), Form!ActionKey, size) = button
               /\ z > 255 /\ w >= 1 => Len(Form!ParseParam(LineRead(t), Form!ActionKey, size)) < w
    <3>1. Form!ValueKey[b - 1] # Form!ActionKey[a - 1]
      BY <1>7
    <3>2. TwoFields(t, s, Form!ValueKey, b, typed, n, Form!ActionKey, a, button, w, e, z)
      BY <1>4, <1>7, <2>3, <3>1, Zenon DEF TwoFields
    <3> QED
      BY <1>6, <3>2, FieldsRead
  <2>5. r.floor = <<Form!Digit(s)>>
    <3>1. 8 \in Nat \ {0}
      OBVIOUS
    <3> QED
      BY <2>4, <3>1
  <2> HIDE DEF r
  <2>6. n < 8 => r.value = typed
    BY <1>3, <1>5, <2>4
  <2>7. z = n + 31
    BY <1>3, <2>0, <2>2
  <2>8. ASSUME n + 31 < 256 PROVE r.action = button
    BY <1>5, <2>0, <2>4, <2>7, <2>8
  <2>9. ASSUME ~(n + 31 < 256) PROVE r.action \notin Buttons
    <3>1. Len(r.action) < 3
      BY <1>5, <2>0, <2>4, <2>7, <2>9
    <3>2. ASSUME NEW c \in Buttons PROVE Len(c) >= 3
      BY ButtonFacts DEF Text
    <3> QED
      BY <3>1, <3>2
  <2> QED
    BY <1>8, <1>11, <2>5, <2>6, <2>8, <2>9, Zenon
<1> QED
  BY <1>10, <1>11

-----------------------------------------------------------------------------
(* What Unity's assertions decide.                                         *)

\* How many numbers a type of that many bytes has.
Values(size) == 2 ^ (size * BYTE)

\* Half of them, the ones that are not negative.
LEMMA HalfOf ==
  ASSUME Unity!UnityAssumption, NEW size \in {1, 2, 4}
  PROVE  /\ Values(size) \in Nat
         /\ \E h \in Nat \ {0} : /\ Values(size) = 2 * h
                                 /\ Values(size) \div 2 = h
                                 /\ size # 4 => Values(size) <= Values(4) \div 2
<1>1. BYTE \in 1 .. 8
  BY DEF Unity!UnityAssumption
<1>2. ASSUME NEW k \in 1 .. 8, BYTE = k
      PROVE  Values(size) = IF size = 1 THEN 2 ^ k
                            ELSE IF size = 2 THEN 2 ^ (2 * k) ELSE 2 ^ (4 * k)
  BY <1>2 DEF Values
<1>3. ASSUME NEW k \in 1 .. 8, BYTE = k
      PROVE  Values(4) = 2 ^ (4 * k)
  BY <1>3 DEF Values
<1>4. CASE size = 1
  <2>1. \A k \in 1 .. 8 : BYTE = k => Values(size) = 2 ^ k /\ Values(4) = 2 ^ (4 * k)
    BY <1>2, <1>3, <1>4
  <2>2. CASE BYTE = 1 \/ BYTE = 2 \/ BYTE = 3 \/ BYTE = 4
    BY <1>4, <2>1, <2>2
  <2>3. CASE BYTE = 5 \/ BYTE = 6 \/ BYTE = 7 \/ BYTE = 8
    BY <1>4, <2>1, <2>3
  <2> QED
    BY <1>1, <2>2, <2>3
<1>5. CASE size = 2
  <2>1. \A k \in 1 .. 8 : BYTE = k => Values(size) = 2 ^ (2 * k) /\ Values(4) = 2 ^ (4 * k)
    BY <1>2, <1>3, <1>5
  <2>2. CASE BYTE = 1 \/ BYTE = 2 \/ BYTE = 3 \/ BYTE = 4
    BY <1>5, <2>1, <2>2
  <2>3. CASE BYTE = 5 \/ BYTE = 6 \/ BYTE = 7 \/ BYTE = 8
    BY <1>5, <2>1, <2>3
  <2> QED
    BY <1>1, <2>2, <2>3
<1>6. CASE size = 4
  <2>1. \A k \in 1 .. 8 : BYTE = k => Values(size) = 2 ^ (4 * k)
    BY <1>2, <1>3, <1>6
  <2>2. CASE BYTE = 1 \/ BYTE = 2 \/ BYTE = 3 \/ BYTE = 4
    BY <1>6, <2>1, <2>2
  <2>3. CASE BYTE = 5 \/ BYTE = 6 \/ BYTE = 7 \/ BYTE = 8
    BY <1>6, <2>1, <2>3
  <2> QED
    BY <1>1, <2>2, <2>3
<1> QED
  BY <1>4, <1>5, <1>6

\* s and u are n as a signed and as an unsigned one of 2 * h numbers.
SameNumber(n, h, s, u) ==
  /\ s \in -h .. h - 1 /\ u \in 0 .. 2 * h - 1
  /\ u = IF s < 0 THEN s + 2 * h ELSE s
  /\ n \in -h .. h - 1 => s = n
  /\ n \in 0 .. 2 * h - 1 => u = n

LEMMA SignedUnsigned ==
  ASSUME NEW h \in Nat \ {0}, NEW n \in Int
  PROVE  SameNumber(n, h, ((n + h) % (2 * h)) - h, n % (2 * h))
<1>0. PICK V : V = 2 * h
  OBVIOUS
<1> DEFINE q == n \div V  r == n % V
           p == (n + h) \div V  t == (n + h) % V
<1>1. q \in Int /\ p \in Int /\ r \in 0 .. V - 1 /\ t \in 0 .. V - 1
  BY <1>0
<1>2. n = r + V * q /\ n + h = t + V * p
  BY <1>0
<1> HIDE DEF q, r, p, t
<1>3. V \in Nat \ {0}
  BY <1>0
<1>4. r = IF t < h THEN t + h ELSE t - h
  <2> DEFINE b == IF t < h THEN t + h ELSE t - h
             c == IF t < h THEN p - 1 ELSE p
  <2>1. b \in 0 .. V - 1 /\ c \in Int
    BY <1>0, <1>1
  <2>2. V * c = IF t < h THEN V * p - V ELSE V * p
    BY <1>0, <1>1
  <2>3. r + V * q = b + V * c
    BY <1>0, <1>1, <1>2, <2>2
  <2> HIDE DEF b, c
  <2>4. r = b
    BY <1>1, <1>3, <2>1, <2>3, TwoDigits
  <2> QED
    BY <2>4 DEF b
<1>5. ASSUME n \in 0 .. V - 1 PROVE r = n
  <2>1. r + V * q = n + V * 0
    BY <1>0, <1>1, <1>2
  <2> QED
    BY <1>0, <1>1, <1>3, <1>5, <2>1, TwoDigits
<1>6. ASSUME n \in -h .. h - 1 PROVE t - h = n
  <2>1. t + V * p = (n + h) + V * 0 /\ n + h \in 0 .. V - 1
    BY <1>0, <1>1, <1>2, <1>6
  <2> QED
    BY <1>1, <1>3, <1>6, <2>1, TwoDigits
<1> QED
  BY <1>0, <1>1, <1>4, <1>5, <1>6 DEF SameNumber, t, r

LEMMA TurnsOver ==
  ASSUME NEW V \in Nat \ {0}, NEW n \in Int
  PROVE  (n + V) % V = n % V
<1> DEFINE q == n \div V  r == n % V
           p == (n + V) \div V  t == (n + V) % V
<1>1. q \in Int /\ p \in Int /\ r \in 0 .. V - 1 /\ t \in 0 .. V - 1
  OBVIOUS
<1>2. n = r + V * q /\ n + V = t + V * p
  OBVIOUS
<1> HIDE DEF q, r, p, t
<1>3. PICK c \in Int : c = q + 1
  BY <1>1
<1>4. t + V * p = r + V * c
  BY <1>1, <1>2, <1>3
<1>5. t = r
  BY <1>1, <1>3, <1>4, TwoDigits
<1> QED
  BY <1>5 DEF t, r

\* Signed and unsigned numbers of a type with 2 * h numbers.
Reads(size, h) ==
  \A n \in Int : SameNumber(n, h, Unity!Signed(n, size), Unity!Unsigned(n, size))

Turns(size, h) == \A n \in Int : Unity!Unsigned(n + 2 * h, size) = Unity!Unsigned(n, size)

LEMMA Reading ==
  ASSUME Unity!UnityAssumption, NEW size \in {1, 2, 4}
  PROVE  \E h \in Nat \ {0} : Reads(size, h) /\ Turns(size, h) /\ Values(size) = 2 * h
<1>1. PICK h \in Nat \ {0} : Values(size) = 2 * h /\ Values(size) \div 2 = h
  BY HalfOf
<1>2. ASSUME NEW n \in Int
      PROVE  /\ Unity!Signed(n, size) = ((n + h) % (2 * h)) - h
             /\ Unity!Unsigned(n, size) = n % (2 * h)
  BY <1>1 DEF Unity!Signed, Unity!Unsigned, Values
<1>3. ASSUME NEW n \in Int
      PROVE  SameNumber(n, h, Unity!Signed(n, size), Unity!Unsigned(n, size))
  BY <1>1, <1>2, SignedUnsigned, Zenon
<1>4. ASSUME NEW n \in Int
      PROVE  Unity!Unsigned(n + 2 * h, size) = Unity!Unsigned(n, size)
  <2>1. PICK V \in Nat \ {0} : V = 2 * h
    BY <1>1
  <2>2. n + V \in Int /\ (n + V) % V = n % V
    <3>1. n + V \in Int
      BY <2>1
    <3>2. (n + V) % V = n % V
      BY <1>4, <2>1, TurnsOver, Zenon
    <3> QED
      BY <3>1, <3>2
  <2>3. Unity!Unsigned(n + V, size) = (n + V) % V /\ Unity!Unsigned(n, size) = n % V
    BY <1>2, <1>4, <2>1, <2>2, Zenon
  <2> QED
    BY <2>1, <2>2, <2>3
<1>5. Reads(size, h) /\ Turns(size, h)
  BY <1>3, <1>4, Zenon DEF Reads, Turns
<1> QED
  BY <1>1, <1>5

\* A type and the widest one.
LEMMA ReadingBoth ==
  ASSUME Unity!UnityAssumption, NEW size \in {1, 2, 4}
  PROVE  \E h \in Nat \ {0}, k \in Nat \ {0} :
            /\ Reads(size, h) /\ Reads(4, k) /\ Turns(4, k)
            /\ Values(size) = 2 * h /\ Values(4) = 2 * k
            /\ IF size = 4 THEN h = k ELSE 2 * h <= k
<1>1. PICK h \in Nat \ {0} : Reads(size, h) /\ Values(size) = 2 * h
  BY Reading
<1>2. PICK k \in Nat \ {0} : Reads(4, k) /\ Turns(4, k) /\ Values(4) = 2 * k
  BY Reading
<1>3. size # 4 => Values(size) <= Values(4) \div 2
  BY HalfOf
<1>4. IF size = 4 THEN h = k ELSE 2 * h <= k
  BY <1>1, <1>2, <1>3
<1> QED
  BY <1>1, <1>2, <1>4

\* How a type of 2 * h numbers stands in the widest one, of 2 * k.
Widened(v, k) == IF v < k THEN v ELSE v - 2 * k

\* What the conversions of the assertions leave of a number is the number of
\* its type, or a signed one that tells it.
LEMMA Conversions ==
  ASSUME NEW style \in Unity!Styles, NEW n \in Int, NEW h \in Nat \ {0}, NEW k \in Nat \ {0},
         Reads(style.size, h), Reads(4, k), IF style.size = 4 THEN h = k ELSE 2 * h <= k
  PROVE  LET v == Unity!Value(n, style)
             c == Unity!Cast(n, style)
             q == Unity!EqualCast(n, style)
             l == Unity!Element(n, style)
         IN /\ v \in Int
            /\ IF Unity!IsInt(style) THEN v \in -h .. h - 1 ELSE v \in 0 .. 2 * h - 1
            /\ c = IF Unity!IsInt(style) THEN v ELSE Widened(v, k)
            /\ ~Unity!IsInt(style) => Unity!Unsigned(c, 4) = v
            /\ q = CASE Unity!IsInt(style) -> v
                     [] style.range = "uint" -> Widened(v, k)
                     [] OTHER -> Widened(v, h)
            /\ l = IF Unity!IsInt(style) \/ style.size # 4 THEN v ELSE Widened(v, k)
            /\ Unity!Element(Unity!Signed(q, style.size), style) = l
<1> DEFINE s == Unity!Signed(n, style.size)
           u == Unity!Unsigned(n, style.size)
           w == Unity!Signed(u, 4)
           z == Unity!Signed(w, style.size)
<1>1. /\ style.range \in {"int", "char", "uint", "hex"}
      /\ style.size \in {1, 2, 4}
  BY DEF Unity!Styles, Unity!INT
<1>2. /\ s \in -h .. h - 1 /\ u \in 0 .. 2 * h - 1
      /\ u = IF s < 0 THEN s + 2 * h ELSE s
      /\ s = Widened(u, h)
  BY DEF Reads, SameNumber, Widened
<1>3. /\ Unity!Signed(s, style.size) = s /\ Unity!Unsigned(s, style.size) = u
      /\ Unity!Unsigned(u, style.size) = u /\ Unity!Signed(u, style.size) = s
  <2>1. /\ Unity!Signed(s, style.size) = s
        /\ Unity!Unsigned(s, style.size) =
             IF Unity!Signed(s, style.size) < 0 THEN Unity!Signed(s, style.size) + 2 * h
                                                ELSE Unity!Signed(s, style.size)
    BY <1>2 DEF Reads, SameNumber
  <2>2. /\ Unity!Unsigned(u, style.size) = u
        /\ Unity!Signed(u, style.size) \in -h .. h - 1
        /\ Unity!Unsigned(u, style.size) =
             IF Unity!Signed(u, style.size) < 0 THEN Unity!Signed(u, style.size) + 2 * h
                                                ELSE Unity!Signed(u, style.size)
    BY <1>2 DEF Reads, SameNumber
  <2> HIDE DEF s, u
  <2> QED
    BY <1>2, <2>1, <2>2
<1>4. /\ u \in 0 .. 2 * k - 1 /\ Unity!Unsigned(u, 4) = u
      /\ w = Widened(u, k) /\ w \in Int
      /\ style.size # 4 => w = u
  <2>1. u \in 0 .. 2 * k - 1
    BY <1>1, <1>2
  <2>2. Unity!Unsigned(u, 4) = u
    BY <2>1 DEF Reads, SameNumber
  <2>3. /\ Unity!Unsigned(u, 4) = IF w < 0 THEN w + 2 * k ELSE w
        /\ w \in -k .. k - 1
    BY <2>1 DEF Reads, SameNumber
  <2> QED
    BY <1>1, <1>2, <2>1, <2>2, <2>3 DEF Widened
<1>5. Unity!Unsigned(w, 4) = u
  <2>1. /\ w \in -k .. k - 1 /\ Unity!Signed(w, 4) = w
        /\ Unity!Unsigned(w, 4) =
             IF Unity!Signed(w, 4) < 0 THEN Unity!Signed(w, 4) + 2 * k ELSE Unity!Signed(w, 4)
    BY <1>4 DEF Reads, SameNumber
  <2> QED
    BY <1>4, <2>1 DEF Widened
<1>6. z = s
  <2>1. CASE style.size = 4
    BY <1>2, <1>4, <2>1 DEF Reads, SameNumber, Widened
  <2>2. CASE style.size # 4
    BY <1>3, <1>4, <2>2
  <2> QED
    BY <2>1, <2>2
<1> HIDE DEF s, u, w, z
<1>7. CASE style.range \in {"int", "char"}
  BY <1>1, <1>2, <1>3, <1>7
     DEF s, u, Unity!Value, Unity!Cast, Unity!EqualCast, Unity!Element, Unity!IsInt
<1>8. CASE style.range = "uint"
  BY <1>1, <1>2, <1>3, <1>4, <1>5, <1>6, <1>8
     DEF s, u, w, z, Unity!Value, Unity!Cast, Unity!EqualCast, Unity!Element, Unity!IsInt, Unity!INT
<1>9. CASE style.range = "hex"
  BY <1>1, <1>2, <1>3, <1>4, <1>5, <1>6, <1>9
     DEF s, u, w, z, Unity!Value, Unity!Cast, Unity!EqualCast, Unity!Element, Unity!IsInt, Unity!INT
<1> QED
  BY <1>1, <1>7, <1>8, <1>9

\* The difference of two signed numbers, as an unsigned one of 2 * k.
LEMMA Difference ==
  ASSUME NEW k \in Nat \ {0}, Reads(4, k), Turns(4, k), NEW v \in 0 .. 2 * k - 1, NEW w \in 0 .. v
  PROVE  /\ Unity!Unsigned(Widened(v, k) - Widened(w, k), 4) = v - w
         /\ Unity!Unsigned(v - w, 4) = v - w
<1> DEFINE d == Widened(v, k) - Widened(w, k)
<1>1. d \in Int /\ v - w \in 0 .. 2 * k - 1
  BY DEF Widened
<1>2. d = v - w \/ d = v - w - 2 * k
  BY DEF Widened
<1>3. Unity!Unsigned(v - w, 4) = v - w
  BY <1>1 DEF Reads, SameNumber
<1>4. CASE d = v - w
  BY <1>3, <1>4
<1>5. CASE d = v - w - 2 * k
  <2>1. Unity!Unsigned(d + 2 * k, 4) = Unity!Unsigned(d, 4)
    BY <1>1 DEF Turns
  <2>2. d + 2 * k = v - w
    BY <1>1, <1>5
  <2> QED
    BY <1>3, <2>1, <2>2
<1> QED
  BY <1>2, <1>3, <1>4, <1>5

\* Two numbers of a type, e and a, stand to each other as what u and w are
\* converted to.
Stands(style, u, w, e, a) ==
  /\ e \in Int /\ a \in Int
  /\ Unity!EqualCast(u, style) = Unity!EqualCast(w, style) <=> e = a
  /\ Unity!Element(u, style) = Unity!Element(w, style) <=> e = a
  /\ Unity!Element(Unity!Signed(Unity!EqualCast(u, style), style.size), style)
       = Unity!Element(u, style)
  /\ Unity!Cast(u, style) = Unity!Cast(w, style) <=> e = a
  /\ Unity!Above(Unity!Cast(u, style), Unity!Cast(w, style), style) <=> e > a
  /\ e >= a => Unity!Unsigned(Unity!Cast(u, style) - Unity!Cast(w, style), 4) = e - a

LEMMA Compared ==
  ASSUME NEW style \in Unity!Styles, NEW u \in Int, NEW w \in Int,
         NEW h \in Nat \ {0}, NEW k \in Nat \ {0},
         Reads(style.size, h), Reads(4, k), Turns(4, k),
         IF style.size = 4 THEN h = k ELSE 2 * h <= k,
         NEW e, e = Unity!Value(u, style), NEW a, a = Unity!Value(w, style)
  PROVE  Stands(style, u, w, e, a)
<1> DEFINE c(n) == Unity!Cast(n, style)
           q(n) == Unity!EqualCast(n, style)
           l(n) == Unity!Element(n, style)
           int == Unity!IsInt(style)
<1>1. int \in BOOLEAN
  BY DEF Unity!IsInt
<1>2. 2 * h <= 2 * k
  OBVIOUS
<1>3. /\ e \in Int
      /\ IF int THEN e \in -h .. h - 1 ELSE e \in 0 .. 2 * h - 1
      /\ c(u) = IF int THEN e ELSE Widened(e, k)
      /\ ~int => Unity!Unsigned(c(u), 4) = e
      /\ q(u) = CASE int -> e
                 [] style.range = "uint" -> Widened(e, k)
                 [] OTHER -> Widened(e, h)
      /\ l(u) = IF int \/ style.size # 4 THEN e ELSE Widened(e, k)
      /\ Unity!Element(Unity!Signed(q(u), style.size), style) = l(u)
  BY Conversions
<1>4. /\ a \in Int
      /\ IF int THEN a \in -h .. h - 1 ELSE a \in 0 .. 2 * h - 1
      /\ c(w) = IF int THEN a ELSE Widened(a, k)
      /\ ~int => Unity!Unsigned(c(w), 4) = a
      /\ q(w) = CASE int -> a
                 [] style.range = "uint" -> Widened(a, k)
                 [] OTHER -> Widened(a, h)
      /\ l(w) = IF int \/ style.size # 4 THEN a ELSE Widened(a, k)
  BY Conversions
<1>5. Unity!Above(c(u), c(w), style) <=> e > a
  BY <1>1, <1>3, <1>4 DEF Unity!Above, Unity!INT
<1> HIDE DEF c, q, l, int
<1>6. q(u) = q(w) <=> e = a
  BY <1>1, <1>2, <1>3, <1>4 DEF Widened
<1>7. (l(u) = l(w) <=> e = a) /\ (c(u) = c(w) <=> e = a)
  BY <1>1, <1>2, <1>3, <1>4 DEF Widened
<1>8. ASSUME e >= a PROVE Unity!Unsigned(c(u) - c(w), 4) = e - a
  <2>1. CASE int
    <3>1. c(u) - c(w) = e - a /\ e - a \in 0 .. 2 * k - 1
      BY <1>2, <1>3, <1>4, <1>8, <2>1
    <3> QED
      BY <3>1 DEF Reads, SameNumber
  <2>2. CASE ~int
    <3>1. e \in 0 .. 2 * k - 1 /\ a \in 0 .. e
      BY <1>2, <1>3, <1>4, <1>8, <2>2
    <3> QED
      BY <1>3, <1>4, <2>2, <3>1, Difference
  <2> QED
    BY <1>1, <2>1, <2>2
<1> QED
  BY <1>3, <1>4, <1>5, <1>6, <1>7, <1>8, Zenon DEF Stands, c, q, l

LEMMA InAnyType ==
  ASSUME Unity!UnityAssumption, NEW style \in Unity!Styles, NEW u \in Int, NEW w \in Int
  PROVE  Stands(style, u, w, Unity!Value(u, style), Unity!Value(w, style))
<1>1. style.size \in {1, 2, 4}
  BY DEF Unity!Styles, Unity!INT
<1>2. PICK h \in Nat \ {0}, k \in Nat \ {0} :
        /\ Reads(style.size, h) /\ Reads(4, k) /\ Turns(4, k)
        /\ IF style.size = 4 THEN h = k ELSE 2 * h <= k
  BY <1>1, ReadingBoth
<1>3. PICK e, a : e = Unity!Value(u, style) /\ a = Unity!Value(w, style)
  OBVIOUS
<1>4. Stands(style, u, w, e, a)
  BY <1>2, <1>3, Compared
<1> QED
  BY <1>3, <1>4

\* An array of two elements whose first is good.
LEMMA PairVerdict ==
  ASSUME NEW s, NEW t, s # Null, t # Null, NEW bad, bad \subseteq 1 .. 2, 1 \notin bad
  PROVE  Unity!ArrayVerdict(s, t, FALSE, 2, bad) =
           IF 2 \in bad THEN Unity!Verdict("element", 2) ELSE Unity!Verdict("pass", 0)
<1>1. CASE 2 \in bad
  <2>1. bad = {2}
    <3>1. \A m \in 1 .. 2 : m = 1 \/ m = 2
      OBVIOUS
    <3> QED
      BY <1>1, <3>1
  <2>2. Unity!Min({2}) = 2
    BY DEF Unity!Min
  <2> QED
    BY <2>1, <2>2 DEF Unity!ArrayVerdict
<1>2. CASE 2 \notin bad
  <2>1. bad = {}
    BY <1>2
  <2> QED
    BY <2>1 DEF Unity!ArrayVerdict
<1> QED
  BY <1>1, <1>2

\* The powers of two of a word of 32 bits.
LEMMA PowersOfTwo ==
  ASSUME NEW j \in 0 .. 31
  PROVE  2 ^ j \in Nat \ {0}
<1>1. j \in {0, 1, 2, 3, 4, 5, 6, 7, 8, 9, 10, 11, 12, 13, 14, 15,
              16, 17, 18, 19, 20, 21, 22, 23, 24, 25, 26, 27, 28, 29, 30, 31}
  OBVIOUS
<1>2. /\ 2 ^ 0 \in Nat \ {0} /\ 2 ^ 1 \in Nat \ {0} /\ 2 ^ 2 \in Nat \ {0} /\ 2 ^ 3 \in Nat \ {0}
      /\ 2 ^ 4 \in Nat \ {0} /\ 2 ^ 5 \in Nat \ {0}
      /\ 2 ^ 6 \in Nat \ {0} /\ 2 ^ 7 \in Nat \ {0}
      /\ 2 ^ 8 \in Nat \ {0} /\ 2 ^ 9 \in Nat \ {0}
      /\ 2 ^ 10 \in Nat \ {0} /\ 2 ^ 11 \in Nat \ {0}
      /\ 2 ^ 12 \in Nat \ {0} /\ 2 ^ 13 \in Nat \ {0}
      /\ 2 ^ 14 \in Nat \ {0} /\ 2 ^ 15 \in Nat \ {0}
      /\ 2 ^ 16 \in Nat \ {0} /\ 2 ^ 17 \in Nat \ {0}
      /\ 2 ^ 18 \in Nat \ {0} /\ 2 ^ 19 \in Nat \ {0}
      /\ 2 ^ 20 \in Nat \ {0} /\ 2 ^ 21 \in Nat \ {0}
      /\ 2 ^ 22 \in Nat \ {0} /\ 2 ^ 23 \in Nat \ {0}
      /\ 2 ^ 24 \in Nat \ {0} /\ 2 ^ 25 \in Nat \ {0}
      /\ 2 ^ 26 \in Nat \ {0} /\ 2 ^ 27 \in Nat \ {0}
      /\ 2 ^ 28 \in Nat \ {0} /\ 2 ^ 29 \in Nat \ {0}
      /\ 2 ^ 30 \in Nat \ {0} /\ 2 ^ 31 \in Nat \ {0}
  OBVIOUS
<1> QED
  BY <1>1, <1>2, Zenon

LEMMA BitFacts ==
  ASSUME Unity!UnityAssumption, NEW n \in Int, NEW j \in 0 .. 4 * BYTE - 1
  PROVE  Unity!BitOf(n, j) \in {0, 1}
<1>1. PICK k \in Nat \ {0} : Reads(4, k)
  BY Reading
<1>2. PICK u \in Int : u = Unity!Unsigned(n, 4)
  BY <1>1 DEF Reads, SameNumber
<1>3. 2 ^ j \in Nat \ {0}
  <2>1. j \in 0 .. 31
    BY DEF Unity!UnityAssumption
  <2> QED
    BY <2>1, PowersOfTwo
<1>4. u \div (2 ^ j) \in Int
  BY <1>2, <1>3
<1> QED
  BY <1>2, <1>4 DEF Unity!BitOf, Unity!INT

LEMMA ReadTypes ==
  ASSUME NEW size, NEW h \in Nat, Reads(size, h), NEW n \in Int
  PROVE  Unity!Signed(n, size) \in Int /\ Unity!Unsigned(n, size) \in Nat
BY DEF Reads, SameNumber

\* What the comparisons allow.
LEMMA Allowed ==
  ASSUME NEW c \in Unity!Comparisons, NEW e \in Int, NEW a \in Int
  PROVE  /\ "greater" \in c \/ "smaller" \in c <=> c # {}
         /\ ~("greater" \in c /\ "smaller" \in c)
         /\ Unity!Relation(c, e, a) \in BOOLEAN
         /\ Unity!Relation(c, e, a) <=>
              \/ c = {} /\ a # e
              \/ "greater" \in c /\ a > e
              \/ "smaller" \in c /\ a < e
              \/ "equal" \in c /\ a = e
<1>1. /\ {"greater"} # {} /\ {"smaller"} # {} /\ {"greater", "equal"} # {}
      /\ {"smaller", "equal"} # {} /\ {"greater"} # {"smaller"}
      /\ {"greater"} # {"greater", "equal"} /\ {"smaller"} # {"greater", "equal"}
      /\ {"greater"} # {"smaller", "equal"} /\ {"smaller"} # {"smaller", "equal"}
      /\ {"greater", "equal"} # {"smaller", "equal"}
  OBVIOUS
<1>2. CASE c = {}
  BY <1>2 DEF Unity!Relation
<1>3. CASE c = {"greater"}
  BY <1>1, <1>3 DEF Unity!Relation
<1>4. CASE c = {"smaller"}
  BY <1>1, <1>4 DEF Unity!Relation
<1>5. CASE c = {"greater", "equal"}
  BY <1>1, <1>5 DEF Unity!Relation
<1>6. CASE c = {"smaller", "equal"}
  <2>1. /\ c # {} /\ c # {"greater"} /\ c # {"smaller"} /\ c # {"greater", "equal"}
        /\ "smaller" \in c /\ "equal" \in c /\ "greater" \notin c
    BY <1>1, <1>6
  <2>2. Unity!Relation(c, e, a) \in BOOLEAN /\ (Unity!Relation(c, e, a) <=> a <= e)
    <3>1. Unity!Relation(c, e, a) = (a <= e)
      BY <2>1, Zenon DEF Unity!Relation
    <3>2. CASE a <= e
      BY <3>1, <3>2
    <3>3. CASE ~(a <= e)
      <4>1. (a <= e) = FALSE
        BY <3>3
      <4>2. Unity!Relation(c, e, a) = FALSE
        BY <3>1, <4>1, Zenon
      <4> QED
        BY <3>3, <4>2
    <3> QED
      BY <3>2, <3>3, Zenon
  <2>3. a <= e <=> a < e \/ a = e
    OBVIOUS
  <2> QED
    BY <2>1, <2>2, <2>3, Zenon
<1> QED
  BY <1>2, <1>3, <1>4, <1>5, <1>6 DEF Unity!Comparisons

\* Sequences of one and two numbers are no null pointers.
LEMMA NoNull ==
  ASSUME Unity!UnityAssumption, NEW n \in Int, NEW m \in Int
  PROVE  <<n>> # Null /\ <<n, m>> # Null
<1>1. <<n>> \in Seq(Int) /\ <<n, m>> \in Seq(Int)
  OBVIOUS
<1>2. Null \notin Seq(Int)
  BY Zenon DEF Unity!UnityAssumption
<1> QED
  BY <1>1, <1>2, Zenon

\* The assertions about numbers.
LEMMA NumbersRight ==
  ASSUME Unity!UnityAssumption, NEW style \in Unity!Styles,
         NEW u \in Int, NEW w \in Int, NEW delta \in Int
  PROVE  Unity!NumbersJudged(style, u, w, delta)
<1>1. style.size \in {1, 2, 4} /\ Unity!IsInt(style) \in BOOLEAN
  BY DEF Unity!Styles, Unity!INT, Unity!IsInt
<1>2. PICK h \in Nat \ {0}, k \in Nat \ {0} :
        /\ Reads(style.size, h) /\ Reads(4, k) /\ Turns(4, k)
        /\ IF style.size = 4 THEN h = k ELSE 2 * h <= k
  BY <1>1, ReadingBoth
<1>3. \A n \in Int : /\ Unity!Signed(n, style.size) \in Int
                      /\ Unity!Unsigned(n, style.size) \in Int
                      /\ Unity!Signed(n, 4) \in Int
  <2> TAKE n \in Int
  <2>1. Unity!Signed(n, style.size) \in Int /\ Unity!Unsigned(n, style.size) \in Nat
    BY <1>2, ReadTypes
  <2>2. Unity!Signed(n, 4) \in Int
    BY <1>2, ReadTypes
  <2> QED
    BY <2>1, <2>2
<1> DEFINE e == Unity!Value(u, style)
           a == Unity!Value(w, style)
           d == Unity!Unsigned(delta, style.size)
           near == Unity!Size(e - a) <= d
           cu == Unity!Cast(u, style)
           cw == Unity!Cast(w, style)
           pass == Unity!Verdict("pass", 0)
           second == Unity!Verdict("element", 2)
<1>4. d \in Nat
  BY <1>2, ReadTypes
<1>5. /\ e \in Int /\ a \in Int
      /\ Unity!EqualCast(u, style) = Unity!EqualCast(w, style) <=> e = a
      /\ Unity!Element(u, style) = Unity!Element(w, style) <=> e = a
      /\ Unity!Element(Unity!Signed(Unity!EqualCast(u, style), style.size), style)
           = Unity!Element(u, style)
      /\ cu = cw <=> e = a
      /\ Unity!Above(cu, cw, style) <=> e > a
      /\ e >= a => Unity!Unsigned(cu - cw, 4) = e - a
  BY InAnyType, Zenon DEF Stands
<1>6. /\ Unity!Above(cw, cu, style) <=> a > e
      /\ a >= e => Unity!Unsigned(cw - cu, 4) = a - e
  BY InAnyType, Zenon DEF Stands
<1>7. /\ Unity!Above(cw, cw, style) <=> a > a
      /\ a >= a => Unity!Unsigned(cw - cw, 4) = a - a
  BY InAnyType, Zenon DEF Stands
<1> HIDE DEF e, a, d, cu, cw
<1>8. Unity!NumberFails(Unity!EqualCast(u, style), Unity!EqualCast(w, style)) = (e # a)
  BY <1>5 DEF Unity!NumberFails
<1>9. ASSUME NEW c \in Unity!Comparisons
      PROVE  Unity!OrderFails(cu, cw, c, style) = ~Unity!Relation(c, e, a)
  <2>1. Unity!OrderFails(cu, cw, c, style) <=>
          /\ ~(e = a /\ "equal" \in c)
          /\ e = a \/ (a > e /\ "smaller" \in c) \/ (e > a /\ "greater" \in c)
    BY <1>5, <1>6, Zenon DEF Unity!OrderFails
  <2>2. Unity!OrderFails(cu, cw, c, style) <=> ~Unity!Relation(c, e, a)
    <3>1. /\ ("greater" \in c \/ "smaller" \in c <=> c # {})
          /\ ~("greater" \in c /\ "smaller" \in c)
          /\ Unity!Relation(c, e, a) <=>
               \/ c = {} /\ a # e
               \/ "greater" \in c /\ a > e
               \/ "smaller" \in c /\ a < e
               \/ "equal" \in c /\ a = e
      BY <1>5, Allowed
    <3>2. CASE e = a
      BY <1>5, <2>1, <3>1, <3>2
    <3>3. CASE e > a
      BY <1>5, <2>1, <3>1, <3>3
    <3>4. CASE a > e
      BY <1>5, <2>1, <3>1, <3>4
    <3> QED
      BY <1>5, <3>2, <3>3, <3>4
  <2>3. Unity!OrderFails(cu, cw, c, style) \in BOOLEAN
    BY Zenon DEF Unity!OrderFails
  <2>4. Unity!Relation(c, e, a) \in BOOLEAN
    BY <1>5, Allowed
  <2> QED
    BY <2>2, <2>3, <2>4
<1>10. Unity!WithinFails(d, cu, cw, style) = ~near
  BY <1>4, <1>5, <1>6 DEF Unity!WithinFails, Unity!Size, Unity!INT
<1>11. ~Unity!WithinFails(d, cw, cw, style)
  BY <1>4, <1>5, <1>7 DEF Unity!WithinFails, Unity!INT
<1>12. Unity!IntArray(<<u, u>>, <<u, w>>, FALSE, 2, style, "array") = IF e = a THEN pass ELSE second
  <2> DEFINE bad == {j \in 1 .. 2 : Unity!Element(Unity!Expected(<<u, u>>, j, "array"), style)
                                      # Unity!Element(<<u, w>>[j], style)}
  <2>1. bad \subseteq 1 .. 2 /\ 1 \notin bad /\ (2 \in bad <=> e # a)
    BY <1>5 DEF Unity!Expected
  <2>2. <<u, u>> # Null /\ <<u, w>> # Null
    BY NoNull
  <2>3. Unity!IntArray(<<u, u>>, <<u, w>>, FALSE, 2, style, "array")
          = Unity!ArrayVerdict(<<u, u>>, <<u, w>>, FALSE, 2, bad)
    BY Zenon DEF Unity!IntArray
  <2> HIDE DEF bad
  <2>4. Unity!ArrayVerdict(<<u, u>>, <<u, w>>, FALSE, 2, bad) = IF 2 \in bad THEN second ELSE pass
    BY <2>1, <2>2, PairVerdict, Zenon
  <2> QED
    BY <2>1, <2>3, <2>4, Zenon
<1>13. Unity!EachEqual(u, <<u, w>>, 2, style) = IF e = a THEN pass ELSE second
  <2> DEFINE one == Unity!Signed(Unity!EqualCast(u, style), style.size)
             bad == {j \in 1 .. 2 : Unity!Element(Unity!Expected(<<one>>, j, "value"), style)
                                      # Unity!Element(<<u, w>>[j], style)}
  <2>1. bad \subseteq 1 .. 2 /\ 1 \notin bad /\ (2 \in bad <=> e # a)
    BY <1>5 DEF Unity!Expected
  <2>2. <<one>> # Null /\ <<u, w>> # Null
    <3>1. one \in Int
      <4>1. Unity!EqualCast(u, style) \in Int
        BY <1>3, Zenon DEF Unity!EqualCast, Unity!INT
      <4> QED
        BY <1>3, <4>1, Zenon
    <3> HIDE DEF one
    <3> QED
      BY <3>1, NoNull
  <2>3. Unity!EachEqual(u, <<u, w>>, 2, style)
          = Unity!ArrayVerdict(<<one>>, <<u, w>>, FALSE, 2, bad)
    BY Zenon DEF Unity!EachEqual, Unity!NumToPtr, Unity!IntArray
  <2> HIDE DEF bad, one
  <2>4. Unity!ArrayVerdict(<<one>>, <<u, w>>, FALSE, 2, bad) = IF 2 \in bad THEN second ELSE pass
    BY <2>1, <2>2, PairVerdict, Zenon
  <2> QED
    BY <2>1, <2>3, <2>4, Zenon
<1>14. Unity!ArrayWithin(d, <<w, u>>, <<w, w>>, FALSE, 2, style, "array")
         = IF near THEN pass ELSE second
  <2> DEFINE bad == {j \in 1 .. 2 : Unity!WithinFails(d,
                       Unity!Cast(Unity!Expected(<<w, u>>, j, "array"), style),
                       Unity!Cast(<<w, w>>[j], style), style)}
  <2>1. bad \subseteq 1 .. 2 /\ 1 \notin bad /\ (2 \in bad <=> ~near)
    <3>1. <<w, u>>[1] = w /\ <<w, u>>[2] = u /\ <<w, w>>[1] = w /\ <<w, w>>[2] = w
      OBVIOUS
    <3>2. 1 \in 1 .. 2 /\ 2 \in 1 .. 2
      OBVIOUS
    <3>3. 1 \in bad <=> Unity!WithinFails(d, cw, cw, style)
      BY <3>1, <3>2, Zenon DEF Unity!Expected, cw
    <3>4. 2 \in bad <=> Unity!WithinFails(d, cu, cw, style)
      BY <3>1, <3>2, Zenon DEF Unity!Expected, cu, cw
    <3> QED
      BY <1>10, <1>11, <3>3, <3>4, Zenon
  <2>2. <<w, u>> # Null /\ <<w, w>> # Null
    BY NoNull
  <2>3. Unity!ArrayWithin(d, <<w, u>>, <<w, w>>, FALSE, 2, style, "array")
          = Unity!ArrayVerdict(<<w, u>>, <<w, w>>, FALSE, 2, bad)
    BY Zenon DEF Unity!ArrayWithin
  <2> HIDE DEF bad
  <2>4. Unity!ArrayVerdict(<<w, u>>, <<w, w>>, FALSE, 2, bad) = IF 2 \in bad THEN second ELSE pass
    BY <2>1, <2>2, PairVerdict, Zenon
  <2> QED
    BY <2>1, <2>3, <2>4, Zenon
<1>15. Unity!BitsFail(delta, u, w) =
         (\E j \in 0 .. Unity!INT * BYTE - 1 :
            Unity!BitOf(delta, j) = 1 /\ Unity!BitOf(u, j) + Unity!BitOf(w, j) = 1)
  <2>1. ASSUME NEW j \in 0 .. Unity!INT * BYTE - 1
        PROVE  Unity!BitOf(u, j) # Unity!BitOf(w, j) <=> Unity!BitOf(u, j) + Unity!BitOf(w, j) = 1
    BY BitFacts DEF Unity!INT
  <2> QED
    BY <2>1, Zenon DEF Unity!BitsFail
<1> QED
  BY <1>8, <1>9, <1>10, <1>12, <1>13, <1>14, <1>15, Zenon DEF Unity!NumbersJudged, e, a, d, cu, cw

LEMMA LeastRead ==
  ASSUME NEW S \in SUBSET Int, NEW m \in S, \A e \in S : m <= e
  PROVE  Unity!Min(S) = m
<1>1. Unity!Min(S) = Form!Min(S)
  BY DEF Unity!Min, Form!Min
<1> QED
  BY <1>1, LeastOf

\* Strings are sequences of characters, none of them zero.
Chars == Nat \ {0}

LEMMA CharFacts ==
  ASSUME NEW s \in Seq(Chars), NEW j \in Nat \ {0}
  PROVE  Unity!CharAt(s, j) \in Nat /\ (Unity!CharAt(s, j) = 0 <=> j > Len(s))
BY DEF Unity!CharAt, Chars

\* Where two strings, as far as they are compared, have other characters.
Differing(s, t, length) ==
  {j \in 1 .. length : Unity!CharAt(s, j) # Unity!CharAt(t, j)}

\* The scan ends at a difference, at the end of both, or past the length, and
\* not behind the end of the shorter string.
LEMMA ScanFacts ==
  ASSUME NEW s \in Seq(Chars), NEW t \in Seq(Chars), NEW length \in Nat
  PROVE  LET m == Unity!ScanEnd(s, t, length)
         IN /\ m \in 1 .. length + 1
            /\ m \in Differing(s, t, length) <=> Differing(s, t, length) # {}
            /\ m <= length => m <= Len(s) + 1 /\ m <= Len(t) + 1
<1> DEFINE D == {j \in 1 .. length : \/ Unity!CharAt(s, j) # Unity!CharAt(t, j)
                                    \/ {Unity!CharAt(s, j), Unity!CharAt(t, j)} = {0}}
           S == {length + 1} \cup D
<1>1. S \in SUBSET Nat /\ S \in SUBSET Int /\ S # {}
  OBVIOUS
<1>2. ASSUME NEW j \in 1 .. length
      PROVE  j \in D <=> \/ Unity!CharAt(s, j) # Unity!CharAt(t, j)
                         \/ j > Len(s) /\ j > Len(t)
  <2>1. {Unity!CharAt(s, j), Unity!CharAt(t, j)} = {0} <=>
          Unity!CharAt(s, j) = 0 /\ Unity!CharAt(t, j) = 0
    OBVIOUS
  <2>2. /\ Unity!CharAt(s, j) = 0 <=> j > Len(s)
        /\ Unity!CharAt(t, j) = 0 <=> j > Len(t)
    BY CharFacts
  <2> QED
    BY <2>1, <2>2
<1>3. D \subseteq 1 .. length
  OBVIOUS
<1> HIDE DEF D
<1>4. PICK m \in S : \A j \in S : m <= j
  BY <1>1, LeastNumber
<1>5. Unity!ScanEnd(s, t, length) = m
  <2>1. Unity!ScanEnd(s, t, length) = Unity!Min(S)
    BY DEF Unity!ScanEnd, D
  <2> HIDE DEF S
  <2>2. Unity!Min(S) = m
    BY <1>1, <1>4, LeastRead
  <2> QED
    BY <2>1, <2>2
<1>6. m \in 1 .. length + 1 /\ (m \in D \/ m = length + 1)
  BY <1>3, <1>4
<1>7. ASSUME NEW j \in Differing(s, t, length) PROVE m \in Differing(s, t, length)
  <2>1. j \in 1 .. length /\ j \in D /\ Unity!CharAt(s, j) # Unity!CharAt(t, j)
    BY <1>2 DEF Differing
  <2>2. m <= j /\ m \in 1 .. length /\ m \in D
    BY <1>4, <1>6, <2>1
  <2>3. j <= Len(s) \/ j <= Len(t)
    BY <2>1, CharFacts
  <2>4. Unity!CharAt(s, m) # Unity!CharAt(t, m)
    BY <1>2, <2>1, <2>2, <2>3
  <2> QED
    BY <2>2, <2>4 DEF Differing
<1>8. ASSUME m <= length PROVE m <= Len(s) + 1 /\ m <= Len(t) + 1
  <2>1. ASSUME NEW u \in Nat, u = Len(s) \/ u = Len(t), m > u + 1 PROVE FALSE
    <3>1. u + 1 \in 1 .. length /\ u + 1 \notin D
      BY <1>4, <1>6, <1>8, <2>1
    <3>2. Unity!CharAt(s, u + 1) = Unity!CharAt(t, u + 1) /\ ~(u + 1 > Len(s) /\ u + 1 > Len(t))
      BY <1>2, <3>1
    <3> QED
      BY <2>1, <3>1, <3>2, CharFacts
  <2> QED
    BY <1>6, <2>1
<1> QED
  BY <1>5, <1>6, <1>7, <1>8

Shorter(a, b) == IF a < b THEN a ELSE b

\* Strings cut to a length are the same when they have no other characters.
LEMMA CutSame ==
  ASSUME NEW s \in Seq(Chars), NEW t \in Seq(Chars), NEW length \in Nat
  PROVE  SubSeq(s, 1, Shorter(Len(s), length)) = SubSeq(t, 1, Shorter(Len(t), length))
           <=> Differing(s, t, length) = {}
<1>0. PICK m \in Nat, n \in Nat : m = Shorter(Len(s), length) /\ n = Shorter(Len(t), length)
  BY DEF Shorter
<1> USE <1>0 DEF Shorter
<1>1. /\ Len(SubSeq(s, 1, m)) = m /\ \A j \in 1 .. m : SubSeq(s, 1, m)[j] = s[j]
      /\ Len(SubSeq(t, 1, n)) = n /\ \A j \in 1 .. n : SubSeq(t, 1, n)[j] = t[j]
  OBVIOUS
<1>2. ASSUME NEW j \in 1 .. length
      PROVE  /\ Unity!CharAt(s, j) = IF j <= m THEN s[j] ELSE 0
             /\ Unity!CharAt(t, j) = IF j <= n THEN t[j] ELSE 0
  BY DEF Unity!CharAt
<1>3. ASSUME SubSeq(s, 1, m) = SubSeq(t, 1, n) PROVE Differing(s, t, length) = {}
  <2>1. m = n /\ \A j \in 1 .. m : s[j] = t[j]
    BY <1>1, <1>3
  <2>2. ASSUME NEW j \in 1 .. length PROVE Unity!CharAt(s, j) = Unity!CharAt(t, j)
    BY <1>2, <2>1
  <2> QED
    BY <2>2 DEF Differing
<1>4. ASSUME Differing(s, t, length) = {} PROVE SubSeq(s, 1, m) = SubSeq(t, 1, n)
  <2>1. ASSUME NEW j \in 1 .. length PROVE Unity!CharAt(s, j) = Unity!CharAt(t, j)
    BY <1>4 DEF Differing
  <2>2. m = n
    <3>1. ASSUME m < n PROVE FALSE
      <4>1. m + 1 \in 1 .. length /\ m + 1 > Len(s) /\ m + 1 <= Len(t)
        BY <3>1
      <4> QED
        BY <2>1, <4>1, CharFacts
    <3>2. ASSUME n < m PROVE FALSE
      <4>1. n + 1 \in 1 .. length /\ n + 1 <= Len(s) /\ n + 1 > Len(t)
        BY <3>2
      <4> QED
        BY <2>1, <4>1, CharFacts
    <3> QED
      BY <3>1, <3>2
  <2>3. \A j \in 1 .. m : j \in 1 .. length /\ s[j] = t[j]
    BY <1>2, <2>1, <2>2
  <2> QED
    BY <1>1, <2>2, <2>3
<1> QED
  BY <1>3, <1>4

LEMMA LeastOfTwo ==
  ASSUME NEW a \in Int, NEW b \in Int
  PROVE  /\ Unity!Min({a, b}) = Shorter(a, b)
         /\ Unity!Max({a, b}) = IF a < b THEN b ELSE a
<1>1. PICK m \in {a, b} : m = Shorter(a, b) /\ \A e \in {a, b} : m <= e
  BY DEF Shorter
<1>2. Unity!Min({a, b}) = m
  BY <1>1, LeastRead
<1>3. PICK n \in {a, b} : n = IF a < b THEN b ELSE a
  OBVIOUS
<1>4. Unity!Max({a, b}) = n
  <2> DEFINE P(e) == e \in {a, b} /\ \A f \in {a, b} : e >= f
  <2>1. \A e : P(e) => e = n
    BY <1>3
  <2>2. P(n)
    BY <1>3
  <2>3. Unity!Max({a, b}) = CHOOSE e : P(e)
    BY DEF Unity!Max
  <2> HIDE DEF P
  <2> QED
    BY <2>1, <2>2, <2>3
<1> QED
  BY <1>1, <1>2, <1>3, <1>4

\* The assertions about strings and memory.
LEMMA StringsRight ==
  ASSUME Unity!UnityAssumption, NEW s \in Seq(Chars), NEW t \in Seq(Chars), NEW length \in Nat
  PROVE  Unity!TextsJudged(s, t, length)
<1> DEFINE cut(u) == SubSeq(u, 1, Unity!Min({Len(u), length}))
           same == cut(s) = cut(t)
           padded(u) == [j \in 1 .. length |-> Unity!CharAt(u, j)]
           m == Unity!ScanEnd(s, t, length)
           pass == Unity!Verdict("pass", 0)
           second == Unity!Verdict("element", 2)
<1>1. Len(s) \in Nat /\ Len(t) \in Nat
  OBVIOUS
<1>2. same <=> Differing(s, t, length) = {}
  <2>1. /\ Unity!Min({Len(s), length}) = Shorter(Len(s), length)
        /\ Unity!Min({Len(t), length}) = Shorter(Len(t), length)
    BY <1>1, LeastOfTwo
  <2>2. /\ cut(s) = SubSeq(s, 1, Shorter(Len(s), length))
        /\ cut(t) = SubSeq(t, 1, Shorter(Len(t), length))
    BY <2>1, Zenon
  <2>3. SubSeq(s, 1, Shorter(Len(s), length)) = SubSeq(t, 1, Shorter(Len(t), length))
          <=> Differing(s, t, length) = {}
    BY CutSame
  <2> HIDE DEF cut
  <2> QED
    BY <2>2, <2>3
<1>3. /\ m \in 1 .. length + 1
      /\ m \in Differing(s, t, length) <=> Differing(s, t, length) # {}
      /\ m <= length => m <= Len(s) + 1 /\ m <= Len(t) + 1
  BY ScanFacts
<1>4. s # Null /\ t # Null
  <2>1. s \in Seq(Int) /\ t \in Seq(Int)
    BY DEF Chars
  <2> QED
    BY <2>1, Zenon DEF Unity!UnityAssumption
<1>5. Unity!StringFails(s, t, length) = ~same
  <2>1. Unity!StringFails(s, t, length)
          = (m <= length /\ Unity!CharAt(s, m) # Unity!CharAt(t, m))
    BY <1>4, Zenon DEF Unity!StringFails
  <2> HIDE DEF m, same
  <2>2. m <= length /\ Unity!CharAt(s, m) # Unity!CharAt(t, m) <=> m \in Differing(s, t, length)
    BY <1>3 DEF Differing
  <2>3. m <= length /\ Unity!CharAt(s, m) # Unity!CharAt(t, m) <=> ~same
    BY <1>2, <1>3, <2>2
  <2> QED
    BY <2>1, <2>3
<1>6. ~Unity!StringFails(s, s, length)
  BY <1>4, Zenon DEF Unity!StringFails
<1>7. \/ m <= Unity!Max({Unity!Min({Len(s), Len(t)}) + 1, 1})
      \/ m = length + 1
  <2>1. PICK n \in Nat : n = Shorter(Len(s), Len(t))
    BY <1>1 DEF Shorter
  <2>2. Unity!Min({Len(s), Len(t)}) = n
    BY <1>1, <2>1, LeastOfTwo
  <2>3. Unity!Max({n + 1, 1}) = n + 1
    <3>1. n + 1 \in Int /\ 1 \in Int /\ ~(n + 1 < 1)
      BY <2>1
    <3>2. Unity!Max({n + 1, 1}) = IF n + 1 < 1 THEN 1 ELSE n + 1
      BY <3>1, LeastOfTwo, Zenon
    <3> QED
      BY <3>1, <3>2
  <2>4. m <= n + 1 \/ m = length + 1
    BY <1>1, <1>3, <2>1 DEF Shorter
  <2> QED
    BY <2>2, <2>3, <2>4
<1>8. /\ Unity!StringFails(s, Null, length) /\ Unity!StringFails(Null, s, length)
      /\ ~Unity!StringFails(Null, Null, length)
  BY <1>4, Zenon DEF Unity!StringFails
<1>9. Unity!StringArray(<<s, s>>, <<s, t>>, FALSE, 2, "array", length) =
        IF same THEN pass ELSE second
  <2> DEFINE bad == {j \in 1 .. 2 :
                       Unity!StringFails(Unity!Expected(<<s, s>>, j, "array"), <<s, t>>[j], length)}
  <2>1. /\ <<s, s>>[1] = s /\ <<s, s>>[2] = s /\ <<s, t>>[1] = s /\ <<s, t>>[2] = t
        /\ 1 \in 1 .. 2 /\ 2 \in 1 .. 2
    OBVIOUS
  <2>2. bad \subseteq 1 .. 2 /\ 1 \notin bad /\ (2 \in bad <=> ~same)
    BY <1>5, <1>6, <2>1, Zenon DEF Unity!Expected
  <2>3. <<s, s>> # Null /\ <<s, t>> # Null
    <3>1. s \in Seq(Int) /\ t \in Seq(Int)
      BY DEF Chars
    <3>2. <<s, s>> \in Seq(Seq(Int)) /\ <<s, t>> \in Seq(Seq(Int))
      BY <3>1
    <3> QED
      BY <3>2, Zenon DEF Unity!UnityAssumption
  <2>4. Unity!StringArray(<<s, s>>, <<s, t>>, FALSE, 2, "array", length)
          = Unity!ArrayVerdict(<<s, s>>, <<s, t>>, FALSE, 2, bad)
    BY Zenon DEF Unity!StringArray
  <2> HIDE DEF bad, same
  <2>5. Unity!ArrayVerdict(<<s, s>>, <<s, t>>, FALSE, 2, bad) = IF 2 \in bad THEN second ELSE pass
    BY <2>2, <2>3, PairVerdict, Zenon
  <2> QED
    BY <2>2, <2>4, <2>5, Zenon
<1>10. ASSUME length > 0
       PROVE  (Unity!Memory(padded(s), padded(t), FALSE, length, 1, "array").why = "pass") = same
  <2> DEFINE a == padded(s)
             b == padded(t)
             bad == {k \in 1 .. 1 * length : a[k] # b[k]}
  <2>1. bad = Differing(s, t, length)
    BY DEF Differing
  <2>2. a # Null /\ b # Null
    <3>1. a \in Seq(Int) /\ b \in Seq(Int)
      BY CharFacts
    <3> QED
      BY <3>1, Zenon DEF Unity!UnityAssumption
  <2> HIDE DEF a, b
  <2>3. Unity!Memory(a, b, FALSE, length, 1, "array")
          = IF bad = {} THEN pass ELSE Unity!Verdict("byte", Unity!Min(bad))
    BY <1>10, <2>2 DEF Unity!Memory
  <2> HIDE DEF bad, same
  <2>4. Unity!Memory(a, b, FALSE, length, 1, "array").why = IF bad = {} THEN "pass" ELSE "byte"
    <3>1. Unity!Verdict("byte", Unity!Min(bad)).why = "byte" /\ pass.why = "pass"
      BY DEF Unity!Verdict
    <3> HIDE DEF pass
    <3> QED
      BY <2>3, <3>1
  <2>5. (Unity!Memory(a, b, FALSE, length, 1, "array").why = "pass") <=> same
    BY <1>2, <2>1, <2>4
  <2> QED
    BY <2>5 DEF a, b, same
<1> QED
  BY <1>5, <1>7, <1>8, <1>9, <1>10, Zenon DEF Unity!TextsJudged

-----------------------------------------------------------------------------
(* Floats.                                                                 *)

LEMMA FloatShape ==
  ASSUME NEW v \in FloatValues
  PROVE  /\ v.v \in Int /\ v.kind \in {"nan", "inf", "fin"}
         /\ v.kind = "nan" => v.v = 0
         /\ v.kind = "inf" => v.v = 1 \/ v.v = -1
         /\ v = [kind |-> v.kind, v |-> v.v]
BY DEF FloatValues, Unity!NaN, Unity!Infinite

\* Two floats are equal, or near enough.
Near(v, w, d) ==
  \/ v = w
  \/ Unity!Determinate(v) /\ Unity!Determinate(w) /\ Unity!Distance(v, w) <= d

LEMMA DistanceFacts ==
  ASSUME Unity!UnityAssumption, NEW v \in FloatValues, NEW w \in FloatValues
  PROVE  /\ Unity!Distance(v, w) \in Nat /\ Unity!Distance(v, w) = Unity!Distance(w, v)
         /\ v = w => Unity!Distance(v, w) = 0
<1>1. v.v \in Int /\ w.v \in Int /\ PRECISION \in Nat
  BY FloatShape DEF Unity!UnityAssumption
<1>2. PICK n \in Nat : n = Unity!Size(v.v - w.v)
  BY <1>1 DEF Unity!Size
<1>3. Unity!Size(w.v - v.v) = n
  BY <1>1, <1>2 DEF Unity!Size
<1>4. n * PRECISION \in Nat
  BY <1>1
<1>5. v = w => n = 0
  BY <1>1, <1>2 DEF Unity!Size
<1>6. Unity!Distance(v, w) = n * PRECISION /\ Unity!Distance(w, v) = n * PRECISION
  BY <1>2, <1>3, Zenon DEF Unity!Distance
<1> QED
  BY <1>1, <1>4, <1>5, <1>6

LEMMA SameFloat ==
  ASSUME NEW v \in FloatValues, NEW w \in FloatValues
  PROVE  v = w <=> v.kind = w.kind /\ v.v = w.v
BY FloatShape

\* How near two floats have to be is told by a number; by one that is none
\* or infinite only if they are infinite or no numbers themselves.
LEMMA Within ==
  ASSUME Unity!UnityAssumption, NEW v \in FloatValues, NEW w \in FloatValues,
         NEW d, d.kind = "fin", Unity!Size(d.v) \in Nat
  PROVE  Unity!FloatsWithin(d, v, w) <=> Near(v, w, Unity!Size(d.v))
<1>1. /\ Unity!Distance(w, v) = Unity!Distance(v, w) /\ Unity!Distance(v, w) \in Nat
      /\ v = w => Unity!Distance(v, w) = 0
  BY DistanceFacts
<1>2. PICK n \in Nat, m \in Nat : n = Unity!Size(d.v) /\ m = Unity!Distance(v, w)
  BY <1>1
<1>3. Unity!FloatsWithin(d, v, w) <=>
        \/ v.kind = "inf" /\ w.kind = "inf" /\ (v.v < 0) = (w.v < 0)
        \/ v.kind = "nan" /\ w.kind = "nan"
        \/ v.kind = "fin" /\ w.kind = "fin" /\ m <= n
  BY <1>1, <1>2, Zenon DEF Unity!FloatsWithin
<1>4. v.kind = "inf" /\ w.kind = "inf" => (v = w <=> (v.v < 0) = (w.v < 0))
  BY FloatShape, SameFloat
<1>5. v.kind = "nan" /\ w.kind = "nan" => v = w
  BY FloatShape, SameFloat
<1>6. v = w => v.kind = w.kind /\ m <= n
  BY <1>1, <1>2
<1>7. v.kind \in {"nan", "inf", "fin"} /\ w.kind \in {"nan", "inf", "fin"}
  BY FloatShape
<1>8. Near(v, w, Unity!Size(d.v)) <=> v = w \/ (v.kind = "fin" /\ w.kind = "fin" /\ m <= n)
  BY <1>2, Zenon DEF Near, Unity!Determinate
<1> QED
  BY <1>3, <1>4, <1>5, <1>6, <1>7, <1>8

LEMMA WithinOdd ==
  ASSUME Unity!UnityAssumption, NEW v \in FloatValues, NEW w \in FloatValues, NEW d, NEW n,
         v.kind # "fin"
  PROVE  Unity!FloatsWithin(d, v, w) <=> Near(v, w, n)
<1>1. Unity!FloatsWithin(d, v, w) <=>
        \/ v.kind = "inf" /\ w.kind = "inf" /\ (v.v < 0) = (w.v < 0)
        \/ v.kind = "nan" /\ w.kind = "nan"
  BY Zenon DEF Unity!FloatsWithin
<1>2. v.kind = "inf" /\ w.kind = "inf" => (v = w <=> (v.v < 0) = (w.v < 0))
  BY FloatShape, SameFloat
<1>3. v.kind = "nan" /\ w.kind = "nan" => v = w
  BY FloatShape, SameFloat
<1>4. v.kind \in {"nan", "inf", "fin"} /\ w.kind \in {"nan", "inf", "fin"}
  BY FloatShape
<1>5. Near(v, w, n) <=> v = w
  BY Zenon DEF Near, Unity!Determinate
<1> QED
  BY <1>1, <1>2, <1>3, <1>4, <1>5

\* An array of one element.
LEMMA OneVerdict ==
  ASSUME NEW s, NEW t, s # Null, t # Null, NEW bad, bad \subseteq 1 .. 1
  PROVE  Unity!ArrayVerdict(s, t, FALSE, 1, bad).why = "pass" <=> 1 \notin bad
<1>1. bad = {} <=> 1 \notin bad
  <2>1. \A m \in 1 .. 1 : m = 1
    OBVIOUS
  <2> QED
    BY <2>1
<1>2. Unity!ArrayVerdict(s, t, FALSE, 1, bad)
        = IF bad = {} THEN Unity!Verdict("pass", 0) ELSE Unity!Verdict("element", Unity!Min(bad))
  BY DEF Unity!ArrayVerdict
<1>3. Unity!Verdict("pass", 0).why = "pass" /\ Unity!Verdict("element", Unity!Min(bad)).why # "pass"
  BY DEF Unity!Verdict
<1> QED
  BY <1>1, <1>2, <1>3

LEMMA UnityCounts == \A S : Unity!Cardinality(S) = Cardinality(S)
BY Zenon DEF Unity!Cardinality, Cardinality

\* A float is one of four things.
LEMMA OneTrait ==
  ASSUME NEW v \in FloatValues
  PROVE  Cardinality({t \in Unity!Traits : ~Unity!SpecialFails(v, t, TRUE)}) = 1
<1> DEFINE T == {t \in Unity!Traits : ~Unity!SpecialFails(v, t, TRUE)}
<1>1. /\ v.v \in Int /\ v.kind \in {"nan", "inf", "fin"}
      /\ v.kind = "inf" => v.v = 1 \/ v.v = -1
  BY FloatShape
<1>2. /\ ~Unity!SpecialFails(v, "infinity", TRUE) <=> v.kind = "inf" /\ v.v > 0
      /\ ~Unity!SpecialFails(v, "negative infinity", TRUE) <=> v.kind = "inf" /\ v.v < 0
      /\ ~Unity!SpecialFails(v, "nan", TRUE) <=> v.kind = "nan"
      /\ ~Unity!SpecialFails(v, "determinate", TRUE) <=> v.kind = "fin"
  BY DEF Unity!SpecialFails
<1>3. PICK t \in Unity!Traits : \A r \in Unity!Traits : ~Unity!SpecialFails(v, r, TRUE) <=> r = t
  <2>1. CASE v.kind = "inf" /\ v.v = 1
    <3>1. v.v > 0 /\ ~(v.v < 0)
      BY <2>1
    <3>2. \A r \in Unity!Traits : ~Unity!SpecialFails(v, r, TRUE) <=> r = "infinity"
      BY <1>2, <2>1, <3>1 DEF Unity!Traits
    <3> QED
      BY <3>2 DEF Unity!Traits
  <2>2. CASE v.kind = "inf" /\ v.v = -1
    <3>1. v.v < 0 /\ ~(v.v > 0)
      BY <2>2
    <3>2. \A r \in Unity!Traits : ~Unity!SpecialFails(v, r, TRUE) <=> r = "negative infinity"
      BY <1>2, <2>2, <3>1 DEF Unity!Traits
    <3> QED
      BY <3>2 DEF Unity!Traits
  <2>3. CASE v.kind = "nan"
    BY <1>2, <2>3 DEF Unity!Traits
  <2>4. CASE v.kind = "fin"
    BY <1>2, <2>4 DEF Unity!Traits
  <2> QED
    BY <1>1, <2>1, <2>2, <2>3, <2>4
<1>4. T = {t}
  BY <1>3
<1> QED
  BY <1>4, FS_Singleton

\* The assertions about floats.
LEMMA FloatsRight ==
  ASSUME Unity!UnityAssumption,
         NEW v \in FloatValues, NEW w \in FloatValues, NEW delta \in FloatValues
  PROVE  Unity!FloatsJudged(delta, v, w)
<1>1. /\ v.v \in Int /\ w.v \in Int /\ delta.v \in Int
      /\ v.kind \in {"nan", "inf", "fin"} /\ w.kind \in {"nan", "inf", "fin"}
      /\ v = [kind |-> v.kind, v |-> v.v] /\ delta = [kind |-> delta.kind, v |-> delta.v]
  BY FloatShape
<1>2. \A n \in Int : Unity!Size(n) \in Nat /\ Unity!Size(Unity!Size(n)) = Unity!Size(n)
  BY DEF Unity!Size
<1>3. ASSUME delta.kind = "fin"
      PROVE  Unity!FloatsWithin(delta, v, w) <=> Near(v, w, Unity!Size(delta.v))
  BY <1>1, <1>2, <1>3, Within
<1>4. Unity!FloatsWithin(Unity!Tolerance(v), v, w) <=> Near(v, w, Unity!Size(v.v))
  <2>1. CASE v.kind = "fin"
    <3>1. /\ Unity!Tolerance(v).kind = "fin"
          /\ Unity!Tolerance(v).v = Unity!Size(v.v)
      BY <1>1, <2>1 DEF Unity!Tolerance
    <3>2. Unity!Size(Unity!Tolerance(v).v) = Unity!Size(v.v) /\ Unity!Size(v.v) \in Nat
      BY <1>1, <1>2, <3>1
    <3> QED
      BY <3>1, <3>2, Within
  <2>2. CASE v.kind # "fin"
    BY <2>2, WithinOdd
  <2> QED
    BY <2>1, <2>2
<1>5. ASSUME delta.kind = "fin"
      PROVE  Unity!FloatArray(delta, <<v>>, <<w>>, FALSE, 1, "array").why = "pass"
               <=> Near(v, w, Unity!Size(delta.v) + Unity!Size(v.v))
  <2> DEFINE d == [delta EXCEPT !.v = Unity!Size(@)]
             bad == {j \in 1 .. 1 :
                       LET e == Unity!Expected(<<v>>, j, "array")
                       IN ~Unity!FloatsWithin(Unity!Plus(d, Unity!Tolerance(e)), e, <<w>>[j])}
  <2>1. 1 \notin bad <=> Unity!FloatsWithin(Unity!Plus(d, Unity!Tolerance(v)), v, w)
    BY DEF Unity!Expected
  <2>2. Unity!FloatsWithin(Unity!Plus(d, Unity!Tolerance(v)), v, w)
          <=> Near(v, w, Unity!Size(delta.v) + Unity!Size(v.v))
    <3>1. CASE v.kind = "fin"
      <4>1. PICK n \in Nat, m \in Nat : n = Unity!Size(delta.v) /\ m = Unity!Size(v.v)
        BY <1>1, <1>2
      <4>2. /\ d.kind = "fin" /\ d.v = n
            /\ Unity!Tolerance(v).kind = "fin" /\ Unity!Tolerance(v).v = m
        BY <1>1, <1>5, <3>1, <4>1 DEF Unity!Tolerance
      <4> HIDE DEF d
      <4>3. PICK f : f = Unity!Plus(d, Unity!Tolerance(v))
        OBVIOUS
      <4>4. f.kind = "fin" /\ f.v = n + m
        BY <4>2, <4>3 DEF Unity!Plus, Unity!Finite
      <4>5. Unity!Size(f.v) = n + m /\ n + m \in Nat
        BY <4>1, <4>4 DEF Unity!Size
      <4> QED
        BY <4>1, <4>3, <4>4, <4>5, Within
    <3>2. CASE v.kind # "fin"
      BY <3>2, WithinOdd
    <3> QED
      BY <3>1, <3>2
  <2>3. <<v>> # Null /\ <<w>> # Null
    <3>1. v \in [kind: {"nan", "inf", "fin"}, v: Int] /\ w \in [kind: {"nan", "inf", "fin"}, v: Int]
      BY DEF FloatValues, Unity!NaN, Unity!Infinite
    <3>2. /\ <<v>> \in Seq([kind: {"nan", "inf", "fin"}, v: Int])
          /\ <<w>> \in Seq([kind: {"nan", "inf", "fin"}, v: Int])
      BY <3>1
    <3> QED
      BY <3>2, Zenon DEF Unity!UnityAssumption
  <2>4. Unity!FloatArray(delta, <<v>>, <<w>>, FALSE, 1, "array")
          = Unity!ArrayVerdict(<<v>>, <<w>>, FALSE, 1, bad)
    BY <1>5 DEF Unity!FloatArray
  <2>5. bad \subseteq 1 .. 1
    OBVIOUS
  <2> HIDE DEF bad, d
  <2>6. Unity!ArrayVerdict(<<v>>, <<w>>, FALSE, 1, bad).why = "pass" <=> 1 \notin bad
    BY <2>3, <2>5, OneVerdict, Zenon
  <2>7. Unity!FloatArray(delta, <<v>>, <<w>>, FALSE, 1, "array").why = "pass" <=> 1 \notin bad
    BY <2>4, <2>6, Zenon
  <2> QED
    BY <2>1, <2>2, <2>7, Zenon
<1>6. /\ Unity!FloatOrderFails(v, w, {"greater"}) <=> ~Unity!FloatAbove(w, v)
      /\ Unity!FloatOrderFails(v, w, {"smaller"}) <=> ~Unity!FloatAbove(v, w)
      /\ Unity!FloatOrderFails(v, w, {"greater", "equal"})
           <=> ~(Unity!FloatAbove(w, v) \/ Near(v, w, Unity!Size(v.v)))
      /\ Unity!FloatOrderFails(v, w, {"smaller", "equal"})
           <=> ~(Unity!FloatAbove(v, w) \/ Near(v, w, Unity!Size(v.v)))
  BY <1>4 DEF Unity!FloatOrderFails
<1>7. Cardinality({t \in Unity!Traits : ~Unity!SpecialFails(v, t, TRUE)}) = 1
  BY OneTrait
<1>8. /\ \A d : Unity!FloatsWithin(d, v, w) \in BOOLEAN
      /\ \A n : Near(v, w, n) \in BOOLEAN
      /\ \A c : Unity!FloatOrderFails(v, w, c) \in BOOLEAN
  BY Zenon DEF Unity!FloatsWithin, Near, Unity!FloatOrderFails
<1>9. Unity!Determinate(delta) => Unity!FloatFails(delta, v, w) = ~Near(v, w, Unity!Size(delta.v))
  BY <1>3, <1>8, Zenon DEF Unity!FloatFails, Unity!Determinate
<1>10. Unity!FloatNotFails(delta, v, w) = ~Unity!FloatFails(delta, v, w)
  BY <1>8, Zenon DEF Unity!FloatFails, Unity!FloatNotFails
<1>11. /\ Unity!FloatOrderFails(v, w, {"greater"}) = ~Unity!FloatAbove(w, v)
       /\ Unity!FloatOrderFails(v, w, {"smaller"}) = ~Unity!FloatAbove(v, w)
       /\ Unity!FloatOrderFails(v, w, {"greater", "equal"})
            = ~(Unity!FloatAbove(w, v) \/ Near(v, w, Unity!Size(v.v)))
       /\ Unity!FloatOrderFails(v, w, {"smaller", "equal"})
            = ~(Unity!FloatAbove(v, w) \/ Near(v, w, Unity!Size(v.v)))
  BY <1>6, <1>8, Zenon
<1>12. Unity!Determinate(delta) =>
         (Unity!FloatArray(delta, <<v>>, <<w>>, FALSE, 1, "array").why = "pass")
           = Near(v, w, Unity!Size(delta.v) + Unity!Size(v.v))
  BY <1>5, <1>8, Zenon DEF Unity!Determinate
<1> QED
  BY <1>7, <1>9, <1>10, <1>11, <1>12, UnityCounts, Zenon DEF Unity!FloatsJudged, Near

-----------------------------------------------------------------------------
(* What Unity prints of numbers: read back, the digits are the number.     *)

\* The powers of the bases that numbers are written in.
LEMMA Powers ==
  ASSUME NEW B \in {2, 4, 8, 10, 16}, NEW j \in 0 .. 8
  PROVE  B ^ 0 = 1 /\ B ^ j \in Nat \ {0} /\ B ^ (j + 1) = B * B ^ j
<1>1. j \in {0, 1, 2, 3, 4, 5, 6, 7, 8}
  OBVIOUS
<1>2. CASE B = 2
  <2>1. /\ 2 ^ 0 = 1
        /\ 2 ^ 0 \in Nat \ {0} /\ 2 ^ (0 + 1) = 2 * 2 ^ 0
        /\ 2 ^ 1 \in Nat \ {0} /\ 2 ^ (1 + 1) = 2 * 2 ^ 1
        /\ 2 ^ 2 \in Nat \ {0} /\ 2 ^ (2 + 1) = 2 * 2 ^ 2
        /\ 2 ^ 3 \in Nat \ {0} /\ 2 ^ (3 + 1) = 2 * 2 ^ 3
        /\ 2 ^ 4 \in Nat \ {0} /\ 2 ^ (4 + 1) = 2 * 2 ^ 4
        /\ 2 ^ 5 \in Nat \ {0} /\ 2 ^ (5 + 1) = 2 * 2 ^ 5
        /\ 2 ^ 6 \in Nat \ {0} /\ 2 ^ (6 + 1) = 2 * 2 ^ 6
        /\ 2 ^ 7 \in Nat \ {0} /\ 2 ^ (7 + 1) = 2 * 2 ^ 7
        /\ 2 ^ 8 \in Nat \ {0} /\ 2 ^ (8 + 1) = 2 * 2 ^ 8
    OBVIOUS
  <2> QED
    BY <1>1, <1>2, <2>1, Zenon
<1>3. CASE B = 4
  <2>1. /\ 4 ^ 0 = 1
        /\ 4 ^ 0 \in Nat \ {0} /\ 4 ^ (0 + 1) = 4 * 4 ^ 0
        /\ 4 ^ 1 \in Nat \ {0} /\ 4 ^ (1 + 1) = 4 * 4 ^ 1
        /\ 4 ^ 2 \in Nat \ {0} /\ 4 ^ (2 + 1) = 4 * 4 ^ 2
        /\ 4 ^ 3 \in Nat \ {0} /\ 4 ^ (3 + 1) = 4 * 4 ^ 3
        /\ 4 ^ 4 \in Nat \ {0} /\ 4 ^ (4 + 1) = 4 * 4 ^ 4
        /\ 4 ^ 5 \in Nat \ {0} /\ 4 ^ (5 + 1) = 4 * 4 ^ 5
        /\ 4 ^ 6 \in Nat \ {0} /\ 4 ^ (6 + 1) = 4 * 4 ^ 6
        /\ 4 ^ 7 \in Nat \ {0} /\ 4 ^ (7 + 1) = 4 * 4 ^ 7
        /\ 4 ^ 8 \in Nat \ {0} /\ 4 ^ (8 + 1) = 4 * 4 ^ 8
    OBVIOUS
  <2> QED
    BY <1>1, <1>3, <2>1, Zenon
<1>4. CASE B = 8
  <2>1. /\ 8 ^ 0 = 1
        /\ 8 ^ 0 \in Nat \ {0} /\ 8 ^ (0 + 1) = 8 * 8 ^ 0
        /\ 8 ^ 1 \in Nat \ {0} /\ 8 ^ (1 + 1) = 8 * 8 ^ 1
        /\ 8 ^ 2 \in Nat \ {0} /\ 8 ^ (2 + 1) = 8 * 8 ^ 2
        /\ 8 ^ 3 \in Nat \ {0} /\ 8 ^ (3 + 1) = 8 * 8 ^ 3
        /\ 8 ^ 4 \in Nat \ {0} /\ 8 ^ (4 + 1) = 8 * 8 ^ 4
        /\ 8 ^ 5 \in Nat \ {0} /\ 8 ^ (5 + 1) = 8 * 8 ^ 5
        /\ 8 ^ 6 \in Nat \ {0} /\ 8 ^ (6 + 1) = 8 * 8 ^ 6
        /\ 8 ^ 7 \in Nat \ {0} /\ 8 ^ (7 + 1) = 8 * 8 ^ 7
        /\ 8 ^ 8 \in Nat \ {0} /\ 8 ^ (8 + 1) = 8 * 8 ^ 8
    OBVIOUS
  <2> QED
    BY <1>1, <1>4, <2>1, Zenon
<1>5. CASE B = 10
  <2>1. /\ 10 ^ 0 = 1
        /\ 10 ^ 0 \in Nat \ {0} /\ 10 ^ (0 + 1) = 10 * 10 ^ 0
        /\ 10 ^ 1 \in Nat \ {0} /\ 10 ^ (1 + 1) = 10 * 10 ^ 1
        /\ 10 ^ 2 \in Nat \ {0} /\ 10 ^ (2 + 1) = 10 * 10 ^ 2
        /\ 10 ^ 3 \in Nat \ {0} /\ 10 ^ (3 + 1) = 10 * 10 ^ 3
        /\ 10 ^ 4 \in Nat \ {0} /\ 10 ^ (4 + 1) = 10 * 10 ^ 4
        /\ 10 ^ 5 \in Nat \ {0} /\ 10 ^ (5 + 1) = 10 * 10 ^ 5
        /\ 10 ^ 6 \in Nat \ {0} /\ 10 ^ (6 + 1) = 10 * 10 ^ 6
        /\ 10 ^ 7 \in Nat \ {0} /\ 10 ^ (7 + 1) = 10 * 10 ^ 7
        /\ 10 ^ 8 \in Nat \ {0} /\ 10 ^ (8 + 1) = 10 * 10 ^ 8
    OBVIOUS
  <2> QED
    BY <1>1, <1>5, <2>1, Zenon
<1>6. CASE B = 16
  <2>1. /\ 16 ^ 0 = 1
        /\ 16 ^ 0 \in Nat \ {0} /\ 16 ^ (0 + 1) = 16 * 16 ^ 0
        /\ 16 ^ 1 \in Nat \ {0} /\ 16 ^ (1 + 1) = 16 * 16 ^ 1
        /\ 16 ^ 2 \in Nat \ {0} /\ 16 ^ (2 + 1) = 16 * 16 ^ 2
        /\ 16 ^ 3 \in Nat \ {0} /\ 16 ^ (3 + 1) = 16 * 16 ^ 3
        /\ 16 ^ 4 \in Nat \ {0} /\ 16 ^ (4 + 1) = 16 * 16 ^ 4
        /\ 16 ^ 5 \in Nat \ {0} /\ 16 ^ (5 + 1) = 16 * 16 ^ 5
        /\ 16 ^ 6 \in Nat \ {0} /\ 16 ^ (6 + 1) = 16 * 16 ^ 6
        /\ 16 ^ 7 \in Nat \ {0} /\ 16 ^ (7 + 1) = 16 * 16 ^ 7
        /\ 16 ^ 8 \in Nat \ {0} /\ 16 ^ (8 + 1) = 16 * 16 ^ 8
    OBVIOUS
  <2> QED
    BY <1>1, <1>6, <2>1, Zenon
<1> QED
  BY <1>2, <1>3, <1>4, <1>5, <1>6

\* The digit before the last of a number, and all before it.
LEMMA DigitBefore ==
  ASSUME NEW m \in Nat, NEW a \in Nat \ {0}, NEW b \in Nat \ {0}, NEW c, c = b * a
  PROVE  m \div a = (m \div c) * b + ((m \div a) % b)
<1>1. PICK q \in Int, r \in 0 .. a - 1 : q = m \div a /\ m = r + a * q
  OBVIOUS
<1>2. PICK u \in Int, t \in 0 .. b - 1 : u = q \div b /\ t = q % b /\ q = t + b * u
  OBVIOUS
<1>3. c \in Nat \ {0}
  OBVIOUS
<1>4. PICK d \in Int : d = a * t /\ d \in 0 .. c - a
  <2>1. a * (b - 1 - t) >= 0 /\ a * (b - 1 - t) = (c - a) - a * t
    OBVIOUS
  <2>2. a * t >= 0
    OBVIOUS
  <2> QED
    BY <1>3, <2>1, <2>2
<1>5. m = (r + d) + c * u
  <2>1. a * q = a * t + a * (b * u)
    BY <1>2
  <2>2. a * (b * u) = c * u
    OBVIOUS
  <2> QED
    BY <1>1, <1>4, <2>1, <2>2
<1>6. PICK g \in Int, h \in 0 .. c - 1 : g = m \div c /\ m = h + c * g
  BY <1>3
<1>7. PICK l \in 0 .. c - 1 : l = r + d
  BY <1>3, <1>4
<1>8. l + c * u = h + c * g
  BY <1>5, <1>6, <1>7
<1>9. u = g
  BY <1>3, <1>8, TwoDigits
<1>10. m \div a = u * b + t /\ t = (m \div a) % b
  <2>1. q = u * b + t
    BY <1>2
  <2> QED
    BY <1>1, <1>2, <2>1, Zenon
<1> QED
  BY <1>6, <1>9, <1>10, Zenon

\* Digits lead from 0 through numbers v to the last of them, which is what is
\* read of a text.
Leads(B, p, digits, v) ==
  /\ B \in Int /\ p \in Nat
  /\ DOMAIN digits = 0 .. p /\ \A k \in 0 .. p : digits[k] \in Int
  /\ v \in [-1 .. p -> Int] /\ v[-1] = 0
  /\ \A k \in 0 .. p : v[k] = v[k - 1] * B + digits[k]

LEMMA ReadEnds ==
  ASSUME NEW B, NEW p, NEW minus, NEW digits, NEW v, Leads(B, p, digits, v)
  PROVE  Unity!Read([minus |-> minus, base |-> B, digits |-> digits])
           = IF minus THEN -v[p] ELSE v[p]
<1>0. /\ B \in Int /\ p \in Nat
      /\ DOMAIN digits = 0 .. p /\ \A k \in 0 .. p : digits[k] \in Int
      /\ v \in [-1 .. p -> Int] /\ v[-1] = 0
      /\ \A k \in 0 .. p : v[k] = v[k - 1] * B + digits[k]
  BY DEF Leads
<1> DEFINE text == [minus |-> minus, base |-> B, digits |-> digits]
           n == Unity!Max(DOMAIN text.digits)
           Go(f) == [k \in -1 .. n |-> IF k < 0 THEN 0 ELSE f[k - 1] * text.base + text.digits[k]]
           sum == CHOOSE f : f = Go(f)
<1>1. Unity!Read(text) = IF text.minus THEN -sum[n] ELSE sum[n]
  BY DEF Unity!Read
<1>2. n = p
  <2>1. DOMAIN text.digits = 0 .. p
    BY <1>0
  <2>2. p \in 0 .. p /\ \A k \in 0 .. p : p >= k
    BY <1>0
  <2>3. ASSUME NEW k \in 0 .. p, \A m \in 0 .. p : k >= m PROVE k = p
    <3>1. k >= p
      BY <2>2, <2>3, Zenon
    <3> QED
      BY <1>0, <3>1
  <2>4. Unity!Max(0 .. p) = p
    BY <2>2, <2>3, Zenon DEF Unity!Max
  <2> QED
    BY <2>1, <2>4
<1>3. text.base = B /\ text.digits = digits /\ text.minus = minus
  OBVIOUS
<1> HIDE DEF text, n
<1>4. v = Go(v)
  <2>1. Go(v) = [k \in -1 .. p |-> IF k < 0 THEN 0 ELSE v[k - 1] * B + digits[k]]
    BY <1>2, <1>3
  <2>2. ASSUME NEW k \in -1 .. p
        PROVE  v[k] = IF k < 0 THEN 0 ELSE v[k - 1] * B + digits[k]
    <3>1. CASE k = -1
      BY <1>0, <3>1
    <3>2. CASE k \in 0 .. p
      <4>1. ~(k < 0)
        BY <3>2
      <4> QED
        BY <1>0, <3>2, <4>1, Zenon
    <3> QED
      BY <3>1, <3>2
  <2>3. v = [k \in -1 .. p |-> v[k]]
    BY <1>0
  <2> QED
    BY <2>1, <2>2, <2>3, Zenon
<1>5. sum = Go(sum)
  BY <1>4, Zenon
<1> HIDE DEF sum
<1>6. /\ sum[-1] = 0
      /\ \A k \in 0 .. p : sum[k] = sum[k - 1] * B + digits[k]
  <2>1. sum = [k \in -1 .. p |-> IF k < 0 THEN 0 ELSE sum[k - 1] * B + digits[k]]
    BY <1>2, <1>3, <1>5
  <2>2. \A k \in -1 .. p : sum[k] = IF k < 0 THEN 0 ELSE sum[k - 1] * B + digits[k]
    BY <2>1, Zenon
  <2>3. -1 \in -1 .. p /\ -1 < 0 /\ \A k \in 0 .. p : k \in -1 .. p /\ ~(k < 0)
    BY <1>0
  <2> QED
    BY <2>2, <2>3, Zenon
<1>7. \A k \in Nat : k \in {m \in Nat : m <= p => sum[m] = v[m]}
  <2> DEFINE S == {m \in Nat : m <= p => sum[m] = v[m]}
  <2>1. 0 \in S
    <3>1. 0 \in 0 .. p /\ 0 - 1 = -1
      BY <1>0
    <3>2. sum[0] = v[0]
      BY <1>0, <1>6, <3>1, Zenon
    <3> QED
      BY <3>2
  <2>2. ASSUME NEW k \in Nat, k \in S PROVE k + 1 \in S
    <3> SUFFICES ASSUME k + 1 <= p PROVE sum[k + 1] = v[k + 1]
      OBVIOUS
    <3>1. k + 1 \in 0 .. p /\ (k + 1) - 1 = k /\ sum[k] = v[k]
      BY <1>0, <2>2
    <3>2. /\ sum[k + 1] = sum[(k + 1) - 1] * B + digits[k + 1]
          /\ v[k + 1] = v[(k + 1) - 1] * B + digits[k + 1]
      BY <1>0, <1>6, <3>1, Zenon
    <3> QED
      BY <3>1, <3>2, Zenon
  <2> HIDE DEF S
  <2>3. \A k \in Nat : k \in S
    BY <2>1, <2>2, NumberInduction
  <2> QED
    BY <2>3 DEF S
<1>8. sum[p] = v[p]
  BY <1>0, <1>7
<1> QED
  BY <1>1, <1>2, <1>3, <1>8, Zenon DEF text

\* The digits of a number, each found by division, read back as the number.
InPlaces(B, p, m, digits) ==
  /\ B \in Nat \ {0} /\ p \in Nat /\ m \in Nat
  /\ B ^ 0 = 1 /\ \A j \in 0 .. p : B ^ j \in Nat \ {0}
  /\ \A j \in 0 .. p - 1 : B ^ (j + 1) = B * B ^ j
  /\ m \div (B ^ p) < B
  /\ digits = [k \in 0 .. p |-> (m \div (B ^ (p - k))) % B]

LEMMA ReadBack ==
  ASSUME NEW B, NEW p, NEW m, NEW minus, NEW digits, InPlaces(B, p, m, digits)
  PROVE  Unity!Read([minus |-> minus, base |-> B, digits |-> digits]) = IF minus THEN -m ELSE m
<1> SUFFICES ASSUME B \in Nat \ {0}, p \in Nat, m \in Nat, B ^ 0 = 1,
                   \A j \in 0 .. p : B ^ j \in Nat \ {0},
                   \A j \in 0 .. p - 1 : B ^ (j + 1) = B * B ^ j, m \div (B ^ p) < B,
                   digits = [k \in 0 .. p |-> (m \div (B ^ (p - k))) % B]
            PROVE  Unity!Read([minus |-> minus, base |-> B, digits |-> digits])
                     = IF minus THEN -m ELSE m
  BY Zenon DEF InPlaces
<1> DEFINE v == [k \in -1 .. p |-> IF k < 0 THEN 0 ELSE m \div (B ^ (p - k))]
<1>1. ASSUME NEW k \in 0 .. p PROVE digits[k] \in Int /\ v[k] \in Int /\ v[k] = m \div (B ^ (p - k))
  <2>1. PICK j \in 0 .. p : j = p - k
    BY <1>1
  <2>2. PICK w \in Nat \ {0} : w = B ^ j
    BY <2>1, Zenon
  <2>3. digits[k] = (m \div w) % B /\ v[k] = m \div w
    BY <1>1, <2>1, <2>2
  <2> QED
    BY <2>1, <2>2, <2>3
<1>2. v[-1] = 0
  OBVIOUS
<1>3. v \in [-1 .. p -> Int]
  <2>1. \A k \in -1 .. p : v[k] \in Int
    BY <1>1, <1>2
  <2> QED
    BY <2>1
<1>4. \A k \in 0 .. p : digits[k] = (m \div (B ^ (p - k))) % B
  OBVIOUS
<1> HIDE DEF v
<1>5. ASSUME NEW k \in 0 .. p PROVE v[k] = v[k - 1] * B + digits[k]
  <2>1. CASE k = 0
    <3>1. PICK w \in Nat \ {0} : w = B ^ p
      <4>1. p \in 0 .. p
        OBVIOUS
      <4> QED
        BY <4>1, Zenon
    <3>2. v[0] = m \div w /\ digits[0] = (m \div w) % B
      <4>1. PICK z : z = p - 0 /\ z = p /\ 0 \in 0 .. p
        OBVIOUS
      <4>2. v[0] = m \div (B ^ z) /\ digits[0] = (m \div (B ^ z)) % B
        BY <1>1, <1>4, <4>1, Zenon
      <4>3. B ^ z = w
        BY ONLY <3>1, <4>1, Zenon
      <4> QED
        BY ONLY <4>2, <4>3, Zenon
    <3>3. m \div w \in 0 .. B - 1
      <4>1. m \div w < B
        BY <3>1, Zenon
      <4> QED
        BY ONLY <4>1, m \in Nat, w \in Nat \ {0}, B \in Nat \ {0}
    <3>4. v[0] = digits[0]
      <4>1. \A y \in 0 .. B - 1 : y % B = y
        OBVIOUS
      <4> QED
        BY <3>2, <3>3, <4>1, Zenon
    <3> QED
      BY <1>1, <1>2, <2>1, <3>4
  <2>2. CASE k # 0
    <3>1. PICK j \in 0 .. p - 1 : j = p - k /\ p - (k - 1) = j + 1 /\ k - 1 \in 0 .. p
      BY <1>5, <2>2
    <3>2. PICK w \in Nat \ {0} : w = B ^ j
      <4>1. j \in 0 .. p
        BY <3>1
      <4> QED
        BY <4>1, Zenon
    <3>6. PICK c \in Int : c = B ^ (j + 1) /\ c = B * w
      <4>1. B * w \in Int
        BY <3>2
      <4> QED
        BY <3>1, <3>2, <4>1, Zenon
    <3>3. m \div w = (m \div c) * B + ((m \div w) % B)
      BY ONLY m \in Nat, B \in Nat \ {0}, w \in Nat \ {0}, <3>6, DigitBefore
    <3>4. v[k] = m \div w /\ digits[k] = (m \div w) % B
      BY <1>1, <1>4, <3>1, <3>2, Zenon
    <3>5. v[k - 1] = m \div c
      BY <1>1, <3>1, <3>6, Zenon
    <3> QED
      BY <3>3, <3>4, <3>5, Zenon
  <2> QED
    BY <2>1, <2>2
<1>6. v[p] = m
  <2>1. v[p] = m \div (B ^ (p - p)) /\ p - p = 0
    BY <1>1
  <2>2. v[p] = m \div 1
    BY <2>1, Zenon
  <2> QED
    BY <2>2
<1>7. DOMAIN digits = 0 .. p
  OBVIOUS
<1>8. \A k \in 0 .. p : digits[k] \in Int
  BY <1>1
<1>9. Leads(B, p, digits, v)
  <2>1. B \in Int
    OBVIOUS
  <2> QED
    BY <1>2, <1>3, <1>5, <1>7, <1>8, <2>1, Zenon DEF Leads
<1>10. Unity!Read([minus |-> minus, base |-> B, digits |-> digits]) = IF minus THEN -v[p] ELSE v[p]
  BY ONLY <1>9, ReadEnds
<1> QED
  BY <1>6, <1>10, Zenon

\* The bases and powers, as ReadBack wants them.
LEMMA PowersUpTo ==
  ASSUME NEW B \in {2, 4, 8, 10, 16}, NEW p \in 0 .. 9
  PROVE  /\ B \in Nat \ {0} /\ B ^ 0 = 1 /\ \A j \in 0 .. p : B ^ j \in Nat \ {0}
         /\ \A j \in 0 .. p - 1 : B ^ (j + 1) = B * B ^ j
<1>1. B \in Nat \ {0}
  OBVIOUS
<1>2. \A j \in 0 .. 8 : B ^ 0 = 1 /\ B ^ j \in Nat \ {0} /\ B ^ (j + 1) = B * B ^ j
  BY Powers
<1>3. B ^ 9 \in Nat \ {0}
  <2>1. 8 \in 0 .. 8 /\ 8 + 1 = 9
    OBVIOUS
  <2>2. B ^ (8 + 1) = B * B ^ 8 /\ B ^ 8 \in Nat \ {0}
    BY <1>2, <2>1, Zenon
  <2>3. PICK w \in Nat \ {0} : w = B ^ 8
    BY <2>2, Zenon
  <2>4. B * w \in Nat \ {0}
    BY <1>1, <2>3
  <2> QED
    BY <2>1, <2>2, <2>3, <2>4, Zenon
<1>4. ASSUME NEW j \in 0 .. p PROVE B ^ j \in Nat \ {0}
  <2>1. j \in 0 .. 8 \/ j = 9
    BY <1>4
  <2> QED
    BY <1>2, <1>3, <2>1, Zenon
<1>5. ASSUME NEW j \in 0 .. p - 1 PROVE B ^ (j + 1) = B * B ^ j
  <2>1. j \in 0 .. 8
    BY <1>5
  <2> QED
    BY <1>2, <2>1, Zenon
<1>6. 0 \in 0 .. 8
  OBVIOUS
<1> QED
  BY <1>1, <1>2, <1>4, <1>5, <1>6, Zenon

\* Decimal numbers of up to ten digits.
LEMMA DecimalRead ==
  ASSUME NEW m \in Nat, m \div (10 ^ 9) <= 9, NEW minus \in BOOLEAN
  PROVE  Unity!Read([minus |-> minus, base |-> 10, digits |-> Unity!Decimal(m)])
           = IF minus THEN -m ELSE m
<1> DEFINE T == {k \in 0 .. 9 : m \div (10 ^ k) <= 9}
<1>1. 9 \in T
  <2>1. 9 \in 0 .. 9
    OBVIOUS
  <2> QED
    BY <2>1, Zenon
<1>2. T \in SUBSET Nat /\ T # {}
  <2>1. \A k \in T : k \in 0 .. 9
    BY Zenon
  <2> HIDE DEF T
  <2> QED
    BY <1>1, <2>1
<1> HIDE DEF T
<1>3. PICK p \in T : \A k \in T : p <= k
  BY <1>2, LeastNumber
<1>4. Unity!Min(T) = p
  <2>1. T \in SUBSET Int
    BY <1>2
  <2> QED
    BY <1>3, <2>1, LeastRead
<1>5. p \in 0 .. 9 /\ m \div (10 ^ p) <= 9
  BY <1>3, Zenon DEF T
<1>6. /\ 10 \in Nat \ {0} /\ 10 ^ 0 = 1 /\ \A j \in 0 .. p : 10 ^ j \in Nat \ {0}
      /\ \A j \in 0 .. p - 1 : 10 ^ (j + 1) = 10 * 10 ^ j
  <2>1. 10 \in {2, 4, 8, 10, 16}
    OBVIOUS
  <2> QED
    BY <1>5, <2>1, PowersUpTo, Zenon
<1>7. m \div (10 ^ p) < 10
  <2>1. PICK w \in Nat \ {0} : w = 10 ^ p
    <3>1. p \in 0 .. p
      BY <1>5
    <3> QED
      BY <1>6, <3>1, Zenon
  <2>2. m \div w < 10
    BY <1>5, <2>1
  <2> QED
    BY <2>1, <2>2, Zenon
<1>8. Unity!Decimal(m) = [k \in 0 .. p |-> (m \div (10 ^ (p - k))) % 10]
  BY <1>4, Zenon DEF Unity!Decimal, T
<1>9. p \in Nat
  BY <1>5
<1>10. PICK B : B = 10
  OBVIOUS
<1>11. PICK d : d = Unity!Decimal(m)
  OBVIOUS
<1>12. Unity!Read([minus |-> minus, base |-> B, digits |-> d]) = IF minus THEN -m ELSE m
  <2>1. /\ B \in Nat \ {0} /\ B ^ 0 = 1 /\ \A j \in 0 .. p : B ^ j \in Nat \ {0}
        /\ \A j \in 0 .. p - 1 : B ^ (j + 1) = B * B ^ j
        /\ m \div (B ^ p) < B
    BY <1>6, <1>7, <1>10, Zenon
  <2>2. d = [k \in 0 .. p |-> (m \div (B ^ (p - k))) % B]
    BY <1>8, <1>10, <1>11, Zenon
  <2>3. InPlaces(B, p, m, d)
    BY ONLY <1>9, <2>1, <2>2, m \in Nat, Zenon DEF InPlaces
  <2> QED
    BY ONLY <2>3, ReadBack
<1> QED
  BY <1>10, <1>11, <1>12, Zenon

\* Digits below a place are those of the rest above which the number ends.
Longer(n, m, a, b, c, g) ==
  /\ m \in Nat /\ a \in Nat \ {0} /\ b \in Nat \ {0} /\ g \in Nat
  /\ c = b * a /\ n = m + c * g

LEMMA DigitKept ==
  ASSUME NEW n, NEW m, NEW a, NEW b, NEW c, NEW g, Longer(n, m, a, b, c, g)
  PROVE  (n \div a) % b = (m \div a) % b
<1> SUFFICES ASSUME m \in Nat, a \in Nat \ {0}, b \in Nat \ {0}, g \in Nat,
                    c = b * a, n = m + c * g
             PROVE  (n \div a) % b = (m \div a) % b
  BY Zenon DEF Longer
<1>1. c \in Nat \ {0}
  OBVIOUS
<1>2. n \in Nat
  <2>1. c * g \in Nat
    BY <1>1
  <2> QED
    BY <2>1
<1>3. PICK q \in Int, r \in 0 .. c - 1 : q = m \div c /\ m = r + c * q
  BY <1>1
<1>4. PICK k \in Int, l \in 0 .. c - 1 : k = n \div c /\ n = l + c * k
  BY <1>1, <1>2
<1>5. k = q + g
  <2>1. c * (q + g) = c * q + c * g
    BY <1>1
  <2>2. q + g \in Int
    OBVIOUS
  <2>3. PICK h \in Int : h = q + g
    BY <2>2
  <2>4. r + c * h = l + c * k
    <3>1. c * q \in Int /\ c * g \in Int
      BY <1>1
    <3>2. c * h = c * q + c * g
      BY <2>1, <2>3, Zenon
    <3>3. n = (r + c * q) + c * g
      BY <1>3, Zenon
    <3>4. (r + c * q) + c * g = r + (c * q + c * g)
      BY ONLY <3>1, r \in 0 .. c - 1, c \in Nat, <1>1
    <3> QED
      BY <1>4, <3>2, <3>3, <3>4, Zenon
  <2>5. h = k
    BY <1>1, <2>4, TwoDigits
  <2> QED
    BY <2>3, <2>5
<1>6. PICK s \in Int, t \in 0 .. a - 1 : s = m \div a /\ m = t + a * s
  OBVIOUS
<1>7. PICK y \in Int, z \in 0 .. a - 1 : y = n \div a /\ n = z + a * y
  BY <1>2
<1>8. y = s + b * g
  <2>1. a * (s + b * g) = a * s + c * g
    OBVIOUS
  <2>2. PICK h \in Int : h = s + b * g
    OBVIOUS
  <2>3. t + a * h = z + a * y
    <3>1. a * s \in Int /\ c * g \in Int
      BY <1>1
    <3>2. a * h = a * s + c * g
      BY <2>1, <2>2, Zenon
    <3>3. n = (t + a * s) + c * g
      BY <1>6, Zenon
    <3>4. (t + a * s) + c * g = t + (a * s + c * g)
      BY ONLY <3>1, t \in 0 .. a - 1, a \in Nat \ {0}
    <3> QED
      BY <1>7, <3>2, <3>3, <3>4, Zenon
  <2>4. h = y
    BY <2>3, TwoDigits
  <2> QED
    BY <2>2, <2>4
<1>9. s = q * b + (s % b)
  BY <1>3, <1>6, DigitBefore
<1>10. y = k * b + (y % b)
  <2>1. n \div a = (n \div c) * b + ((n \div a) % b)
    BY ONLY <1>2, a \in Nat \ {0}, b \in Nat \ {0}, c = b * a, DigitBefore
  <2> QED
    BY <1>4, <1>7, <2>1, Zenon
<1>11. PICK e \in Int, f \in Int : e = s % b /\ f = y % b
  OBVIOUS
<1>12. k * b = q * b + b * g
  BY <1>5
<1>13. q * b \in Int /\ b * g \in Int /\ k * b \in Int
  OBVIOUS
<1>14. e = f
  <2>1. PICK qb \in Int, bg \in Int, kb \in Int : qb = q * b /\ bg = b * g /\ kb = k * b
    BY <1>13
  <2>2. s = qb + e /\ y = kb + f /\ kb = qb + bg /\ y = s + bg
    BY <1>8, <1>9, <1>10, <1>11, <1>12, <2>1, Zenon
  <2> QED
    BY <2>2
<1> QED
  BY <1>6, <1>7, <1>11, <1>14, Zenon

\* A power is a multiple of the lower ones.
LEMMA LowerPower ==
  ASSUME NEW B \in {2, 4, 8, 10, 16}, NEW d \in 0 .. 8, NEW i1 \in 0 .. d
  PROVE  \E f \in Nat : B ^ d = B ^ i1 * f
<1> DEFINE S == {k \in Nat : i1 <= k /\ k <= 8 => \E f \in Nat : B ^ k = B ^ i1 * f}
<1>1. B ^ i1 \in Nat \ {0}
  <2>1. i1 \in 0 .. 8
    OBVIOUS
  <2> QED
    BY <2>1, Powers, Zenon
<1>2. B ^ i1 = B ^ i1 * 1
  <2>1. PICK w \in Nat : w = B ^ i1
    BY <1>1, Zenon
  <2>2. w * 1 = w
    OBVIOUS
  <2> QED
    BY <2>1, <2>2, Zenon
<1>3. 1 \in Nat
  OBVIOUS
<1>4. 0 \in S
  <2>1. 0 \in Nat
    OBVIOUS
  <2>2. ASSUME i1 <= 0 PROVE i1 = 0
    BY <2>2
  <2> QED
    BY <1>2, <1>3, <2>1, <2>2, Zenon
<1>5. ASSUME NEW k \in Nat, k \in S PROVE k + 1 \in S
  <2>1. k + 1 \in Nat
    OBVIOUS
  <2>2. ASSUME i1 <= k + 1, k + 1 <= 8 PROVE \E f \in Nat : B ^ (k + 1) = B ^ i1 * f
    <3>1. CASE i1 = k + 1
      BY <1>2, <1>3, <3>1, Zenon
    <3>2. CASE i1 # k + 1
      <4>1. i1 <= k /\ k <= 8 /\ k \in 0 .. 8
        BY <2>2, <3>2
      <4>2. PICK f \in Nat : B ^ k = B ^ i1 * f
        BY <1>5, <4>1, Zenon
      <4>3. B ^ (k + 1) = B * B ^ k
        BY <4>1, Powers, Zenon
      <4>4. PICK w \in Nat : w = B ^ i1
        BY <1>1, Zenon
      <4>5. B * (w * f) = w * (B * f) /\ B * f \in Nat
        OBVIOUS
      <4>6. B ^ (k + 1) = B ^ i1 * (B * f)
        BY <4>2, <4>3, <4>4, <4>5, Zenon
      <4> QED
        BY <4>5, <4>6, Zenon
    <3> QED
      BY <3>1, <3>2
  <2> QED
    BY <2>1, <2>2, Zenon
<1> HIDE DEF S
<1>6. \A k \in Nat : k \in S
  BY <1>4, <1>5, NumberInduction
<1>7. d \in S /\ i1 <= d /\ d <= 8
  BY <1>6
<1> QED
  BY <1>7, Zenon DEF S

\* Hexadecimal digits read back as the number, or as its rest when it is longer.
LEMMA HexRead ==
  ASSUME Unity!UnityAssumption, NEW d \in {2, 4, 8}, NEW n \in Nat, NEW minus,
         NEW B, B = 2 ^ (BYTE \div 2)
  PROVE  /\ B \in {2, 4, 8, 16} /\ B ^ d \in Nat \ {0}
         /\ Unity!Read([minus |-> minus, base |-> B, digits |-> Unity!Hexadecimal(n, d)])
              = IF minus THEN -(n % (B ^ d)) ELSE n % (B ^ d)
<1>1. B \in {2, 4, 8, 16}
  <2>1. BYTE \in {2, 4, 6, 8}
    BY DEF Unity!UnityAssumption
  <2>2. 2 \div 2 = 1 /\ 4 \div 2 = 2 /\ 6 \div 2 = 3 /\ 8 \div 2 = 4
    OBVIOUS
  <2>3. 2 ^ 1 = 2 /\ 2 ^ 2 = 4 /\ 2 ^ 3 = 8 /\ 2 ^ 4 = 16
    OBVIOUS
  <2> QED
    BY <2>1, <2>2, <2>3
<1>2. PICK p \in {1, 3, 7} : p = d - 1 /\ p + 1 = d
  OBVIOUS
<1>3. /\ B \in Nat \ {0} /\ B ^ 0 = 1 /\ \A j \in 0 .. p : B ^ j \in Nat \ {0}
      /\ \A j \in 0 .. p : B ^ (j + 1) = B * B ^ j /\ B ^ (j + 1) \in Nat \ {0}
  <2>1. B \in {2, 4, 8, 10, 16} /\ p + 1 \in 0 .. 9
    BY <1>1
  <2>2. /\ B \in Nat \ {0} /\ B ^ 0 = 1 /\ \A j \in 0 .. p + 1 : B ^ j \in Nat \ {0}
        /\ \A j \in 0 .. (p + 1) - 1 : B ^ (j + 1) = B * B ^ j
    BY <2>1, PowersUpTo, Zenon
  <2>3. (p + 1) - 1 = p /\ \A j \in 0 .. p : j \in 0 .. p + 1 /\ j + 1 \in 0 .. p + 1
    OBVIOUS
  <2> QED
    BY <2>2, <2>3, Zenon
<1>4. p \in 0 .. p /\ p \in Nat
  OBVIOUS
<1>5. PICK M \in Nat \ {0} : M = B ^ d
  BY <1>2, <1>3, <1>4, Zenon
<1>6. PICK m \in 0 .. M - 1, q \in Nat : m = n % M /\ n = m + M * q
  <2>1. n % M \in 0 .. M - 1 /\ n \div M \in Nat /\ n = (n % M) + M * (n \div M)
    OBVIOUS
  <2> QED
    BY <2>1
<1>7. m \div (B ^ p) < B
  <2>1. PICK w \in Nat \ {0} : w = B ^ p
    BY <1>3, <1>4, Zenon
  <2>2. M = B * w
    BY <1>2, <1>3, <1>4, <1>5, <2>1, Zenon
  <2>3. PICK u \in Int, v \in 0 .. w - 1 : u = m \div w /\ m = v + w * u
    OBVIOUS
  <2>4. ASSUME u >= B PROVE FALSE
    <3>1. w * (u - B) >= 0 /\ w * (u - B) = w * u - B * w
      BY <1>3, <2>4
    <3> QED
      BY <1>3, <2>2, <2>3, <3>1
  <2>5. u < B
    BY <1>3, <2>4
  <2> QED
    BY <2>1, <2>3, <2>5, Zenon
<1>8. ASSUME NEW k \in 0 .. p
      PROVE  (n \div (B ^ (p - k))) % B = (m \div (B ^ (p - k))) % B
  <2>1. PICK j \in 0 .. p : j = p - k
    OBVIOUS
  <2>2. PICK a \in Nat \ {0}, c \in Nat \ {0} : a = B ^ j /\ c = B ^ (j + 1) /\ c = B * a
    BY <1>3, <2>1, Zenon
  <2>3. PICK f \in Nat : M = c * f
    <3>1. B \in {2, 4, 8, 10, 16} /\ d \in 0 .. 8 /\ j + 1 \in 0 .. d
      BY <1>1, <1>2
    <3>2. \E f \in Nat : B ^ d = B ^ (j + 1) * f
      BY ONLY <3>1, LowerPower
    <3> QED
      BY <1>5, <2>2, <3>2, Zenon
  <2>4. PICK g \in Nat : g = f * q
    OBVIOUS
  <2>5. n = m + c * g
    <3>1. M * q = c * (f * q)
      BY <2>3
    <3> QED
      BY <1>6, <2>4, <3>1, Zenon
  <2>6. m \in Nat
    OBVIOUS
  <2>7. (n \div a) % B = (m \div a) % B
    <3>1. B \in Nat \ {0}
      BY <1>3
    <3>2. PICK b \in Nat \ {0} : b = B
      BY <3>1
    <3>3. c = b * a /\ a \in Nat \ {0} /\ g \in Nat
      BY <2>2, <3>2, Zenon
    <3>4. (n \div a) % b = (m \div a) % b
      <4>1. Longer(n, m, a, b, c, g)
        BY <2>5, <2>6, <3>3, Zenon DEF Longer
      <4> QED
        BY ONLY <4>1, DigitKept
    <3> QED
      BY <3>2, <3>4, Zenon
  <2> QED
    BY <2>1, <2>2, <2>7, Zenon
<1>9. Unity!Hexadecimal(n, d) = [k \in 0 .. p |-> (m \div (B ^ (p - k))) % B]
  <2>1. Unity!Hexadecimal(n, d) = [k \in 0 .. d - 1 |-> (n \div (B ^ (d - 1 - k))) % B]
    BY Zenon DEF Unity!Hexadecimal
  <2>2. Unity!Hexadecimal(n, d) = [k \in 0 .. p |-> (n \div (B ^ (p - k))) % B]
    BY <1>2, <2>1, Zenon
  <2> QED
    BY <1>8, <2>2, Zenon
<1>10. PICK digits : digits = Unity!Hexadecimal(n, d)
  OBVIOUS
<1>11. InPlaces(B, p, m, digits)
  <2>1. m \in Nat
    OBVIOUS
  <2>2. \A j \in 0 .. p - 1 : j \in 0 .. p
    OBVIOUS
  <2> QED
    BY <1>3, <1>4, <1>7, <1>9, <1>10, <2>1, <2>2, Zenon DEF InPlaces
<1>12. Unity!Read([minus |-> minus, base |-> B, digits |-> digits]) = IF minus THEN -m ELSE m
  BY ONLY <1>11, ReadBack
<1> QED
  BY <1>1, <1>5, <1>6, <1>10, <1>12, Zenon

\* Two hexadecimal digits to a byte, and ten decimal ones to the widest type.
LEMMA DigitsOfTypes ==
  ASSUME Unity!UnityAssumption, NEW size \in {1, 2, 4}
  PROVE  /\ (2 ^ (BYTE \div 2)) ^ (2 * size) = 2 ^ (size * BYTE)
         /\ \E c \in Nat \ {0} : 2 ^ (4 * BYTE) = 2 ^ (size * BYTE) * c
         /\ \A m \in 0 .. 2 ^ (4 * BYTE) - 1 : m \div (10 ^ 9) <= 9
<1>1. BYTE \in {2, 4, 6, 8}
  BY DEF Unity!UnityAssumption
<1>2. CASE BYTE = 2
  <2>1. /\ (2 ^ (2 \div 2)) ^ (2 * 1) = 2 ^ (1 * 2)
        /\ (2 ^ (2 \div 2)) ^ (2 * 2) = 2 ^ (2 * 2)
        /\ (2 ^ (2 \div 2)) ^ (2 * 4) = 2 ^ (4 * 2)
    BY SMT
  <2>2. /\ 2 ^ (4 * 2) = 2 ^ (1 * 2) * 2 ^ (3 * 2) /\ 2 ^ (3 * 2) \in Nat \ {0}
        /\ 2 ^ (4 * 2) = 2 ^ (2 * 2) * 2 ^ (2 * 2) /\ 2 ^ (2 * 2) \in Nat \ {0}
        /\ 2 ^ (4 * 2) = 2 ^ (4 * 2) * 1 /\ 1 \in Nat \ {0}
    BY SMT
  <2>3. \A m \in 0 .. 2 ^ (4 * 2) - 1 : m \div (10 ^ 9) <= 9
    BY SMT
  <2>4. size = 1 \/ size = 2 \/ size = 4
    OBVIOUS
  <2> QED
    BY <1>2, <2>1, <2>2, <2>3, <2>4, Zenon
<1>3. CASE BYTE = 4
  <2>1. /\ (2 ^ (4 \div 2)) ^ (2 * 1) = 2 ^ (1 * 4)
        /\ (2 ^ (4 \div 2)) ^ (2 * 2) = 2 ^ (2 * 4)
        /\ (2 ^ (4 \div 2)) ^ (2 * 4) = 2 ^ (4 * 4)
    BY SMT
  <2>2. /\ 2 ^ (4 * 4) = 2 ^ (1 * 4) * 2 ^ (3 * 4) /\ 2 ^ (3 * 4) \in Nat \ {0}
        /\ 2 ^ (4 * 4) = 2 ^ (2 * 4) * 2 ^ (2 * 4) /\ 2 ^ (2 * 4) \in Nat \ {0}
        /\ 2 ^ (4 * 4) = 2 ^ (4 * 4) * 1 /\ 1 \in Nat \ {0}
    BY SMT
  <2>3. \A m \in 0 .. 2 ^ (4 * 4) - 1 : m \div (10 ^ 9) <= 9
    BY SMT
  <2>4. size = 1 \/ size = 2 \/ size = 4
    OBVIOUS
  <2> QED
    BY <1>3, <2>1, <2>2, <2>3, <2>4, Zenon
<1>4. CASE BYTE = 6
  <2>1. /\ (2 ^ (6 \div 2)) ^ (2 * 1) = 2 ^ (1 * 6)
        /\ (2 ^ (6 \div 2)) ^ (2 * 2) = 2 ^ (2 * 6)
        /\ (2 ^ (6 \div 2)) ^ (2 * 4) = 2 ^ (4 * 6)
    BY SMT
  <2>2. /\ 2 ^ (4 * 6) = 2 ^ (1 * 6) * 2 ^ (3 * 6) /\ 2 ^ (3 * 6) \in Nat \ {0}
        /\ 2 ^ (4 * 6) = 2 ^ (2 * 6) * 2 ^ (2 * 6) /\ 2 ^ (2 * 6) \in Nat \ {0}
        /\ 2 ^ (4 * 6) = 2 ^ (4 * 6) * 1 /\ 1 \in Nat \ {0}
    BY SMT
  <2>3. \A m \in 0 .. 2 ^ (4 * 6) - 1 : m \div (10 ^ 9) <= 9
    BY SMT
  <2>4. size = 1 \/ size = 2 \/ size = 4
    OBVIOUS
  <2> QED
    BY <1>4, <2>1, <2>2, <2>3, <2>4, Zenon
<1>5. CASE BYTE = 8
  <2>1. /\ (2 ^ (8 \div 2)) ^ (2 * 1) = 2 ^ (1 * 8)
        /\ (2 ^ (8 \div 2)) ^ (2 * 2) = 2 ^ (2 * 8)
        /\ (2 ^ (8 \div 2)) ^ (2 * 4) = 2 ^ (4 * 8)
    BY SMT
  <2>2. /\ 2 ^ (4 * 8) = 2 ^ (1 * 8) * 2 ^ (3 * 8) /\ 2 ^ (3 * 8) \in Nat \ {0}
        /\ 2 ^ (4 * 8) = 2 ^ (2 * 8) * 2 ^ (2 * 8) /\ 2 ^ (2 * 8) \in Nat \ {0}
        /\ 2 ^ (4 * 8) = 2 ^ (4 * 8) * 1 /\ 1 \in Nat \ {0}
    BY SMT
  <2>3. \A m \in 0 .. 2 ^ (4 * 8) - 1 : m \div (10 ^ 9) <= 9
    BY SMT
  <2>4. size = 1 \/ size = 2 \/ size = 4
    OBVIOUS
  <2> QED
    BY <1>5, <2>1, <2>2, <2>3, <2>4, Zenon
<1> QED
  BY <1>1, <1>2, <1>3, <1>4, <1>5

\* A number of a type, or the signed one that stands for it, in hexadecimal.
LEMMA HexOfType ==
  ASSUME Unity!UnityAssumption, NEW size \in {1, 2, 4}, NEW h \in Nat \ {0}, NEW k \in Nat \ {0},
         Reads(4, k), 2 ^ (size * BYTE) = 2 * h, 2 ^ (4 * BYTE) = 2 * k,
         NEW u \in 0 .. 2 * h - 1, NEW n, n = u \/ n = Widened(u, h)
  PROVE  Unity!Read([minus |-> FALSE, base |-> 2 ^ (BYTE \div 2),
                     digits |-> Unity!Hexadecimal(Unity!Unsigned(n, 4), 2 * size)]) = u
<1>1. PICK c \in Nat \ {0} : 2 * k = (2 * h) * c
  BY DigitsOfTypes
<1>2. PICK V \in Nat \ {0} : V = 2 * h
  OBVIOUS
<1>3. /\ 2 * k = V * c /\ V * c >= V /\ u \in 0 .. V - 1
      /\ n = u \/ (n = u - V /\ n \in -h .. -1)
      /\ n \in Int /\ h <= k
  <2>1. V * (c - 1) >= 0 /\ V * c = V * (c - 1) + V
    OBVIOUS
  <2> QED
    BY <1>1, <1>2, <2>1 DEF Widened
<1>4. PICK m \in Nat : /\ m = Unity!Unsigned(n, 4)
                       /\ m = IF n >= 0 THEN n ELSE n + 2 * k
  <2>1. /\ Unity!Unsigned(n, 4) \in 0 .. 2 * k - 1
        /\ Unity!Unsigned(n, 4) = IF Unity!Signed(n, 4) < 0 THEN Unity!Signed(n, 4) + 2 * k
                                                           ELSE Unity!Signed(n, 4)
        /\ n \in -k .. k - 1 => Unity!Signed(n, 4) = n
        /\ n \in 0 .. 2 * k - 1 => Unity!Unsigned(n, 4) = n
    BY <1>3 DEF Reads, SameNumber
  <2>2. CASE n >= 0
    <3>1. n \in 0 .. 2 * k - 1
      BY <1>3, <2>2
    <3> QED
      BY <2>1, <2>2, <3>1
  <2>3. CASE n < 0
    <3>1. n \in -k .. k - 1
      BY <1>3, <2>3
    <3> QED
      BY <2>1, <2>3, <3>1
  <2> QED
    BY <1>3, <2>2, <2>3
<1>5. m % V = u
  <2>1. PICK g \in Nat : m = u + V * g
    <3>1. CASE n = u
      <4>1. m = u + V * 0
        BY <1>3, <1>4, <3>1
      <4> QED
        BY <4>1
    <3>2. CASE n = u - V /\ n \in -h .. -1
      <4>1. PICK f \in Nat : f = c - 1
        OBVIOUS
      <4>2. V * f = V * c - V
        BY <4>1
      <4>3. m = u + V * f
        BY <1>3, <1>4, <3>2, <4>2
      <4> QED
        BY <4>3
    <3> QED
      BY <1>3, <3>1, <3>2
  <2>2. PICK q \in Int, r \in 0 .. V - 1 : r = m % V /\ m = r + V * q
    BY ONLY m \in Nat, V \in Nat \ {0}
  <2>3. r + V * q = u + V * g
    BY <2>1, <2>2, Zenon
  <2>4. r = u
    BY <1>3, <2>3, TwoDigits
  <2> QED
    BY <2>2, <2>4, Zenon
<1>6. PICK d, B : d \in {2, 4, 8} /\ d = 2 * size /\ B = 2 ^ (BYTE \div 2)
  OBVIOUS
<1>7. B ^ d = V
  BY <1>2, <1>6, DigitsOfTypes, Zenon
<1>8. Unity!Read([minus |-> FALSE, base |-> B, digits |-> Unity!Hexadecimal(m, d)]) = m % (B ^ d)
  <2>1. PICK minus : minus = FALSE
    OBVIOUS
  <2>2. Unity!Read([minus |-> minus, base |-> B, digits |-> Unity!Hexadecimal(m, d)])
          = IF minus THEN -(m % (B ^ d)) ELSE m % (B ^ d)
    BY ONLY Unity!UnityAssumption, <1>6, m \in Nat, HexRead
  <2> QED
    BY <2>1, <2>2, Zenon
<1> QED
  BY <1>4, <1>5, <1>6, <1>7, <1>8, Zenon

\* What is read back of a number an assertion prints, by the style it prints in.
LEMMA PrintedDecimal ==
  ASSUME Unity!UnityAssumption, NEW k \in Nat \ {0}, Reads(4, k), 2 ^ (4 * BYTE) = 2 * k,
         NEW m \in 0 .. 2 * k - 1
  PROVE  /\ Unity!Unsigned(m, 4) = m
         /\ Unity!Read([minus |-> FALSE, base |-> 10,
                        digits |-> Unity!Decimal(Unity!Unsigned(m, 4))]) = m
         /\ Unity!Read([minus |-> TRUE, base |-> 10,
                        digits |-> Unity!Decimal(Unity!Unsigned(m, 4))]) = -m
<1>1. Unity!Unsigned(m, 4) = m
  BY DEF Reads, SameNumber
<1>2. m \in Nat /\ m \div (10 ^ 9) <= 9
  <2>1. 4 \in {1, 2, 4} /\ m \in Nat
    OBVIOUS
  <2>2. \A n \in 0 .. 2 ^ (4 * BYTE) - 1 : n \div (10 ^ 9) <= 9
    BY <2>1, DigitsOfTypes, Zenon
  <2> QED
    BY <2>1, <2>2, Zenon
<1>3. ASSUME NEW minus \in BOOLEAN
      PROVE  Unity!Read([minus |-> minus, base |-> 10, digits |-> Unity!Decimal(m)])
               = IF minus THEN -m ELSE m
  BY ONLY <1>2, minus \in BOOLEAN, DecimalRead
<1> QED
  BY <1>1, <1>3, Zenon

LEMMA PrintedSelf ==
  ASSUME NEW n \in Int
  PROVE  Unity!Read([minus |-> FALSE, base |-> 0, digits |-> [j \in 0 .. 0 |-> n]]) = n
<1> DEFINE v == [j \in -1 .. 0 |-> IF j < 0 THEN 0 ELSE n]
<1>1. PICK B, p, minus, digits :
        B = 0 /\ p = 0 /\ minus = FALSE /\ digits = [j \in 0 .. 0 |-> n]
  OBVIOUS
<1>2. /\ B \in Int /\ p \in Nat /\ DOMAIN digits = 0 .. p
      /\ \A j \in 0 .. p : j = 0 /\ digits[j] = n
  BY <1>1
<1>3. v \in [-1 .. p -> Int] /\ v[-1] = 0 /\ v[0] = n /\ 0 - 1 = -1
  BY <1>1
<1> HIDE DEF v
<1>4. 0 * B + n = n
  BY <1>1
<1>5. Leads(B, p, digits, v)
  BY <1>2, <1>3, <1>4, Zenon DEF Leads
<1>6. Unity!Read([minus |-> minus, base |-> B, digits |-> digits]) = IF minus THEN -v[p] ELSE v[p]
  BY ONLY <1>5, ReadEnds
<1> QED
  BY <1>1, <1>3, <1>6, Zenon

\* The numbers an assertion prints are those of the asserted type.
LEMMA MessagesRight ==
  ASSUME Unity!UnityAssumption, NEW style \in Unity!Styles, NEW n1 \in Int
  PROVE  Unity!MessagesTell(style, n1)
<1> DEFINE v == Unity!Value(n1, style)
           u == Unity!Unsigned(n1, style.size)
           printed == {Unity!EqualCast(n1, style), Unity!Cast(n1, style), Unity!Element(n1, style)}
<1>1. /\ style.range \in {"int", "char", "uint", "hex"} /\ style.size \in {1, 2, 4}
      /\ style.range = "char" => style.size = 1
  BY DEF Unity!Styles, Unity!INT
<1>2. PICK h \in Nat \ {0}, k \in Nat \ {0} :
        /\ Reads(style.size, h) /\ Reads(4, k)
        /\ 2 ^ (style.size * BYTE) = 2 * h /\ 2 ^ (4 * BYTE) = 2 * k
        /\ IF style.size = 4 THEN h = k ELSE 2 * h <= k
  BY <1>1, ReadingBoth DEF Values
<1>3. /\ v \in Int
      /\ IF Unity!IsInt(style) THEN v \in -h .. h - 1 ELSE v \in 0 .. 2 * h - 1
      /\ Unity!Cast(n1, style) = IF Unity!IsInt(style) THEN v ELSE Widened(v, k)
      /\ Unity!EqualCast(n1, style) = CASE Unity!IsInt(style) -> v
                                        [] style.range = "uint" -> Widened(v, k)
                                        [] OTHER -> Widened(v, h)
      /\ Unity!Element(n1, style) =
           IF Unity!IsInt(style) \/ style.size # 4 THEN v ELSE Widened(v, k)
  BY <1>2, Conversions
<1>4. u \in 0 .. 2 * h - 1 /\ (style.range \in {"uint", "hex"} => v = u)
      /\ (style.range = "char" => v = Widened(u, h))
  <2>1. /\ u \in 0 .. 2 * h - 1 /\ Unity!Signed(n1, style.size) \in -h .. h - 1
        /\ u = IF Unity!Signed(n1, style.size) < 0 THEN Unity!Signed(n1, style.size) + 2 * h
                                                  ELSE Unity!Signed(n1, style.size)
    BY <1>2 DEF Reads, SameNumber
  <2> QED
    BY <2>1 DEF Unity!Value, Unity!IsInt, Widened
<1> HIDE DEF v, u, printed
<1>5. /\ style.range \in {"int", "char"} => \A n \in printed : n = v
      /\ style.range = "uint" => \A n \in printed : n = v \/ n = Widened(v, k)
      /\ style.range = "hex" => \A n \in printed : n = v \/ n = Widened(v, h)
  <2>1. ~Unity!IsInt(style) => Widened(v, k) = v \/ Widened(v, k) = Widened(v, h)
    BY <1>1, <1>2, <1>3 DEF Widened
  <2> QED
    BY <1>1, <1>3, <2>1 DEF Unity!IsInt, printed
<1>6. h <= k /\ 2 * h <= 2 * k
  BY <1>2
<1> DEFINE wanted == IF style.range = "hex" \/ (style.range = "char" /\ v \notin Printable)
                     THEN u ELSE v
<1>7. ASSUME NEW n \in printed PROVE Unity!Read(Unity!ByStyle(n, style)) = wanted
  <2>1. CASE style.range = "int"
    <3>1. n = v /\ v \in -h .. h - 1 /\ wanted = v
      BY <1>3, <1>5, <2>1 DEF Unity!IsInt
    <3>2. CASE n < 0
      <4>1. PICK m \in 0 .. 2 * k - 1 : m = -n /\ -m = n
        BY <1>6, <3>1, <3>2
      <4>2. Unity!Read([minus |-> TRUE, base |-> 10,
                        digits |-> Unity!Decimal(Unity!Unsigned(m, 4))]) = n
        BY <1>2, <4>1, PrintedDecimal, Zenon
      <4>3. Unity!ByStyle(n, style) = [minus |-> TRUE, base |-> 10,
                                       digits |-> Unity!Decimal(Unity!Unsigned(m, 4))]
        BY <2>1, <3>2, <4>1 DEF Unity!ByStyle, Unity!INT
      <4> QED
        BY <3>1, <4>2, <4>3
    <3>3. CASE ~(n < 0)
      <4>1. n \in 0 .. 2 * k - 1
        BY <1>6, <3>1, <3>3
      <4>2. Unity!Read([minus |-> FALSE, base |-> 10,
                        digits |-> Unity!Decimal(Unity!Unsigned(n, 4))]) = n
        BY <1>2, <4>1, PrintedDecimal, Zenon
      <4>3. Unity!ByStyle(n, style) = [minus |-> FALSE, base |-> 10,
                                       digits |-> Unity!Decimal(Unity!Unsigned(n, 4))]
        <5>1. (n < 0) = FALSE /\ (IF n < 0 THEN -n ELSE n) = n
          BY <3>3
        <5>2. Unity!ByStyle(n, style) = [minus |-> n < 0, base |-> 10,
                digits |-> Unity!Decimal(Unity!Unsigned(IF n < 0 THEN -n ELSE n, 4))]
          BY <2>1 DEF Unity!ByStyle, Unity!INT
        <5> QED
          BY <5>1, <5>2, Zenon
      <4> QED
        BY <3>1, <4>2, <4>3
    <3> QED
      BY <3>2, <3>3
  <2>2. CASE style.range = "uint"
    <3>1. (n = v \/ n = Widened(v, k)) /\ v \in 0 .. 2 * k - 1 /\ wanted = v
      BY <1>3, <1>5, <1>6, <2>2 DEF Unity!IsInt
    <3>2. Unity!Unsigned(n, 4) = v /\ Unity!Unsigned(v, 4) = v
      <4>1. Unity!Unsigned(v, 4) = v
        BY <1>2, <3>1 DEF Reads, SameNumber
      <4>2. CASE n # v
        <5>1. n = v - 2 * k /\ n \in -k .. -1
          BY <3>1, <4>2 DEF Widened
        <5>2. Unity!Signed(n, 4) = n /\ Unity!Unsigned(n, 4) =
                IF Unity!Signed(n, 4) < 0 THEN Unity!Signed(n, 4) + 2 * k ELSE Unity!Signed(n, 4)
          <6>1. n \in Int /\ n \in -k .. k - 1
            BY <5>1
          <6>2. SameNumber(n, k, Unity!Signed(n, 4), Unity!Unsigned(n, 4))
            BY <1>2, <6>1, Zenon DEF Reads
          <6> QED
            BY <6>1, <6>2 DEF SameNumber
        <5> QED
          BY <3>1, <4>1, <5>1, <5>2
      <4> QED
        BY <4>1, <4>2
    <3>3. Unity!Read([minus |-> FALSE, base |-> 10,
                      digits |-> Unity!Decimal(Unity!Unsigned(v, 4))]) = v
      BY <1>2, <3>1, PrintedDecimal, Zenon
    <3>4. Unity!ByStyle(n, style) = [minus |-> FALSE, base |-> 10,
                                     digits |-> Unity!Decimal(Unity!Unsigned(n, 4))]
      BY <2>2 DEF Unity!ByStyle, Unity!INT
    <3> QED
      BY <3>1, <3>2, <3>3, <3>4
  <2>3. CASE style.range = "hex"
    <3>1. (n = u \/ n = Widened(u, h)) /\ wanted = u
      BY <1>4, <1>5, <2>3
    <3>2. Unity!Read([minus |-> FALSE, base |-> 2 ^ (BYTE \div 2),
            digits |-> Unity!Hexadecimal(Unity!Unsigned(n, 4), 2 * style.size)]) = u
      BY <1>1, <1>2, <1>4, <3>1, HexOfType, ZenonT(30)
    <3>3. Unity!ByStyle(n, style) = [minus |-> FALSE, base |-> 2 ^ (BYTE \div 2),
            digits |-> Unity!Hexadecimal(Unity!Unsigned(n, 4), 2 * style.size)]
      BY <2>3 DEF Unity!ByStyle, Unity!INT
    <3> QED
      BY <3>1, <3>2, <3>3
  <2>4. CASE style.range = "char" /\ v \in Printable
    <3>1. n = v /\ wanted = v /\ v \in Int
      BY <1>3, <1>5, <2>4
    <3>2. Unity!ByStyle(n, style) = [minus |-> FALSE, base |-> 0, digits |-> [j \in 0 .. 0 |-> n]]
      BY <2>4, <3>1 DEF Unity!ByStyle
    <3> QED
      BY <3>1, <3>2, PrintedSelf
  <2>5. CASE style.range = "char" /\ v \notin Printable
    <3>1. n = v /\ n = Widened(u, h) /\ wanted = u /\ 2 = 2 * style.size
      BY <1>1, <1>4, <1>5, <2>5
    <3>2. Unity!Read([minus |-> FALSE, base |-> 2 ^ (BYTE \div 2),
            digits |-> Unity!Hexadecimal(Unity!Unsigned(n, 4), 2 * style.size)]) = u
      BY <1>1, <1>2, <1>4, <3>1, HexOfType, ZenonT(30)
    <3>3. Unity!ByStyle(n, style) = [minus |-> FALSE, base |-> 2 ^ (BYTE \div 2),
                                     digits |-> Unity!Hexadecimal(Unity!Unsigned(n, 4), 2)]
      BY <2>5, <3>1 DEF Unity!ByStyle, Unity!INT
    <3> QED
      BY <3>1, <3>2, <3>3
  <2> QED
    BY <1>1, <2>1, <2>2, <2>3, <2>4, <2>5
<1> QED
  BY <1>7, Zenon DEF Unity!MessagesTell, printed, v, u

-----------------------------------------------------------------------------
(* What Unity prints of a float.  All powers of ten it takes are those of  *)
(* at most eleven digits, and the provers know no others.                  *)

\* The powers of ten up to the longest text, and that they multiply.
LEMMA TenPowers ==
  ASSUME NEW j \in 0 .. 9
  PROVE  10 ^ j \in Nat \ {0} /\ 10 ^ (j + 1) \in Nat \ {0} /\ 10 ^ (j + 1) = 10 * 10 ^ j
<1>1. CASE j \in 0 .. 8
  <2>1. 10 ^ j \in Nat \ {0} /\ 10 ^ (j + 1) = 10 * 10 ^ j
    BY <1>1, Powers, Zenon
  <2>2. PICK w \in Nat \ {0} : w = 10 ^ j
    BY <2>1, Zenon
  <2>3. 10 * w \in Nat \ {0}
    BY <2>2
  <2> QED
    BY <2>1, <2>2, <2>3, Zenon
<1>2. CASE j = 9
  <2>1. 10 ^ 9 \in Nat \ {0} /\ 10 ^ (9 + 1) \in Nat \ {0} /\ 10 ^ (9 + 1) = 10 * 10 ^ 9
    OBVIOUS
  <2> QED
    BY <1>2, <2>1, Zenon
<1> QED
  BY <1>1, <1>2

\* All of those powers are positive.
LEMMA TenTyped ==
  ASSUME NEW j \in 0 .. 10 PROVE 10 ^ j \in Nat \ {0}
<1>1. CASE j \in 0 .. 9
  BY <1>1, TenPowers, Zenon
<1>2. CASE j = 10
  <2>1. 10 ^ 10 \in Nat \ {0}
    OBVIOUS
  <2> QED
    BY <1>2, <2>1, Zenon
<1> QED
  BY <1>1, <1>2

\* Powers multiply as their exponents add.
LEMMA TenTimes ==
  ASSUME NEW a \in 0 .. 10, NEW b \in 0 .. 10, NEW c \in 0 .. 10, c = a + b
  PROVE  10 ^ c = 10 ^ a * 10 ^ b
<1> DEFINE S == {k \in Nat : b + k <= 10 => 10 ^ (b + k) = 10 ^ k * 10 ^ b}
<1>1. 0 \in S
  <2>1. PICK w \in Nat : w = 10 ^ b
    BY TenTyped, Zenon
  <2>2. b + 0 = b /\ 10 ^ 0 = 1 /\ 1 * w = w
    OBVIOUS
  <2>3. 10 ^ (b + 0) = 10 ^ 0 * 10 ^ b
    BY <2>1, <2>2, Zenon
  <2> QED
    BY <2>3
<1>2. ASSUME NEW k \in Nat, k \in S PROVE k + 1 \in S
  <2> SUFFICES ASSUME b + (k + 1) <= 10 PROVE 10 ^ (b + (k + 1)) = 10 ^ (k + 1) * 10 ^ b
    OBVIOUS
  <2>1. b + k \in 0 .. 9 /\ k \in 0 .. 9 /\ b + (k + 1) = (b + k) + 1 /\ b + k <= 10
    OBVIOUS
  <2>2. 10 ^ ((b + k) + 1) = 10 * 10 ^ (b + k) /\ 10 ^ (k + 1) = 10 * 10 ^ k
    BY <2>1, TenPowers, Zenon
  <2>3. 10 ^ (b + k) = 10 ^ k * 10 ^ b
    BY <1>2, <2>1, Zenon
  <2>4. PICK u \in Nat, w \in Nat : u = 10 ^ k /\ w = 10 ^ b
    <3>1. k \in 0 .. 10 /\ b \in 0 .. 10
      BY <2>1
    <3> QED
      BY <3>1, TenTyped, Zenon
  <2>5. 10 * (u * w) = (10 * u) * w
    BY <2>4
  <2> QED
    BY <2>1, <2>2, <2>3, <2>4, <2>5, Zenon
<1> HIDE DEF S
<1>3. \A k \in Nat : k \in S
  BY <1>1, <1>2, NumberInduction
<1>4. a \in Nat /\ b + a = c /\ b + a <= 10
  OBVIOUS
<1>5. a \in S
  BY <1>3, <1>4, Zenon
<1> QED
  BY <1>4, <1>5, Zenon DEF S

\* More places make a greater power.
LEMMA TenOrder ==
  ASSUME NEW a \in 0 .. 10, NEW b \in 0 .. 10, a <= b
  PROVE  10 ^ a <= 10 ^ b /\ (a < b => 10 * 10 ^ a <= 10 ^ b)
<1>1. PICK c \in 0 .. 10 : c = b - a
  OBVIOUS
<1>2. 10 ^ b = 10 ^ a * 10 ^ c
  <2>1. b = a + c
    BY <1>1
  <2> QED
    BY <2>1, TenTimes, Zenon
<1>3. PICK u \in Nat \ {0}, w \in Nat \ {0} : u = 10 ^ a /\ w = 10 ^ c
  BY TenTyped, Zenon
<1>4. u <= u * w
  BY <1>3
<1>5. ASSUME a < b PROVE 10 * u <= u * w
  <2>1. PICK f \in 0 .. 9 : c = f + 1
    BY <1>1, <1>5
  <2>2. w = 10 * 10 ^ f /\ 10 ^ f \in Nat \ {0}
    BY <1>3, <2>1, TenPowers, Zenon
  <2>3. PICK v \in Nat \ {0} : v = 10 ^ f
    BY <2>2, Zenon
  <2>4. u * (10 * v) = 10 * (u * v) /\ u <= u * v
    OBVIOUS
  <2>5. w = 10 * v
    BY <2>2, <2>3, Zenon
  <2> QED
    BY <2>4, <2>5
<1> QED
  BY <1>2, <1>3, <1>4, <1>5, Zenon

-----------------------------------------------------------------------------
\* How many digits a number has.
LEMMA DigitsFacts ==
  ASSUME NEW n \in Nat, n < 10 ^ 9
  PROVE  /\ Unity!Digits(n) \in 0 .. 9 /\ n < 10 ^ Unity!Digits(n)
         /\ n = 0 => Unity!Digits(n) = 0
         /\ n > 0 => Unity!Digits(n) \in 1 .. 9 /\ 10 ^ (Unity!Digits(n) - 1) <= n
<1> DEFINE S == {d \in 0 .. 9 : n < 10 ^ d}
<1>1. 9 \in S /\ S \in SUBSET Nat
  <2>1. 9 \in 0 .. 9
    OBVIOUS
  <2>2. 9 \in S
    BY <2>1, Zenon
  <2>3. \A k \in S : k \in 0 .. 9
    BY Zenon
  <2> HIDE DEF S
  <2> QED
    BY <2>2, <2>3
<1>2. PICK d \in S : \A k \in S : d <= k
  <2> HIDE DEF S
  <2> QED
    BY <1>1, LeastNumber
<1>3. d \in 0 .. 9 /\ n < 10 ^ d
  BY <1>2, Zenon
<1>4. Unity!Digits(n) = d
  <2>1. Unity!Digits(n) = Unity!Min(S)
    BY Zenon DEF Unity!Digits
  <2>2. S \in SUBSET Int
    BY <1>1
  <2> HIDE DEF S
  <2> QED
    BY <1>2, <2>1, <2>2, LeastRead
<1>5. ASSUME n = 0 PROVE d = 0
  <2>1. 0 \in 0 .. 9 /\ 10 ^ 0 = 1 /\ n < 1
    BY <1>5
  <2>2. 0 \in S
    BY <2>1, Zenon
  <2>3. d <= 0
    BY <1>2, <2>2, Zenon
  <2> QED
    BY <1>3, <2>3
<1>6. ASSUME n > 0 PROVE d \in 1 .. 9 /\ 10 ^ (d - 1) <= n
  <2>1. d # 0
    <3>1. 10 ^ 0 = 1 /\ ~ (n < 1)
      BY <1>6
    <3> QED
      BY <1>3, <3>1, Zenon
  <2>2. d \in 1 .. 9 /\ d - 1 \in 0 .. 9 /\ ~(d <= d - 1) /\ d - 1 \in 0 .. 10
    BY <1>3, <2>1
  <2>3. ~(n < 10 ^ (d - 1))
    BY <1>2, <2>2, Zenon
  <2>4. PICK w \in Nat : w = 10 ^ (d - 1)
    BY <2>2, TenTyped, Zenon
  <2>5. w <= n
    BY <2>3, <2>4
  <2> QED
    BY <2>2, <2>4, <2>5, Zenon
<1> QED
  BY <1>3, <1>4, <1>5, <1>6, Zenon

\* m units of X are n but for half a unit.
Halves(n, X, m) == 2 * (n - m * X) <= X /\ 2 * (m * X - n) <= X

\* m tells n, without its last digits, cut of them, or with -cut zeros behind it.
Rounds(n, cut, m) ==
  /\ m \in Nat
  /\ cut <= 0 => m = n * 10 ^ (-cut)
  /\ cut > 0 => Halves(n, 10 ^ cut, m)

\* A quotient rounded to the nearest number, and to the even one of two, is
\* off by half a unit at most.
LEMMA RoundNear ==
  ASSUME NEW n \in Nat, NEW k \in 1 .. 9
  PROVE  Unity!Round(n, -k) \in Nat /\ Halves(n, 10 ^ k, Unity!Round(n, -k))
<1>1. k \in 0 .. 10 /\ ~(-k >= 0) /\ -(-k) = k
  OBVIOUS
<1>2. PICK X \in Nat \ {0} : X = 10 ^ k
  BY <1>1, TenTyped, Zenon
<1> DEFINE up == (2 * n + X) \div (2 * X)
<1>3. Unity!Round(n, -k) = IF up % 2 = 1 /\ 2 * (up * X - n) = X THEN up - 1 ELSE up
  BY <1>1, <1>2, Zenon DEF Unity!Round
<1>4. 2 * X \in Nat \ {0} /\ 2 * n + X \in Nat
  OBVIOUS
<1>5. PICK q \in Int, t \in 0 .. 2 * X - 1 : q = up /\ 2 * n + X = (2 * X) * q + t
  BY <1>4
<1> HIDE DEF up
<1>6. PICK p \in Int : p = q * X /\ (2 * X) * q = 2 * p
  OBVIOUS
<1>7. 2 * p - 2 * n = X - t
  BY <1>5, <1>6
<1>8. q >= 0
  <2>1. CASE q <= -1
    <3>1. X * (-1 - q) >= 0 /\ X * (-1 - q) = -X - q * X
      BY <2>1
    <3> QED
      BY <1>6, <1>7, <3>1
  <2> QED
    BY <2>1
<1>9. CASE q % 2 = 1 /\ 2 * (q * X - n) = X
  <2>1. Unity!Round(n, -k) = q - 1
    BY <1>3, <1>5, <1>9
  <2>2. q # 0
    BY <1>9
  <2>3. (q - 1) * X = p - X
    BY <1>6
  <2> QED
    BY <1>2, <1>6, <1>8, <1>9, <2>1, <2>2, <2>3 DEF Halves
<1>10. CASE ~(q % 2 = 1 /\ 2 * (q * X - n) = X)
  <2>1. Unity!Round(n, -k) = q
    BY <1>3, <1>5, <1>10
  <2> QED
    BY <1>2, <1>6, <1>7, <1>8, <2>1 DEF Halves
<1> QED
  BY <1>9, <1>10

\* n lies between a and b units of X.
Spanned(n, X, a, b) == a * X <= n /\ n <= b * X

\* What is half a unit off at most does not leave the units around it.
LEMMA HalvesBetween ==
  ASSUME NEW n \in Int, NEW X \in Nat \ {0}, NEW m \in Int, Halves(n, X, m),
         NEW a \in Int, NEW b \in Int, Spanned(n, X, a, b)
  PROVE  a <= m /\ m <= b
<1>0. PICK c \in Int, d \in Int : c = a * X /\ d = b * X /\ c <= n /\ n <= d
  BY DEF Spanned
<1>1. PICK p \in Int : p = m * X /\ 2 * (n - p) <= X /\ 2 * (p - n) <= X
  BY DEF Halves
<1>2. CASE m <= a - 1
  <2>1. X * (a - 1 - m) >= 0 /\ X * (a - 1 - m) = c - X - p
    BY <1>0, <1>1, <1>2
  <2> QED
    BY <1>0, <1>1, <2>1
<1>3. CASE m >= b + 1
  <2>1. X * (m - b - 1) >= 0 /\ X * (m - b - 1) = p - d - X
    BY <1>0, <1>1, <1>3
  <2> QED
    BY <1>0, <1>1, <2>1
<1> QED
  BY <1>2, <1>3

\* Rounding does round, to digits and to zeros.
LEMMA RoundTells ==
  ASSUME NEW n \in Nat, NEW cut \in -10 .. 9 PROVE Rounds(n, cut, Unity!Round(n, -cut))
<1>1. CASE cut <= 0
  <2>1. -cut >= 0 /\ -cut \in 0 .. 10 /\ ~(cut > 0)
    BY <1>1
  <2>2. PICK w \in Nat : w = 10 ^ (-cut)
    BY <2>1, TenTyped, Zenon
  <2>3. Unity!Round(n, -cut) = n * 10 ^ (-cut)
    BY <2>1, Zenon DEF Unity!Round
  <2>4. n * w \in Nat
    OBVIOUS
  <2> QED
    BY <2>1, <2>2, <2>3, <2>4, Zenon DEF Rounds
<1>2. CASE cut > 0
  <2>1. cut \in 1 .. 9 /\ ~(cut <= 0)
    BY <1>2
  <2> QED
    BY <2>1, RoundNear, Zenon DEF Rounds
<1> QED
  BY <1>1, <1>2

\* Between powers of ten the digits kept are too.
LEMMA RoundsBetween ==
  ASSUME NEW n \in Nat, NEW cut \in -9 .. 9, NEW m, Rounds(n, cut, m),
         NEW a \in 0 .. 9, NEW b \in 0 .. 9, a - cut \in 0 .. 9, b - cut \in 0 .. 9,
         10 ^ a <= n, n <= 10 ^ b
  PROVE  10 ^ (a - cut) <= m /\ m <= 10 ^ (b - cut)
<1>1. PICK A \in Nat, B \in Nat, C \in Nat, E \in Nat :
        A = 10 ^ a /\ B = 10 ^ b /\ C = 10 ^ (a - cut) /\ E = 10 ^ (b - cut)
  <2>1. a \in 0 .. 10 /\ b \in 0 .. 10 /\ a - cut \in 0 .. 10 /\ b - cut \in 0 .. 10
    OBVIOUS
  <2> QED
    BY <2>1, TenTyped, Zenon
<1>2. A <= n /\ n <= B
  BY <1>1, Zenon
<1>3. m \in Nat
  BY DEF Rounds
<1>4. CASE cut <= 0
  <2>1. PICK y \in 0 .. 10 : y = -cut /\ a - cut = a + y /\ b - cut = b + y
    BY <1>4
  <2>2. PICK w \in Nat \ {0} : w = 10 ^ y
    BY TenTyped, Zenon
  <2>3. /\ a \in 0 .. 10 /\ b \in 0 .. 10 /\ a - cut \in 0 .. 10 /\ b - cut \in 0 .. 10
    OBVIOUS
  <2>4. C = A * w /\ E = B * w
    BY <1>1, <2>1, <2>2, <2>3, TenTimes, Zenon
  <2>5. m = n * w
    BY <1>4, <2>1, <2>2, Zenon DEF Rounds
  <2>6. A * w <= n * w /\ n * w <= B * w
    <3>1. (n - A) * w >= 0 /\ (n - A) * w = n * w - A * w
      BY <1>2
    <3>2. (B - n) * w >= 0 /\ (B - n) * w = B * w - n * w
      BY <1>2
    <3>3. n * w \in Int /\ A * w \in Int /\ B * w \in Int
      OBVIOUS
    <3> QED
      BY <3>1, <3>2, <3>3
  <2> QED
    BY <1>1, <2>4, <2>5, <2>6, Zenon
<1>5. CASE cut > 0
  <2>1. /\ cut \in 0 .. 10 /\ a \in 0 .. 10 /\ b \in 0 .. 10
        /\ a - cut \in 0 .. 10 /\ b - cut \in 0 .. 10 /\ a = (a - cut) + cut /\ b = (b - cut) + cut
    BY <1>5
  <2>2. PICK w \in Nat \ {0} : w = 10 ^ cut
    BY <2>1, TenTyped, Zenon
  <2>3. A = C * w /\ B = E * w
    BY <1>1, <2>1, <2>2, TenTimes, Zenon
  <2>4. Halves(n, w, m)
    BY <1>5, <2>2, Zenon DEF Rounds
  <2>5. A \in Int /\ B \in Int /\ C \in Int /\ E \in Int /\ m \in Int /\ n \in Int
    BY <1>3
  <2>6. Spanned(n, w, C, E)
    BY <1>2, <2>3, Zenon DEF Spanned
  <2>7. C <= m /\ m <= E
    BY <2>4, <2>5, <2>6, HalvesBetween, Zenon
  <2> QED
    BY <1>1, <2>7, Zenon
<1> QED
  BY <1>4, <1>5

LEMMA Scale == SIG \in 1 .. 7 /\ LEAP \in Nat \ {0} /\ ACCURACY \in Nat \ {0}
BY PartsAssumption DEF Unity!UnityAssumption

\* n has D digits, and is at most the power of ten that Over tells.
Long(n, D) ==
  /\ n \in Nat \ {0} /\ D \in 1 .. 9 /\ Unity!Digits(n) = D
  /\ 10 ^ (D - 1) <= n /\ n < 10 ^ D

Over(n, D) == IF n = 10 ^ (D - 1) THEN D - 1 ELSE D

\* Below and AtMost compare by the number of digits.
LEMMA Sizes ==
  ASSUME NEW n, NEW D, Long(n, D), NEW e \in Int, NEW k \in Int
  PROVE  /\ Unity!Below(n, e, k) <=> D + e <= k
         /\ Unity!AtMost(n, e, k) <=> Over(n, D) + e <= k
<1>1. n \in Nat \ {0} /\ D \in 1 .. 9 /\ Unity!Digits(n) = D
  BY DEF Long
<1>2. Unity!Below(n, e, k) <=> D + e <= k
  BY <1>1 DEF Unity!Below
<1>3. Unity!AtMost(n, e, k) <=> D + e <= k \/ (n = 10 ^ (D - 1) /\ D - 1 + e = k)
  BY <1>1, <1>2, Zenon DEF Unity!AtMost
<1>4. CASE n = 10 ^ (D - 1)
  <2>1. Over(n, D) = D - 1
    BY <1>4 DEF Over
  <2>2. D + e <= k \/ D - 1 + e = k <=> (D - 1) + e <= k
    BY <1>1
  <2> QED
    BY <1>2, <1>3, <1>4, <2>1, <2>2, Zenon
<1>5. CASE ~(n = 10 ^ (D - 1))
  BY <1>2, <1>3, <1>5, Zenon DEF Over
<1> QED
  BY <1>4, <1>5

\* Leaps, and steps of one, bring a number to SIG digits before the point:
\* up one that is below 1 ...
LEMMA ScaledUp ==
  ASSUME NEW n, NEW D, Long(n, D), NEW e \in Exponents, D + e <= 0
  PROVE  Unity!ScaleUp(n, e) = SIG - D - e
<1>1. SIG \in 1 .. 7 /\ LEAP \in Nat \ {0} /\ D \in 1 .. 9 /\ e \in Int /\ e >= SIG - 10 * LEAP
  BY Scale DEF Long, Exponents
<1> DEFINE S == {k \in 0 .. 9 : ~Unity!Below(n, e + LEAP * k, SIG - LEAP)}
<1>2. \A k \in 0 .. 9 : k \in S <=> D + (e + LEAP * k) > SIG - LEAP
  <2> SUFFICES ASSUME NEW k \in 0 .. 9 PROVE k \in S <=> D + (e + LEAP * k) > SIG - LEAP
    OBVIOUS
  <2>1. e + LEAP * k \in Int /\ SIG - LEAP \in Int
    BY <1>1
  <2>2. Unity!Below(n, e + LEAP * k, SIG - LEAP) <=> D + (e + LEAP * k) <= SIG - LEAP
    BY <2>1, Sizes, Zenon
  <2> QED
    BY <1>1, <2>1, <2>2
<1>3. S \in SUBSET (0 .. 9)
  OBVIOUS
<1>4. 9 \in S
  <2>1. D + (e + LEAP * 9) > SIG - LEAP
    BY <1>1
  <2> HIDE DEF S
  <2> QED
    BY <1>2, <2>1
<1> HIDE DEF S
<1>5. PICK l \in S : \A k \in S : l <= k
  <2>1. S \in SUBSET Nat /\ S # {}
    BY <1>3, <1>4
  <2> QED
    BY <2>1, LeastNumber
<1>6. Unity!Min(S) = l
  <2>1. S \in SUBSET Int
    BY <1>3
  <2> QED
    BY <1>5, <2>1, LeastRead
<1>7. PICK P \in Int : P = D + (e + LEAP * l)
  BY <1>1, <1>3, <1>5
<1>8. P > SIG - LEAP /\ P <= SIG
  <2>1. P > SIG - LEAP
    BY <1>2, <1>3, <1>5, <1>7
  <2>2. CASE l = 0
    BY <1>1, <1>7, <2>1, <2>2
  <2>3. CASE l > 0
    <3>1. l - 1 \in 0 .. 9 /\ l \in 0 .. 9 /\ ~(l <= l - 1)
      BY <1>3, <1>5, <2>3
    <3>2. ~(D + (e + LEAP * (l - 1)) > SIG - LEAP)
      BY <1>2, <1>5, <3>1
    <3>3. LEAP * (l - 1) = LEAP * l - LEAP
      BY <1>1, <3>1
    <3> QED
      BY <1>1, <1>7, <2>1, <3>1, <3>2, <3>3
  <2> QED
    BY <1>3, <1>5, <2>2, <2>3
<1> DEFINE T == {j \in 0 .. SIG + LEAP : ~Unity!Below(n, e + LEAP * l + j, SIG - 1)}
<1>9. Unity!Min(T) = SIG - P
  <2>1. \A j \in 0 .. SIG + LEAP : j \in T <=> P + j > SIG - 1
    <3> SUFFICES ASSUME NEW j \in 0 .. SIG + LEAP PROVE j \in T <=> P + j > SIG - 1
      OBVIOUS
    <3>1. e + LEAP * l + j \in Int /\ SIG - 1 \in Int
      BY <1>1, <1>3, <1>5
    <3>2. Unity!Below(n, e + LEAP * l + j, SIG - 1) <=> D + (e + LEAP * l + j) <= SIG - 1
      BY <3>1, Sizes, Zenon
    <3>3. D + (e + LEAP * l + j) = P + j
      BY <1>1, <1>3, <1>5, <1>7
    <3> QED
      BY <1>1, <3>1, <3>2, <3>3
  <2>2. T \in SUBSET (0 .. SIG + LEAP)
    OBVIOUS
  <2> HIDE DEF T
  <2>3. SIG - P \in T /\ (\A j \in T : SIG - P <= j) /\ T \in SUBSET Int
    BY <1>1, <1>8, <2>1, <2>2
  <2> QED
    BY <2>3, LeastRead
<1>10. Unity!ScaleUp(n, e) = LEAP * l + (SIG - P)
  <2> USE DEF S, T
  <2> QED
    BY <1>6, <1>9, Zenon DEF Unity!ScaleUp
<1> QED
  BY <1>1, <1>3, <1>5, <1>7, <1>10

\* ... and down one that has more.
LEMMA ScaledDown ==
  ASSUME NEW n, NEW D, Long(n, D), NEW e \in Exponents, NEW w, w = Over(n, D), w + e > SIG
  PROVE  Unity!ScaleDown(n, e) = w + e - SIG
<1>1. /\ SIG \in 1 .. 7 /\ LEAP \in Nat \ {0} /\ w \in 0 .. 9 /\ e \in Int
      /\ e <= SIG - 10 + 10 * LEAP
  BY Scale DEF Long, Exponents, Over
<1> DEFINE S == {k \in 0 .. 9 : Unity!AtMost(n, e - LEAP * k, SIG - 1 + LEAP)}
<1>2. \A k \in 0 .. 9 : k \in S <=> w + (e - LEAP * k) <= SIG - 1 + LEAP
  <2> SUFFICES ASSUME NEW k \in 0 .. 9 PROVE k \in S <=> w + (e - LEAP * k) <= SIG - 1 + LEAP
    OBVIOUS
  <2>1. e - LEAP * k \in Int /\ SIG - 1 + LEAP \in Int
    BY <1>1
  <2>2. Unity!AtMost(n, e - LEAP * k, SIG - 1 + LEAP) <=> w + (e - LEAP * k) <= SIG - 1 + LEAP
    BY <2>1, Sizes, Zenon
  <2> QED
    BY <1>1, <2>1, <2>2
<1>3. S \in SUBSET (0 .. 9)
  OBVIOUS
<1>4. 9 \in S
  <2>1. w + (e - LEAP * 9) <= SIG - 1 + LEAP
    BY <1>1
  <2> HIDE DEF S
  <2> QED
    BY <1>2, <2>1
<1> HIDE DEF S
<1>5. PICK l \in S : \A k \in S : l <= k
  <2>1. S \in SUBSET Nat /\ S # {}
    BY <1>3, <1>4
  <2> QED
    BY <2>1, LeastNumber
<1>6. Unity!Min(S) = l
  <2>1. S \in SUBSET Int
    BY <1>3
  <2> QED
    BY <1>5, <2>1, LeastRead
<1>7. PICK P \in Int : P = w + (e - LEAP * l)
  BY <1>1, <1>3, <1>5
<1>8. P <= SIG - 1 + LEAP /\ P >= SIG
  <2>1. P <= SIG - 1 + LEAP
    BY <1>2, <1>3, <1>5, <1>7
  <2>2. CASE l = 0
    BY <1>1, <1>7, <2>1, <2>2
  <2>3. CASE l > 0
    <3>1. l - 1 \in 0 .. 9 /\ l \in 0 .. 9 /\ ~(l <= l - 1)
      BY <1>3, <1>5, <2>3
    <3>2. ~(w + (e - LEAP * (l - 1)) <= SIG - 1 + LEAP)
      BY <1>2, <1>5, <3>1
    <3>3. LEAP * (l - 1) = LEAP * l - LEAP
      BY <1>1, <3>1
    <3> QED
      BY <1>1, <1>7, <2>1, <3>1, <3>2, <3>3
  <2> QED
    BY <1>3, <1>5, <2>2, <2>3
<1> DEFINE T == {j \in 0 .. SIG + LEAP : Unity!AtMost(n, e - LEAP * l - j, SIG)}
<1>9. Unity!Min(T) = P - SIG
  <2>1. \A j \in 0 .. SIG + LEAP : j \in T <=> P - j <= SIG
    <3> SUFFICES ASSUME NEW j \in 0 .. SIG + LEAP PROVE j \in T <=> P - j <= SIG
      OBVIOUS
    <3>1. e - LEAP * l - j \in Int /\ SIG \in Int
      BY <1>1, <1>3, <1>5
    <3>2. Unity!AtMost(n, e - LEAP * l - j, SIG) <=> w + (e - LEAP * l - j) <= SIG
      BY <3>1, Sizes, Zenon
    <3>3. w + (e - LEAP * l - j) = P - j
      BY <1>1, <1>3, <1>5, <1>7
    <3> QED
      BY <1>1, <3>1, <3>2, <3>3
  <2>2. T \in SUBSET (0 .. SIG + LEAP)
    OBVIOUS
  <2> HIDE DEF T
  <2>3. P - SIG \in T /\ (\A j \in T : P - SIG <= j) /\ T \in SUBSET Int
    BY <1>1, <1>8, <2>1, <2>2
  <2> QED
    BY <2>3, LeastRead
<1>10. Unity!ScaleDown(n, e) = LEAP * l + (P - SIG)
  <2> USE DEF S, T
  <2> QED
    BY <1>6, <1>9, Zenon DEF Unity!ScaleDown
<1> QED
  BY <1>1, <1>3, <1>5, <1>7, <1>10

\* A number, and what is behind its point.
WholeOf(n, e) == IF e >= 0 THEN n * 10 ^ e ELSE n \div 10 ^ (-e)
RestOf(n, e) == IF e >= 0 THEN 0 ELSE n % 10 ^ (-e)

LEMMA InParts ==
  ASSUME NEW n \in Nat, NEW e \in -10 .. 10
  PROVE  /\ WholeOf(n, e) \in Nat /\ RestOf(n, e) \in Nat
         /\ e >= 0 => WholeOf(n, e) = n * 10 ^ e /\ RestOf(n, e) = 0
         /\ e < 0 => /\ n = WholeOf(n, e) * 10 ^ (-e) + RestOf(n, e)
                     /\ RestOf(n, e) < 10 ^ (-e)
<1>1. CASE e >= 0
  <2>1. PICK w \in Nat : w = 10 ^ e
    <3>1. e \in 0 .. 10
      BY <1>1
    <3> QED
      BY <3>1, TenTyped, Zenon
  <2>2. WholeOf(n, e) = n * w /\ RestOf(n, e) = 0
    BY <1>1, <2>1, Zenon DEF WholeOf, RestOf
  <2>3. n * w \in Nat /\ ~(e < 0) /\ 0 \in Nat
    BY <1>1
  <2> QED
    BY <2>1, <2>2, <2>3, Zenon
<1>2. CASE e < 0
  <2>1. PICK w \in Nat \ {0} : w = 10 ^ (-e)
    <3>1. -e \in 0 .. 10
      BY <1>2
    <3> QED
      BY <3>1, TenTyped, Zenon
  <2>2. ~(e >= 0)
    BY <1>2
  <2>3. WholeOf(n, e) = n \div w /\ RestOf(n, e) = n % w
    BY <2>1, <2>2, Zenon DEF WholeOf, RestOf
  <2>4. PICK h \in Int, r \in 0 .. w - 1 : h = n \div w /\ r = n % w /\ n = w * h + r
    OBVIOUS
  <2>5. h \in Nat /\ r \in Nat /\ n = h * w + r /\ r < w
    <3>1. h >= 0
      <4>1. CASE h <= -1
        <5>1. w * (-1 - h) >= 0 /\ w * (-1 - h) = -w - w * h
          BY <4>1
        <5> QED
          BY <2>4, <5>1
      <4> QED
        BY <4>1
    <3> QED
      BY <2>4, <3>1
  <2> QED
    BY <2>1, <2>2, <2>3, <2>4, <2>5, Zenon
<1> QED
  BY <1>1, <1>2

\* A number between powers of ten has a whole between them.
LEMMA WholeBetween ==
  ASSUME NEW n \in Nat, NEW e \in -10 .. 10, NEW k \in 0 .. 10, k + e \in 0 .. 10
  PROVE  /\ 10 ^ k <= n => 10 ^ (k + e) <= WholeOf(n, e)
         /\ n < 10 ^ k => WholeOf(n, e) < 10 ^ (k + e)
         /\ n = 10 ^ k => WholeOf(n, e) = 10 ^ (k + e) /\ RestOf(n, e) = 0
<1>1. PICK A \in Nat \ {0}, B \in Nat \ {0} : A = 10 ^ k /\ B = 10 ^ (k + e)
  BY TenTyped, Zenon
<1>2. PICK h \in Nat, r \in Nat : h = WholeOf(n, e) /\ r = RestOf(n, e)
  BY InParts, Zenon
<1> SUFFICES (A <= n => B <= h) /\ (n < A => h < B) /\ (n = A => h = B /\ r = 0)
  BY <1>1, <1>2, Zenon
<1>3. CASE e >= 0
  <2>1. e \in 0 .. 10
    BY <1>3
  <2>2. PICK w \in Nat \ {0} : w = 10 ^ e
    BY <2>1, TenTyped, Zenon
  <2>3. B = A * w
    BY <1>1, <2>1, <2>2, TenTimes, Zenon
  <2>4. h = n * w /\ r = 0
    BY <1>2, <1>3, <2>2, InParts, Zenon
  <2>5. (A <= n => A * w <= n * w) /\ (n < A => n * w < A * w)
    <3>1. ASSUME A <= n PROVE A * w <= n * w
      <4>1. (n - A) * w >= 0 /\ (n - A) * w = n * w - A * w
        BY <3>1
      <4>2. n * w \in Int /\ A * w \in Int
        OBVIOUS
      <4> QED
        BY <4>1, <4>2
    <3>2. ASSUME n < A PROVE n * w < A * w
      <4>1. (A - n - 1) * w >= 0 /\ (A - n - 1) * w = A * w - n * w - w
        BY <3>2
      <4>2. n * w \in Int /\ A * w \in Int
        OBVIOUS
      <4> QED
        BY <4>1, <4>2
    <3> QED
      BY <3>1, <3>2
  <2> QED
    BY <2>3, <2>4, <2>5, Zenon
<1>4. CASE e < 0
  <2>1. -e \in 0 .. 10 /\ k = (k + e) + (-e)
    BY <1>4
  <2>2. PICK w \in Nat \ {0} : w = 10 ^ (-e)
    BY <2>1, TenTyped, Zenon
  <2>3. A = B * w
    BY <1>1, <2>1, <2>2, TenTimes, Zenon
  <2>4. n = h * w + r /\ r < w
    BY <1>2, <1>4, <2>2, InParts, Zenon
  <2>5. PICK p \in Nat, q \in Nat : p = h * w /\ q = B * w
    OBVIOUS
  <2>6. n = p + r /\ A = q
    BY <2>3, <2>4, <2>5
  <2>7. ASSUME h < B PROVE p + r < q
    <3>1. (B - h - 1) * w >= 0 /\ (B - h - 1) * w = q - p - w
      BY <2>5, <2>7
    <3> QED
      BY <2>4, <3>1
  <2>8. ASSUME B <= h PROVE q <= p + r
    <3>1. (h - B) * w >= 0 /\ (h - B) * w = p - q
      BY <2>5, <2>8
    <3> QED
      BY <3>1
  <2>9. ASSUME B < h PROVE q < p + r
    <3>1. (h - B - 1) * w >= 0 /\ (h - B - 1) * w = p - q - w
      BY <2>5, <2>9
    <3> QED
      BY <3>1
  <2>10. ASSUME n = A PROVE h = B /\ r = 0
    <3>1. h = B
      BY <2>6, <2>7, <2>9, <2>10
    <3>2. p = q
      BY <2>5, <3>1
    <3> QED
      BY <2>6, <2>10, <3>1, <3>2
  <2> QED
    BY <2>6, <2>7, <2>8, <2>10
<1> QED
  BY <1>3, <1>4

\* The whole is filled up with digits from behind the point: from a whole of k
\* digits, SIG - k of them.
LEMMA Filled ==
  ASSUME NEW h \in Nat, NEW k \in 1 .. SIG, 10 ^ (k - 1) <= h, h < 10 ^ k
  PROVE  Unity!Min({j \in 0 .. SIG : h * 10 ^ j >= 10 ^ (SIG - 1)}) = SIG - k
<1> DEFINE S == {j \in 0 .. SIG : h * 10 ^ j >= 10 ^ (SIG - 1)}
<1>1. SIG \in 1 .. 7
  BY Scale
<1>2. SIG - 1 \in 0 .. 10 /\ k - 1 \in 0 .. 10 /\ k \in 0 .. 10 /\ SIG - k \in 0 .. SIG
  BY <1>1
<1>3. PICK A \in Nat, B \in Nat, C \in Nat :
        A = 10 ^ (k - 1) /\ B = 10 ^ k /\ C = 10 ^ (SIG - 1) /\ A <= h /\ h < B
  BY <1>2, TenTyped, Zenon
<1>4. SIG - k \in S
  <2>1. SIG - k \in 0 .. 10 /\ SIG - 1 = (k - 1) + (SIG - k)
    BY <1>1
  <2>2. PICK w \in Nat : w = 10 ^ (SIG - k)
    BY <2>1, TenTyped, Zenon
  <2>3. C = A * w
    BY <1>2, <1>3, <2>1, <2>2, TenTimes, Zenon
  <2>4. (h - A) * w >= 0 /\ (h - A) * w = h * w - A * w /\ h * w \in Int /\ A * w \in Int
    BY <1>3
  <2>5. h * w >= C
    BY <2>3, <2>4
  <2> QED
    BY <1>2, <1>3, <2>2, <2>5, Zenon
<1>5. ASSUME NEW j \in S PROVE SIG - k <= j
  <2>1. j \in 0 .. SIG /\ h * 10 ^ j >= C
    BY <1>3, <1>5, Zenon
  <2> HIDE DEF S
  <2> SUFFICES ASSUME j <= SIG - k - 1 PROVE FALSE
    BY <1>1, <2>1
  <2>2. j \in 0 .. 10 /\ k + j \in 0 .. 10 /\ k + j <= SIG - 1
    BY <1>1, <2>1
  <2>3. PICK w \in Nat \ {0}, E \in Nat : w = 10 ^ j /\ E = 10 ^ (k + j)
    BY <2>2, TenTyped, Zenon
  <2>4. E = B * w
    BY <1>2, <1>3, <2>2, <2>3, TenTimes, Zenon
  <2>5. E <= C
    BY <1>2, <1>3, <2>2, <2>3, TenOrder, Zenon
  <2>6. h * w >= C
    BY <2>1, <2>3, Zenon
  <2>7. (B - h - 1) * w >= 0 /\ (B - h - 1) * w = B * w - h * w - w
    BY <1>3
  <2>8. h * w \in Int /\ B * w \in Int
    OBVIOUS
  <2> QED
    BY <1>3, <2>4, <2>5, <2>6, <2>7, <2>8
<1> HIDE DEF S
<1>6. S \in SUBSET Int
  BY DEF S
<1>7. Unity!Min(S) = SIG - k
  BY <1>4, <1>5, <1>6, LeastRead
<1> QED
  BY <1>7, Zenon DEF S

\* Whole and rest, scaled by s and added, round the number: cut of its digits are too many.
LEMMA AddedUp ==
  ASSUME NEW n \in Nat, NEW e \in -9 .. 9, NEW s \in 0 .. 9, NEW cut \in -9 .. 9, cut = -(e + s)
  PROVE  Rounds(n, cut, Unity!Round(RestOf(n, e), IF e >= 0 THEN 0 ELSE e + s)
                        + WholeOf(n, e) * 10 ^ s)
<1>1. PICK h \in Nat, r \in Nat : h = WholeOf(n, e) /\ r = RestOf(n, e)
  <2>1. e \in -10 .. 10
    OBVIOUS
  <2> QED
    BY <2>1, InParts, Zenon
<1>2. PICK w \in Nat \ {0} : w = 10 ^ s
  <2>1. s \in 0 .. 10
    OBVIOUS
  <2> QED
    BY <2>1, TenTyped, Zenon
<1>3. h * w \in Nat
  OBVIOUS
<1>4. CASE e >= 0
  <2>1. /\ e \in -10 .. 10 /\ e \in 0 .. 10 /\ s \in 0 .. 10
        /\ -cut \in 0 .. 10 /\ -cut = e + s /\ cut <= 0
    BY <1>4
  <2>2. PICK v \in Nat : v = 10 ^ e
    BY <2>1, TenTyped, Zenon
  <2>3. h = n * v /\ r = 0
    BY <1>1, <1>4, <2>1, <2>2, InParts, Zenon
  <2>4. 10 ^ (-cut) = v * w
    BY <1>2, <2>1, <2>2, TenTimes, Zenon
  <2>5. Unity!Round(0, 0) = 0
    <3>1. 0 >= 0 /\ 0 * 10 ^ 0 = 0
      OBVIOUS
    <3> QED
      BY <3>1, Zenon DEF Unity!Round
  <2>6. 0 + h * w = n * (v * w)
    BY <2>3
  <2>7. 0 + h * w = n * 10 ^ (-cut) /\ 0 + h * w \in Nat /\ ~(cut > 0)
    BY <1>3, <2>1, <2>4, <2>6
  <2>8. Rounds(n, cut, 0 + h * w)
    BY <2>7, Zenon DEF Rounds
  <2> QED
    BY <1>1, <1>2, <1>4, <2>3, <2>5, <2>8, Zenon
<1>5. CASE e < 0
  <2>1. /\ e \in -10 .. 10 /\ s \in 0 .. 10 /\ -e \in 0 .. 10 /\ ~(e >= 0)
        /\ e + s = -cut /\ cut \in -10 .. 9
    BY <1>5
  <2>2. PICK E \in Nat \ {0} : E = 10 ^ (-e)
    BY <2>1, TenTyped, Zenon
  <2>3. n = h * E + r
    BY <1>1, <1>5, <2>1, <2>2, InParts, Zenon
  <2>4. PICK R : R = Unity!Round(r, -cut)
    OBVIOUS
  <2>5. Rounds(r, cut, R)
    BY <2>1, <2>4, RoundTells, Zenon
  <2>6. R \in Nat
    BY <2>5 DEF Rounds
  <2>7. CASE cut <= 0
    <3>1. -cut \in 0 .. 10 /\ s = (-cut) + (-e) /\ ~(cut > 0)
      BY <2>1, <2>7
    <3>2. PICK v \in Nat : v = 10 ^ (-cut)
      BY <3>1, TenTyped, Zenon
    <3>3. w = v * E
      BY <1>2, <2>1, <2>2, <3>1, <3>2, TenTimes, Zenon
    <3>4. R = r * v
      BY <2>5, <2>7, <3>2, Zenon DEF Rounds
    <3>5. r * v + h * (v * E) = (h * E + r) * v
      OBVIOUS
    <3>6. R + h * w = n * v
      BY <2>3, <3>3, <3>4, <3>5, Zenon
    <3>7. R + h * w \in Nat
      BY <1>3, <2>6
    <3>8. Rounds(n, cut, R + h * w)
      BY <3>1, <3>2, <3>6, <3>7, Zenon DEF Rounds
    <3> QED
      BY <1>1, <1>2, <2>1, <2>4, <3>8, Zenon
  <2>8. CASE cut > 0
    <3>1. cut \in 0 .. 10 /\ -e = s + cut /\ ~(cut <= 0)
      BY <2>1, <2>8
    <3>2. PICK X \in Nat : X = 10 ^ cut
      BY <3>1, TenTyped, Zenon
    <3>3. E = w * X
      BY <1>2, <2>1, <2>2, <3>1, <3>2, TenTimes, Zenon
    <3>4. Halves(r, X, R)
      BY <2>5, <2>8, <3>2, Zenon DEF Rounds
    <3>5. PICK p \in Int, q \in Int : p = R * X /\ q = (h * w) * X
      BY <2>6
    <3>6. n = q + r /\ (R + h * w) * X = p + q
      <4>1. h * (w * X) = (h * w) * X /\ (R + h * w) * X = R * X + (h * w) * X
        BY <2>6
      <4> QED
        BY <2>3, <3>3, <3>5, <4>1
    <3>7. Halves(n, X, R + h * w)
      <4>1. 2 * (r - p) <= X /\ 2 * (p - r) <= X
        BY <3>4, <3>5 DEF Halves
      <4>2. 2 * (n - (p + q)) <= X /\ 2 * ((p + q) - n) <= X
        BY <3>6, <4>1
      <4> QED
        BY <3>6, <4>2, Zenon DEF Halves
    <3>8. R + h * w \in Nat
      BY <1>3, <2>6
    <3>9. Rounds(n, cut, R + h * w)
      BY <3>1, <3>2, <3>7, <3>8, Zenon DEF Rounds
    <3> QED
      BY <1>1, <1>2, <2>1, <2>4, <3>9, Zenon
  <2> QED
    BY <2>7, <2>8
<1> QED
  BY <1>4, <1>5

LEMMA NoSign ==
  ASSUME NEW z \in Int, z <= 0, z >= 0 PROVE -z = z
OBVIOUS

\* Scaled keeps SIG digits, or it turns a power of ten into the next one.
ScaledOk(n, D, e, s) ==
  \/ \E m : Rounds(n, D - SIG, m) /\ s = <<m, D + e - SIG>>
  \/ n = 10 ^ (D - 1) /\ s = <<10 ^ SIG, D + e - SIG - 1>>

\* The three ways: a number below 1 ...
LEMMA UpOk ==
  ASSUME NEW n, NEW D, Long(n, D), NEW e \in Exponents, D + e <= 0
  PROVE  ScaledOk(n, D, e, Unity!Scaled(n, e))
<1>1. SIG \in 1 .. 7 /\ D \in 1 .. 9 /\ n \in Nat /\ e \in Int
  BY Scale DEF Long, Exponents
<1>2. Unity!Below(n, e, 0) /\ Unity!AtMost(n, e, SIG)
  <2>1. 0 \in Int /\ SIG \in Int /\ Over(n, D) + e <= SIG
    BY <1>1 DEF Over
  <2> QED
    BY <1>1, <2>1, Sizes, Zenon
<1>3. Unity!ScaleUp(n, e) = SIG - D - e
  BY ScaledUp, Zenon
<1>4. PICK m : m = Unity!Round(n, SIG - D)
  OBVIOUS
<1>5. Unity!Scaled(n, e)
        = <<Unity!Round(n, e + (SIG - D - e)), -(SIG - D - e)>>
  BY <1>2, <1>3, Zenon DEF Unity!Scaled
<1>6. /\ e + (SIG - D - e) = SIG - D /\ -(SIG - D - e) = D + e - SIG
      /\ D - SIG \in -10 .. 9 /\ -(D - SIG) = SIG - D
  BY <1>1
<1>7. Rounds(n, D - SIG, m)
  BY <1>1, <1>4, <1>6, RoundTells, Zenon
<1> QED
  BY <1>4, <1>5, <1>6, <1>7, Zenon DEF ScaledOk

\* ... one with more digits before the point than are printed ...
LEMMA DownOk ==
  ASSUME NEW n, NEW D, Long(n, D), NEW e \in Exponents, Over(n, D) + e > SIG
  PROVE  ScaledOk(n, D, e, Unity!Scaled(n, e))
<1>1. /\ SIG \in 1 .. 7 /\ D \in 1 .. 9 /\ n \in Nat /\ e \in Int
      /\ 10 ^ (D - 1) <= n /\ n < 10 ^ D
  BY Scale DEF Long, Exponents
<1>2. PICK w \in {D - 1, D} : w = Over(n, D)
  BY DEF Over
<1>3. ~Unity!Below(n, e, 0) /\ ~Unity!AtMost(n, e, SIG)
  <2>1. 0 \in Int /\ SIG \in Int /\ ~(D + e <= 0) /\ ~(w + e <= SIG)
    BY <1>1, <1>2
  <2> QED
    BY <1>1, <1>2, <2>1, Sizes, Zenon
<1>4. Unity!ScaleDown(n, e) = w + e - SIG
  <2>1. w + e > SIG
    BY <1>2
  <2> QED
    BY <1>2, <2>1, ScaledDown, Zenon
<1>5. Unity!Scaled(n, e) = <<Unity!Round(n, e - (w + e - SIG)), w + e - SIG>>
  BY <1>3, <1>4, Zenon DEF Unity!Scaled
<1>6. PICK m : m = Unity!Round(n, SIG - w)
  OBVIOUS
<1>7. /\ e - (w + e - SIG) = SIG - w /\ w - SIG \in -10 .. 9 /\ w - SIG \in -9 .. 9
      /\ -(w - SIG) = SIG - w
  BY <1>1, <1>2
<1>8. Rounds(n, w - SIG, m) /\ Unity!Scaled(n, e) = <<m, w + e - SIG>>
  BY <1>1, <1>5, <1>6, <1>7, RoundTells, Zenon
<1>9. CASE w = D
  BY <1>8, <1>9, Zenon DEF ScaledOk
<1>10. CASE w = D - 1
  <2>1. n = 10 ^ (D - 1)
    BY <1>1, <1>2, <1>10 DEF Over
  <2>2. /\ w \in 0 .. 9 /\ w \in 0 .. 10 /\ w - (w - SIG) \in 0 .. 9 /\ w - (w - SIG) = SIG
        /\ w + e - SIG = D + e - SIG - 1 /\ SIG \in 0 .. 10
    BY <1>1, <1>10
  <2>3. 10 ^ w <= n /\ n <= 10 ^ w
    BY <1>1, <1>10, <2>1
  <2>4. 10 ^ SIG <= m /\ m <= 10 ^ SIG
    BY <1>1, <1>7, <1>8, <2>2, <2>3, RoundsBetween, Zenon
  <2>5. m \in Nat
    BY <1>8 DEF Rounds
  <2>6. PICK u \in Nat : u = 10 ^ SIG
    BY <2>2, TenTyped, Zenon
  <2>7. m = 10 ^ SIG
    BY <2>4, <2>5, <2>6
  <2> QED
    BY <1>8, <2>1, <2>2, <2>7, Zenon DEF ScaledOk
<1> QED
  BY <1>2, <1>9, <1>10

\* ... and one with a whole of one to SIG digits.
LEMMA WholeOk ==
  ASSUME NEW n, NEW D, Long(n, D), NEW e \in Exponents, D + e > 0, Over(n, D) + e <= SIG
  PROVE  ScaledOk(n, D, e, Unity!Scaled(n, e))
<1>1. /\ SIG \in 1 .. 7 /\ D \in 1 .. 9 /\ n \in Nat /\ e \in Int
      /\ 10 ^ (D - 1) <= n /\ n < 10 ^ D
  BY Scale DEF Long, Exponents
<1>2. PICK w \in {D - 1, D} : w = Over(n, D) /\ w + e <= SIG
  BY DEF Over
<1>3. /\ e \in -9 .. 9 /\ e \in -10 .. 10 /\ D - 1 \in 0 .. 10 /\ D \in 0 .. 10
      /\ (D - 1) + e \in 0 .. 10 /\ D + e \in 0 .. 10
  BY <1>1, <1>2
<1> DEFINE S == {j \in 0 .. SIG : WholeOf(n, e) * 10 ^ j >= 10 ^ (SIG - 1)}
           s == Unity!Min(S)
<1>4. Unity!Scaled(n, e)
        = <<Unity!Round(RestOf(n, e), IF e >= 0 THEN 0 ELSE e + s) + WholeOf(n, e) * 10 ^ s, -s>>
  <2>1. 0 \in Int /\ SIG \in Int /\ ~(D + e <= 0)
    BY <1>1
  <2>2. ~Unity!Below(n, e, 0) /\ Unity!AtMost(n, e, SIG)
    BY <1>1, <2>1, Sizes, Zenon
  <2> QED
    BY <2>2, Zenon DEF Unity!Scaled, WholeOf, RestOf
<1>5. /\ 10 ^ ((D - 1) + e) <= WholeOf(n, e) /\ WholeOf(n, e) < 10 ^ (D + e)
      /\ n = 10 ^ (D - 1) => WholeOf(n, e) = 10 ^ ((D - 1) + e) /\ RestOf(n, e) = 0
  BY <1>1, <1>3, WholeBetween, Zenon
<1>6. WholeOf(n, e) \in Nat /\ RestOf(n, e) \in Nat
  BY <1>1, <1>3, InParts, Zenon
<1>7. CASE D + e <= SIG
  <2>1. D + e \in 1 .. SIG /\ (D - 1) + e = (D + e) - 1
    BY <1>1, <1>7
  <2>2. s = SIG - (D + e)
    BY <1>5, <1>6, <2>1, Filled, Zenon
  <2>3. /\ SIG - (D + e) \in 0 .. 9 /\ D - SIG \in -9 .. 9 /\ D - SIG = -(e + (SIG - (D + e)))
        /\ -(SIG - (D + e)) = D + e - SIG
    BY <1>1, <2>1
  <2>4. PICK m : m = Unity!Round(RestOf(n, e), IF e >= 0 THEN 0 ELSE e + (SIG - (D + e)))
                       + WholeOf(n, e) * 10 ^ (SIG - (D + e))
    OBVIOUS
  <2>5. Rounds(n, D - SIG, m)
    BY <1>1, <1>3, <2>3, <2>4, AddedUp, Zenon
  <2>6. Unity!Scaled(n, e) = <<m, -(SIG - (D + e))>>
    BY <1>4, <2>2, <2>4, Zenon
  <2> QED
    BY <2>3, <2>5, <2>6, Zenon DEF ScaledOk
<1>8. CASE D + e > SIG
  <2>1. w = D - 1 /\ (D - 1) + e = SIG /\ D + e - SIG - 1 = 0
    BY <1>1, <1>2, <1>8
  <2>2. n = 10 ^ (D - 1)
    BY <1>1, <1>2, <2>1 DEF Over
  <2>3. WholeOf(n, e) = 10 ^ SIG /\ RestOf(n, e) = 0
    BY <1>5, <2>1, <2>2, Zenon
  <2>4. PICK h \in Nat : h = 10 ^ SIG
    BY <1>6, <2>3, Zenon
  <2>5. s = 0
    <3>1. 0 \in 0 .. SIG /\ 10 ^ 0 = 1 /\ h * 1 = h /\ SIG - 1 \in 0 .. 10 /\ SIG \in 0 .. 10
          /\ SIG - 1 <= SIG
      BY <1>1
    <3>2. 10 ^ (SIG - 1) <= h
      BY <2>4, <3>1, TenOrder, Zenon
    <3>3. PICK c \in Nat : c = 10 ^ (SIG - 1)
      BY <3>1, TenTyped, Zenon
    <3>4. h * 1 >= c
      BY <3>1, <3>2, <3>3
    <3>5. 0 \in S
      BY <2>3, <2>4, <3>1, <3>3, <3>4, Zenon
    <3>6. S \in SUBSET Int /\ \A j \in S : 0 <= j
      OBVIOUS
    <3> HIDE DEF S
    <3> QED
      BY <3>5, <3>6, LeastRead
  <2>6. Unity!Round(0, IF e >= 0 THEN 0 ELSE e) = 0
    <3>1. PICK cut \in 0 .. 9 : cut = IF e >= 0 THEN 0 ELSE -e
      BY <1>3
    <3>2. (IF e >= 0 THEN 0 ELSE e) = -cut /\ cut \in -10 .. 9 /\ 0 \in Nat
      BY <1>3, <3>1
    <3>3. PICK m : m = Unity!Round(0, -cut)
      OBVIOUS
    <3>4. Rounds(0, cut, m)
      BY <3>2, <3>3, RoundTells, Zenon
    <3>5. m \in Nat
      BY <3>4 DEF Rounds
    <3>6. m = 0
      <4>1. CASE cut = 0
        <5>1. cut <= 0 /\ cut >= 0 /\ cut \in Int /\ 10 ^ 0 = 1 /\ 0 * 1 = 0
          BY <4>1
        <5>2. -cut = cut
          BY <5>1, NoSign, Zenon
        <5> QED
          BY <3>4, <4>1, <5>1, <5>2, Zenon DEF Rounds
      <4>2. CASE cut > 0
        <5>1. PICK X \in Nat \ {0} : X = 10 ^ cut
          <6>1. cut \in 0 .. 10
            OBVIOUS
          <6> QED
            BY <6>1, TenTyped, Zenon
        <5>2. Halves(0, X, m)
          BY <3>4, <4>2, <5>1, Zenon DEF Rounds
        <5>3. 2 * (m * X) <= X
          BY <3>5, <5>2 DEF Halves
        <5>4. CASE m >= 1
          <6>1. (m - 1) * X >= 0 /\ (m - 1) * X = m * X - X /\ m * X \in Int
            BY <3>5, <5>4
          <6> QED
            BY <5>3, <6>1
        <5> QED
          BY <3>5, <5>4
      <4> QED
        BY <4>1, <4>2
    <3> QED
      BY <3>2, <3>3, <3>6, Zenon
  <2>7. e + 0 = e /\ h * 1 = h /\ 10 ^ 0 = 1 /\ 0 + h = h /\ -0 = 0
    <3>1. e + 0 = e /\ h * 1 = h /\ 10 ^ 0 = 1 /\ 0 + h = h /\ 0 \in Int /\ 0 <= 0 /\ 0 >= 0
      BY <1>1
    <3> QED
      BY <3>1, NoSign, Zenon
  <2>8. Unity!Scaled(n, e)
          = <<Unity!Round(0, IF e >= 0 THEN 0 ELSE e + 0) + h * 10 ^ 0, -0>>
    BY <1>4, <2>3, <2>4, <2>5, Zenon
  <2>9. Unity!Scaled(n, e) = <<h, 0>>
    BY <2>6, <2>7, <2>8, Zenon
  <2> QED
    BY <2>1, <2>2, <2>4, <2>9, Zenon DEF ScaledOk
<1> QED
  BY <1>1, <1>7, <1>8

\* Whichever way a number goes, its digits round it.
LEMMA ScaledTells ==
  ASSUME NEW n, NEW D, Long(n, D), NEW e \in Exponents
  PROVE  ScaledOk(n, D, e, Unity!Scaled(n, e))
<1>1. SIG \in Int /\ D \in Int /\ e \in Int /\ Over(n, D) \in {D - 1, D}
  BY Scale DEF Long, Exponents, Over
<1>2. D + e <= 0 \/ Over(n, D) + e > SIG \/ (D + e > 0 /\ Over(n, D) + e <= SIG)
  BY <1>1
<1> QED
  BY <1>2, UpOk, DownOk, WholeOk, Zenon

\* What is written of a number: m * 10^d rounds it, in units of its digit SIG
\* from the left.
FittedOk(n, D, e, m, d) ==
  /\ d \in 0 .. 1 /\ m \in Nat /\ 10 ^ (SIG - 1) <= m /\ m < 10 ^ SIG
  /\ Rounds(n, D - SIG, m * 10 ^ d)

\* The digits fit, and the exponent is that of the last of them.
LEMMA FittedTells ==
  ASSUME NEW n, NEW D, Long(n, D), NEW e \in Exponents
  PROVE  \E m, d : /\ FittedOk(n, D, e, m, d)
                   /\ Unity!Fitted(Unity!Scaled(n, e)) = <<m, D + e - SIG + d>>
<1>1. /\ SIG \in 1 .. 7 /\ D \in 1 .. 9 /\ n \in Nat /\ e \in Int
      /\ 10 ^ (D - 1) <= n /\ n < 10 ^ D
  BY Scale DEF Long, Exponents
<1>2. /\ SIG \in 0 .. 10 /\ SIG - 1 \in 0 .. 10 /\ SIG - 1 \in 0 .. 9 /\ (SIG - 1) + 1 = SIG
      /\ D - SIG \in -9 .. 9 /\ D - 1 \in 0 .. 9 /\ D \in 0 .. 9 /\ D \in 0 .. 10
      /\ D - 1 \in 0 .. 10
      /\ D - (D - SIG) = SIG /\ (D - 1) - (D - SIG) = SIG - 1 /\ SIG \in 0 .. 9
  BY <1>1
<1>3. PICK L \in Nat \ {0}, U \in Nat \ {0} : L = 10 ^ (SIG - 1) /\ U = 10 ^ SIG
  BY <1>2, TenTyped, Zenon
<1>4. U = 10 * L
  BY <1>2, <1>3, TenPowers, Zenon
<1>5. 10 ^ 0 = 1 /\ 10 ^ 1 = 10 /\ 0 \in 0 .. 1 /\ 1 \in 0 .. 1 /\ L <= L /\ L < U /\ L * 1 = L
      /\ L * 10 = U
  BY <1>3, <1>4
<1>6. ScaledOk(n, D, e, Unity!Scaled(n, e))
  BY ScaledTells, Zenon
<1>7. CASE n = 10 ^ (D - 1) /\ Unity!Scaled(n, e) = <<10 ^ SIG, D + e - SIG - 1>>
  <2>1. Unity!Fitted(<<U, D + e - SIG - 1>>) = <<L, (D + e - SIG - 1) + 1>>
    BY <1>3 DEF Unity!Fitted
  <2>2. (D + e - SIG - 1) + 1 = D + e - SIG + 0
    BY <1>1
  <2>3. Rounds(n, D - SIG, L)
    <3>1. CASE D - SIG <= 0
      <4>1. -(D - SIG) \in 0 .. 10 /\ SIG - 1 = (D - 1) + (-(D - SIG)) /\ ~(D - SIG > 0)
        BY <1>1, <3>1
      <4>2. L = n * 10 ^ (-(D - SIG))
        BY <1>2, <1>3, <1>7, <4>1, TenTimes, Zenon
      <4> QED
        BY <1>3, <4>1, <4>2 DEF Rounds
    <3>2. CASE D - SIG > 0
      <4>1. D - SIG \in 0 .. 10 /\ D - 1 = (SIG - 1) + (D - SIG) /\ ~(D - SIG <= 0)
        BY <1>1, <3>2
      <4>2. PICK X \in Nat : X = 10 ^ (D - SIG)
        BY <4>1, TenTyped, Zenon
      <4>3. n = L * X
        BY <1>2, <1>3, <1>7, <4>1, <4>2, TenTimes, Zenon
      <4>4. Halves(n, X, L)
        BY <1>1, <4>3 DEF Halves
      <4> QED
        BY <1>3, <4>1, <4>2, <4>4 DEF Rounds
    <3> QED
      BY <1>1, <3>1, <3>2
  <2>4. FittedOk(n, D, e, L, 0)
    BY <1>3, <1>5, <2>3, Zenon DEF FittedOk
  <2>5. Unity!Fitted(Unity!Scaled(n, e)) = <<L, D + e - SIG + 0>>
    BY <1>3, <1>7, <2>1, <2>2, Zenon
  <2> QED
    BY <2>4, <2>5, Zenon
<1>8. CASE \E m : Rounds(n, D - SIG, m) /\ Unity!Scaled(n, e) = <<m, D + e - SIG>>
  <2>1. PICK m : Rounds(n, D - SIG, m) /\ Unity!Scaled(n, e) = <<m, D + e - SIG>>
    BY <1>8, Zenon
  <2>2. m \in Nat
    BY <2>1 DEF Rounds
  <2>3. L <= m /\ m <= U
    <3>1. n <= 10 ^ D
      <4>1. PICK v \in Nat : v = 10 ^ D
        BY <1>2, TenTyped, Zenon
      <4>2. n <= v
        BY <1>1, <4>1
      <4> QED
        BY <4>1, <4>2, Zenon
    <3>2. 10 ^ (D - (D - SIG)) = U /\ 10 ^ ((D - 1) - (D - SIG)) = L
      BY <1>2, <1>3, Zenon
    <3>3. (D - 1) - (D - SIG) \in 0 .. 9 /\ D - (D - SIG) \in 0 .. 9
      BY <1>2, Zenon
    <3>4. 10 ^ ((D - 1) - (D - SIG)) <= m /\ m <= 10 ^ (D - (D - SIG))
      BY <1>1, <1>2, <2>1, <3>1, <3>3, RoundsBetween, Zenon
    <3> QED
      BY <3>2, <3>4, Zenon
  <2>4. CASE m = U
    <3>1. Unity!Fitted(<<U, D + e - SIG>>) = <<L, (D + e - SIG) + 1>>
      BY <1>3 DEF Unity!Fitted
    <3>2. Rounds(n, D - SIG, L * 10 ^ 1)
      BY <1>5, <2>1, <2>4, Zenon
    <3>3. FittedOk(n, D, e, L, 1)
      BY <1>3, <1>5, <3>2, Zenon DEF FittedOk
    <3>4. (D + e - SIG) + 1 = D + e - SIG + 1
      OBVIOUS
    <3>5. Unity!Fitted(Unity!Scaled(n, e)) = <<L, D + e - SIG + 1>>
      BY <2>1, <2>4, <3>1, <3>4, Zenon
    <3> QED
      BY <3>3, <3>5, Zenon
  <2>5. CASE m < U
    <3>1. Unity!Fitted(<<m, D + e - SIG>>) = <<m, D + e - SIG>>
      BY <1>3, <2>2, <2>5 DEF Unity!Fitted
    <3>2. D + e - SIG = D + e - SIG + 0 /\ m * 1 = m
      BY <1>1, <2>2
    <3>3. Rounds(n, D - SIG, m * 10 ^ 0)
      BY <1>5, <2>1, <3>2, Zenon
    <3>4. FittedOk(n, D, e, m, 0)
      BY <1>3, <1>5, <2>2, <2>3, <2>5, <3>3, Zenon DEF FittedOk
    <3>5. Unity!Fitted(Unity!Scaled(n, e)) = <<m, D + e - SIG + 0>>
      BY <2>1, <3>1, <3>2, Zenon
    <3> QED
      BY <3>4, <3>5, Zenon
  <2> QED
    BY <1>3, <2>2, <2>3, <2>4, <2>5
<1> QED
  BY <1>6, <1>7, <1>8, Zenon DEF ScaledOk

\* The greatest of a set is what Max chooses, and there is one.
LEMMA GreatestRead ==
  ASSUME NEW S \in SUBSET Int, NEW m \in S, \A e \in S : m >= e
  PROVE  Unity!Max(S) = m
<1> DEFINE P(e) == e \in S /\ \A f \in S : e >= f
<1>1. ASSUME NEW e, P(e) PROVE e = m
  <2>1. e \in Int /\ m \in Int /\ e <= m /\ m <= e
    BY <1>1
  <2> QED
    BY <2>1
<1>2. P(m)
  OBVIOUS
<1>3. Unity!Max(S) = CHOOSE e : P(e)
  BY DEF Unity!Max
<1> HIDE DEF P
<1> QED
  BY <1>1, <1>2, <1>3

LEMMA GreatestNumber ==
  ASSUME NEW b \in Nat, NEW S \in SUBSET (0 .. b), S # {}
  PROVE  \E m \in S : \A e \in S : m >= e
<1> DEFINE T == {j \in 0 .. b : b - j \in S}
<1>1. T \in SUBSET Nat /\ T # {}
  <2>1. PICK e \in S : e \in 0 .. b
    OBVIOUS
  <2>2. b - e \in 0 .. b /\ b - (b - e) = e
    OBVIOUS
  <2>3. b - e \in T
    BY <2>2, Zenon
  <2> QED
    BY <2>3
<1>2. PICK j \in T : \A k \in T : j <= k
  <2> HIDE DEF T
  <2> QED
    BY <1>1, LeastNumber
<1>3. b - j \in S /\ j \in 0 .. b
  BY <1>2, Zenon
<1>4. ASSUME NEW e \in S PROVE b - j >= e
  <2>1. e \in 0 .. b
    OBVIOUS
  <2>2. b - e \in 0 .. b /\ b - (b - e) = e
    BY <2>1
  <2>3. b - e \in T
    BY <2>2, Zenon
  <2>4. j <= b - e
    BY <1>2, <2>3, Zenon
  <2> QED
    BY <1>3, <2>1, <2>4
<1> QED
  BY <1>3, <1>4, Zenon

LEMMA LastOf == ASSUME NEW p \in Nat PROVE Unity!Max(0 .. p) = p
<1>1. 0 .. p \in SUBSET Int /\ p \in 0 .. p /\ \A e \in 0 .. p : p >= e
  OBVIOUS
<1> QED
  BY <1>1, GreatestRead, Zenon

\* Digits of c in the order they are written, the last of them in place 0.
Spelt(c, last) == [k \in 0 .. last |-> (c \div 10 ^ (last - k)) % 10]

\* Read back they are c; the first is not 0 unless there are too many places.
LEMMA SpeltRead ==
  ASSUME NEW c \in Nat, NEW last \in 0 .. 10, c < 10 * 10 ^ last
  PROVE  /\ Unity!Read([minus |-> FALSE, base |-> 10, digits |-> Spelt(c, last)]) = c
         /\ Spelt(c, last)[last] = c % 10
         /\ 10 ^ last <= c => Spelt(c, last)[0] # 0
<1>1. PICK w \in Nat \ {0} : w = 10 ^ last
  BY TenTyped, Zenon
<1>2. last \in Nat /\ 0 \in 0 .. last /\ last \in 0 .. last /\ last - 0 = last /\ last - last = 0
  OBVIOUS
<1>3. c \div w \in Nat /\ c \div w < 10
  <2>1. PICK q \in Int, r \in 0 .. w - 1 : q = c \div w /\ c = w * q + r
    OBVIOUS
  <2>2. c < 10 * w
    BY <1>1, Zenon
  <2>3. q < 10
    <3>1. CASE q >= 10
      <4>1. w * (q - 10) >= 0 /\ w * (q - 10) = w * q - 10 * w
        BY <3>1
      <4> QED
        BY <2>1, <2>2, <4>1
    <3> QED
      BY <3>1
  <2>4. q >= 0
    <3>1. CASE q <= -1
      <4>1. w * (-1 - q) >= 0 /\ w * (-1 - q) = -w - w * q
        BY <3>1
      <4> QED
        BY <2>1, <4>1
    <3> QED
      BY <3>1
  <2> QED
    BY <2>1, <2>3, <2>4
<1>4. PICK B, d : B = 10 /\ d = Spelt(c, last)
  OBVIOUS
<1>5. InPlaces(B, last, c, d)
  <2>1. 10 \in Nat \ {0} /\ 10 ^ 0 = 1
    OBVIOUS
  <2>2. \A j \in 0 .. last : 10 ^ j \in Nat \ {0}
    <3>1. \A j \in 0 .. last : j \in 0 .. 10
      OBVIOUS
    <3> QED
      BY <3>1, TenTyped, Zenon
  <2>3. \A j \in 0 .. last - 1 : 10 ^ (j + 1) = 10 * 10 ^ j
    <3>1. \A j \in 0 .. last - 1 : j \in 0 .. 9
      OBVIOUS
    <3> QED
      BY <3>1, TenPowers, Zenon
  <2>4. c \div 10 ^ last < 10
    BY <1>1, <1>3, Zenon
  <2> QED
    BY <1>2, <1>4, <2>1, <2>2, <2>3, <2>4, Zenon DEF InPlaces, Spelt
<1>6. Unity!Read([minus |-> FALSE, base |-> B, digits |-> d]) = c
  BY ONLY <1>5, ReadBack
<1>7. Spelt(c, last)[last] = c % 10
  <2>1. 10 ^ 0 = 1 /\ c \div 1 = c
    OBVIOUS
  <2> QED
    BY <1>2, <2>1, Zenon DEF Spelt
<1>8. ASSUME 10 ^ last <= c PROVE Spelt(c, last)[0] # 0
  <2>1. w <= c
    BY <1>1, <1>8, Zenon
  <2>2. PICK q \in Int, r \in 0 .. w - 1 : q = c \div w /\ c = w * q + r
    OBVIOUS
  <2>3. q # 0
    <3>1. CASE q = 0
      <4>1. w * q = 0
        BY <3>1
      <4> QED
        BY <2>1, <2>2, <4>1
    <3> QED
      BY <3>1
  <2>4. (c \div w) % 10 # 0
    BY <1>3, <2>2, <2>3
  <2> QED
    BY <1>1, <1>2, <2>4, Zenon DEF Spelt
<1> QED
  BY <1>4, <1>6, <1>7, <1>8, Zenon

\* The zeros at the end of m among places digits, and the number before them.
Zeros(m, places) == {z \in 0 .. places : m % 10 ^ z = 0}

ZerosOff(m, places, z, c) ==
  /\ z \in 0 .. places /\ z < SIG /\ c \in Nat \ {0} /\ m = c * 10 ^ z
  /\ z < places => c % 10 # 0

LEMMA Stripped ==
  ASSUME NEW m \in Nat \ {0}, m < 10 ^ SIG, NEW places \in 0 .. 10,
         NEW z, z = Unity!Max(Zeros(m, places)), NEW c, c = m \div 10 ^ z
  PROVE  ZerosOff(m, places, z, c)
<1>1. SIG \in 1 .. 7 /\ SIG \in 0 .. 10
  BY Scale
<1>2. 0 \in Zeros(m, places)
  <2>1. 0 \in 0 .. places /\ 10 ^ 0 = 1 /\ m % 1 = 0
    OBVIOUS
  <2> QED
    BY <2>1, Zenon DEF Zeros
<1>3. Zeros(m, places) \in SUBSET (0 .. places)
  BY DEF Zeros
<1>4. PICK g \in Zeros(m, places) : \A k \in Zeros(m, places) : g >= k
  <2>1. places \in Nat /\ Zeros(m, places) # {}
    BY <1>2
  <2> QED
    BY <1>3, <2>1, GreatestNumber, Zenon
<1>5. z = g
  <2>1. Zeros(m, places) \in SUBSET Int
    BY <1>3
  <2> QED
    BY <1>4, <2>1, GreatestRead, Zenon
<1>6. z \in 0 .. places /\ z \in 0 .. 10 /\ m % 10 ^ z = 0
  <2>1. z \in 0 .. places /\ m % 10 ^ z = 0
    BY <1>4, <1>5, Zenon DEF Zeros
  <2>2. z \in 0 .. 10
    BY <2>1
  <2> QED
    BY <2>1, <2>2
<1>7. PICK w \in Nat \ {0}, U \in Nat : w = 10 ^ z /\ U = 10 ^ SIG /\ m < U
  BY <1>1, <1>6, TenTyped, Zenon
<1>8. PICK q \in Int : q = m \div w /\ m = w * q /\ q >= 1
  <2>1. m % w = 0
    BY <1>6, <1>7, Zenon
  <2>2. PICK q \in Int, r \in 0 .. w - 1 : q = m \div w /\ r = m % w /\ m = w * q + r
    OBVIOUS
  <2>3. m = w * q
    BY <2>1, <2>2
  <2>4. CASE q <= 0
    <3>1. w * (-q) >= 0 /\ w * (-q) = -(w * q)
      BY <2>4
    <3> QED
      BY <2>3, <3>1
  <2> QED
    BY <2>2, <2>3, <2>4
<1>9. c = q /\ q \in Nat \ {0} /\ q * w = w * q
  <2>1. q \in Nat \ {0} /\ q * w = w * q
    BY <1>8
  <2> QED
    BY <1>7, <1>8, <2>1, Zenon
<1>10. z < SIG
  <2> SUFFICES ASSUME SIG <= z PROVE FALSE
    BY <1>1, <1>6
  <2>1. U <= w
    BY <1>1, <1>6, <1>7, TenOrder, Zenon
  <2>2. w * (q - 1) >= 0 /\ w * (q - 1) = w * q - w
    BY <1>8
  <2> QED
    BY <1>7, <1>8, <2>1, <2>2
<1>11. ASSUME z < places, c % 10 = 0 PROVE FALSE
  <2>1. z \in 0 .. 9 /\ z + 1 \in 0 .. places /\ ~(z >= z + 1)
    BY <1>6, <1>11
  <2>2. 10 ^ (z + 1) = 10 * w
    BY <1>7, <2>1, TenPowers, Zenon
  <2>3. PICK t \in Int : q = 10 * t
    <3>1. q % 10 = 0
      BY <1>9, <1>11, Zenon
    <3> QED
      BY <1>9, <3>1
  <2>4. Splits(m, 10 * w, t, 0) /\ 10 * w \in Nat \ {0} /\ 0 \in 0 .. 10 * w - 1
    <3>1. w * (10 * t) = t * (10 * w)
      OBVIOUS
    <3>2. m = t * (10 * w) + 0
      BY <1>8, <2>3, <3>1
    <3> QED
      BY <3>2 DEF Splits
  <2>5. m % (10 * w) = 0
    BY <2>4, Divided, Zenon
  <2>6. z + 1 \in Zeros(m, places)
    BY <2>1, <2>2, <2>5, Zenon DEF Zeros
  <2> QED
    BY <1>4, <1>5, <2>1, <2>6, Zenon
<1> QED
  BY <1>6, <1>7, <1>9, <1>8, <1>10, <1>11, Zenon DEF ZerosOff

\* A text of at most 16 digits, whose point is among them, without a 0 too
\* many at either end; read back it is c * 10^power.
TextOk(text, c, power) ==
  LET last == Unity!Max(DOMAIN text.digits)
  IN /\ Unity!Read([minus |-> FALSE, base |-> 10, digits |-> text.digits]) = c
     /\ text.exponent - text.decimals = power
     /\ last + 1 <= 16 /\ text.decimals \in 0 .. last
     /\ text.digits[0] = 0 => text.decimals = last
     /\ text.decimals > 0 => text.digits[last] # 0

\* Written digits read back as the number they are, stripped of its zeros.
LEMMA WrittenTells ==
  ASSUME NEW m \in Nat, 10 ^ (SIG - 1) <= m, m < 10 ^ SIG, NEW p \in Int
  PROVE  \E c \in Nat, z \in 0 .. SIG - 1 :
           m = c * 10 ^ z /\ TextOk(Unity!Written(<<m, p>>), c, p + z)
<1> DEFINE places == IF p \in -(SIG + 3) .. 0 THEN -p ELSE SIG - 1
           z == Unity!Max(Zeros(m, places))
           c == m \div 10 ^ z
           decimals == places - z
           last == Unity!Max({Unity!Digits(c) - 1, decimals})
           text == Unity!Written(<<m, p>>)
<1>1. SIG \in 1 .. 7 /\ SIG \in 0 .. 10 /\ SIG - 1 \in 0 .. 10 /\ SIG - 1 \in Int
  BY Scale
<1>2. places \in 0 .. 10
  BY <1>1
<1>3. m \in Nat \ {0}
  <2>1. PICK L \in Nat \ {0} : L = 10 ^ (SIG - 1)
    BY <1>1, TenTyped, Zenon
  <2>2. L <= m
    BY <2>1, Zenon
  <2> QED
    BY <2>2
<1>4. text = [digits |-> Spelt(c, last), decimals |-> decimals, exponent |-> p + places]
  BY Zenon DEF Unity!Written, Zeros, Spelt
<1> HIDE DEF places, z, c, last, text
<1>5. /\ z \in 0 .. places /\ z < SIG /\ c \in Nat \ {0} /\ m = c * 10 ^ z
      /\ z < places => c % 10 # 0
  <2>1. z = Unity!Max(Zeros(m, places)) /\ c = m \div 10 ^ z
    BY Zenon DEF z, c
  <2>2. ZerosOff(m, places, z, c)
    BY <1>2, <1>3, <2>1, Stripped, Zenon
  <2> QED
    BY <2>2, Zenon DEF ZerosOff
<1>6. z \in 0 .. SIG - 1 /\ decimals \in 0 .. 10 /\ z \in 0 .. 10
  BY <1>1, <1>2, <1>5
<1>7. c \in Nat /\ c < 10 ^ 9 /\ c > 0
  <2>1. PICK w \in Nat \ {0}, U \in Nat, V \in Nat : w = 10 ^ z /\ U = 10 ^ SIG /\ V = 10 ^ 9
    <3>1. 9 \in 0 .. 10
      OBVIOUS
    <3> QED
      BY <1>1, <1>6, <3>1, TenTyped, Zenon
  <2>2. U <= V
    <3>1. 9 \in 0 .. 10 /\ SIG <= 9
      BY <1>1
    <3> QED
      BY <1>1, <2>1, <3>1, TenOrder, Zenon
  <2>3. m < U /\ m = c * w
    BY <1>5, <2>1, Zenon
  <2>4. c * (w - 1) >= 0 /\ c * (w - 1) = c * w - c
    BY <1>5
  <2>5. c < V
    BY <1>5, <2>2, <2>3, <2>4
  <2>6. c \in Nat /\ c > 0
    BY <1>5
  <2> QED
    BY <2>1, <2>5, <2>6, Zenon
<1>8. PICK D \in 1 .. 9 : D = Unity!Digits(c) /\ 10 ^ (D - 1) <= c /\ c < 10 ^ D
  BY <1>7, DigitsFacts, Zenon
<1>9. last = (IF D - 1 < decimals THEN decimals ELSE D - 1)
  <2>1. D - 1 \in Int /\ decimals \in Int
    BY <1>6
  <2> QED
    BY <1>8, <2>1, LeastOfTwo, Zenon DEF last
<1>10. last \in 0 .. 10 /\ last \in Nat /\ decimals \in 0 .. last /\ D - 1 <= last /\ last + 1 <= 16
  BY <1>6, <1>9
<1>11. c < 10 * 10 ^ last
  <2>1. D - 1 \in 0 .. 10 /\ D - 1 \in 0 .. 9 /\ (D - 1) + 1 = D
    OBVIOUS
  <2>2. 10 ^ (D - 1) <= 10 ^ last /\ 10 ^ D = 10 * 10 ^ (D - 1)
    <3>1. 10 ^ (D - 1) <= 10 ^ last
      BY <1>10, <2>1, TenOrder, Zenon
    <3>2. 10 ^ ((D - 1) + 1) = 10 * 10 ^ (D - 1)
      BY <2>1, TenPowers, Zenon
    <3> QED
      BY <2>1, <3>1, <3>2, Zenon
  <2>3. PICK u \in Nat, w \in Nat : u = 10 ^ (D - 1) /\ w = 10 ^ last
    BY <1>10, <2>1, TenTyped, Zenon
  <2>4. u <= w /\ c < 10 * u
    BY <1>8, <2>2, <2>3, Zenon
  <2>5. c < 10 * w
    BY <1>7, <2>4
  <2> QED
    BY <2>3, <2>5, Zenon
<1>12. /\ Unity!Read([minus |-> FALSE, base |-> 10, digits |-> Spelt(c, last)]) = c
       /\ Spelt(c, last)[last] = c % 10
       /\ 10 ^ last <= c => Spelt(c, last)[0] # 0
  BY <1>7, <1>10, <1>11, SpeltRead, Zenon
<1>13. text.digits = Spelt(c, last) /\ text.decimals = decimals /\ text.exponent = p + places
  BY <1>4
<1>14. Unity!Max(DOMAIN text.digits) = last
  <2>1. DOMAIN text.digits = 0 .. last
    BY <1>13 DEF Spelt
  <2> QED
    BY <1>10, <2>1, LastOf, Zenon
<1>15. text.exponent - text.decimals = p + z
  BY <1>2, <1>5, <1>13
<1>16. ASSUME Spelt(c, last)[0] = 0 PROVE decimals = last
  <2> SUFFICES ASSUME decimals # last PROVE FALSE
    OBVIOUS
  <2>1. last = D - 1
    BY <1>9
  <2> QED
    BY <1>8, <1>12, <1>16, <2>1, Zenon
<1>17. ASSUME decimals > 0 PROVE Spelt(c, last)[last] # 0
  <2>1. z < places
    BY <1>2, <1>5, <1>17
  <2> QED
    BY <1>5, <1>12, <2>1, Zenon
<1>18. TextOk(text, c, p + z)
  BY <1>10, <1>12, <1>13, <1>14, <1>15, <1>16, <1>17, Zenon DEF TextOk
<1> QED
  BY <1>5, <1>6, <1>7, <1>18, Zenon DEF text

\* Where a text and its number are compared: a power of ten that both are
\* multiples of.
LEMMA LeastOfThree ==
  ASSUME NEW a \in Int, NEW b \in Int, NEW d \in Int, b <= d
  PROVE  Unity!Min({a, b, d}) = IF a < b THEN a ELSE b
<1>1. PICK g \in {a, b, d} : g = (IF a < b THEN a ELSE b) /\ \A f \in {a, b, d} : g <= f
  OBVIOUS
<1>2. {a, b, d} \in SUBSET Int
  OBVIOUS
<1> QED
  BY <1>1, <1>2, LeastRead, Zenon

\* A number, fitted and written, is told.
LEMMA NumberTold ==
  ASSUME NEW n, NEW D, Long(n, D), NEW e \in Int,
         NEW m, NEW d, FittedOk(n, D, e, m, d),
         NEW c \in Nat, NEW z \in 0 .. SIG - 1, m = c * 10 ^ z,
         NEW text, TextOk(text, c, D + e - SIG + d + z),
         NEW k \in Nat, NEW slip \in Int, k + slip = n
  PROVE  Unity!Tells(text, k, e, slip)
<1> DEFINE unit == D + e - SIG
           power == text.exponent - text.decimals
           grid == Unity!Min({e, unit, power})
           cut == D - SIG
<1>1. /\ SIG \in 1 .. 7 /\ D \in 1 .. 9 /\ n \in Nat /\ d \in 0 .. 1 /\ m \in Nat
      /\ Unity!Digits(n) = D /\ Rounds(n, cut, m * 10 ^ d)
  BY Scale DEF Long, FittedOk
<1>2. power = unit + d + z
  BY DEF TextOk
<1>3. z \in 0 .. 10 /\ d \in 0 .. 10 /\ d + z \in 0 .. 10 /\ z + d \in 0 .. 10 /\ d + z = z + d
      /\ unit \in Int /\ unit <= power /\ power \in Int /\ cut \in -6 .. 8
  BY <1>1, <1>2
<1>4. m * 10 ^ d = c * 10 ^ (d + z)
  <2>1. PICK u \in Nat, w \in Nat : u = 10 ^ d /\ w = 10 ^ z
    BY <1>3, TenTyped, Zenon
  <2>2. 10 ^ (d + z) = u * w
    BY <1>3, <2>1, TenTimes, Zenon
  <2>3. (c * w) * u = c * (u * w)
    OBVIOUS
  <2> QED
    BY <2>1, <2>2, <2>3, Zenon
<1>5. grid = IF e < unit THEN e ELSE unit
  <2> HIDE DEF unit, power
  <2> QED
    BY <1>3, LeastOfThree, Zenon
<1>6. PICK y \in Nat : y = c * 10 ^ (d + z) /\ Rounds(n, cut, y)
  <2>1. m * 10 ^ d \in Nat
    BY <1>1 DEF Rounds
  <2> QED
    BY <1>1, <1>4, <2>1, Zenon
<1>7. 2 * Unity!Size(n * 10 ^ (e - grid) - c * 10 ^ (power - grid)) <= 10 ^ (unit - grid)
  <2>1. CASE cut <= 0
    <3>1. e - grid = -cut /\ power - grid = d + z /\ unit - grid = 0
      BY <1>1, <1>2, <1>3, <1>5, <2>1
    <3>2. y = n * 10 ^ (-cut)
      BY <1>6, <2>1, Zenon DEF Rounds
    <3>3. y - y = 0 /\ 10 ^ 0 = 1
      OBVIOUS
    <3>4. Unity!Size(0) = 0 /\ 2 * 0 <= 1
      BY DEF Unity!Size
    <3>5. n * 10 ^ (e - grid) - c * 10 ^ (power - grid) = y - y
      BY <1>6, <3>1, <3>2, Zenon
    <3> HIDE DEF power, grid
    <3> QED
      BY <3>1, <3>3, <3>4, <3>5, Zenon
  <2>2. CASE cut > 0
    <3>1. /\ e - grid = 0 /\ power - grid = (d + z) + cut /\ unit - grid = cut
          /\ cut \in 0 .. 10 /\ (d + z) + cut \in 0 .. 10
      BY <1>1, <1>2, <1>3, <1>5, <2>2
    <3>2. PICK X \in Nat, w \in Nat : X = 10 ^ cut /\ w = 10 ^ (d + z)
      BY <1>3, <3>1, TenTyped, Zenon
    <3>3. 10 ^ (power - grid) = w * X
      <4>1. PICK a \in 0 .. 10, b \in 0 .. 10, f \in 0 .. 10 :
              a = power - grid /\ b = d + z /\ f = cut /\ a = b + f
        BY <1>3, <3>1, Zenon
      <4>2. 10 ^ a = 10 ^ b * 10 ^ f
        BY <4>1, TenTimes, Zenon
      <4> HIDE DEF power, grid
      <4> QED
        BY <3>2, <4>1, <4>2, Zenon
    <3>4. Halves(n, X, y)
      BY <1>6, <2>2, <3>2, Zenon DEF Rounds
    <3>5. c * (w * X) = y * X
      <4>1. y = c * w
        BY <1>6, <3>2, Zenon
      <4>2. c * (w * X) = (c * w) * X
        OBVIOUS
      <4> QED
        BY <4>1, <4>2, Zenon
    <3>6. n * 10 ^ 0 = n
      <4>1. 10 ^ 0 = 1 /\ n * 1 = n
        BY <1>1
      <4> QED
        BY <4>1, Zenon
    <3>7. n * 10 ^ (e - grid) - c * 10 ^ (power - grid) = n - y * X
      BY <3>1, <3>3, <3>5, <3>6, Zenon
    <3>8. 2 * Unity!Size(n - y * X) <= X
      <4>1. PICK t \in Int : t = y * X
        OBVIOUS
      <4>2. 2 * (n - t) <= X /\ 2 * (t - n) <= X
        BY <3>4, <4>1 DEF Halves
      <4>3. 2 * Unity!Size(n - t) <= X
        BY <1>1, <4>2 DEF Unity!Size
      <4> QED
        BY <4>1, <4>3, Zenon
    <3> HIDE DEF power, grid
    <3> QED
      BY <3>1, <3>2, <3>7, <3>8, Zenon
  <2> QED
    BY <1>3, <2>1, <2>2
<1> HIDE DEF grid
<1>8. e - grid \in 0 .. 10
  BY <1>1, <1>5
<1>9. 2 * Unity!Size(k * 10 ^ (e - grid) - c * 10 ^ (power - grid))
        <= 10 ^ (unit - grid) + 2 * (Unity!Size(slip) * 10 ^ (e - grid))
  <2>1. PICK P \in Nat, g \in Nat, u \in Nat :
          P = 10 ^ (e - grid) /\ g = 10 ^ (power - grid) /\ u = 10 ^ (unit - grid)
    <3>1. power - grid \in 0 .. 10 /\ unit - grid \in 0 .. 10
      BY <1>1, <1>2, <1>3, <1>5
    <3> QED
      BY <1>8, <3>1, TenTyped, Zenon
  <2>2. PICK r \in Int, a \in Int, f \in Int : r = c * g /\ a = k * P /\ f = slip * P
    OBVIOUS
  <2>3. n * P = a + f
    BY <2>2
  <2>4. Unity!Size(slip) * P = Unity!Size(f)
    <3>1. CASE slip < 0
      BY <2>2, <3>1 DEF Unity!Size
    <3>2. CASE slip >= 0
      BY <2>2, <3>2 DEF Unity!Size
    <3> QED
      BY <3>1, <3>2
  <2>5. 2 * Unity!Size((a + f) - r) <= u
    BY <1>7, <2>1, <2>2, <2>3, Zenon
  <2>6. 2 * Unity!Size(a - r) <= u + 2 * Unity!Size(f)
    BY <2>5 DEF Unity!Size
  <2> QED
    BY <2>1, <2>2, <2>4, <2>6, Zenon
<1>10. Unity!Tells(text, k, e, slip) =
        LET last == Unity!Max(DOMAIN text.digits)
        IN /\ 2 * Unity!Size(k * 10 ^ (e - grid) - c * 10 ^ (power - grid))
                <= 10 ^ (unit - grid) + 2 * (Unity!Size(slip) * 10 ^ (e - grid))
           /\ last + 1 <= 16 /\ text.decimals \in 0 .. last
           /\ text.digits[0] = 0 => text.decimals = last
           /\ text.decimals > 0 => text.digits[last] # 0
  BY <1>1, Zenon DEF Unity!Tells, TextOk, grid
<1> QED
  BY <1>9, <1>10, Zenon DEF TextOk

\* Zero is written as 0.
LEMMA ZeroTold == Unity!FloatTold(0, 0)
<1> DEFINE text == [digits |-> [k \in 0 .. 0 |-> 0], decimals |-> 0, exponent |-> 0]
<1>1. SIG \in 1 .. 7 /\ SIG \in 0 .. 10
  BY Scale
<1>2. Unity!Float(0, 0) = text
  BY Zenon DEF Unity!Float
<1>3. /\ text.digits = [k \in 0 .. 0 |-> 0] /\ text.decimals = 0 /\ text.exponent = 0
      /\ DOMAIN text.digits = 0 .. 0 /\ text.digits[0] = 0
  OBVIOUS
<1> HIDE DEF text
<1>4. Unity!Max(DOMAIN text.digits) = 0
  <2>1. 0 \in Nat
    OBVIOUS
  <2> QED
    BY <1>3, <2>1, LastOf, Zenon
<1>5. Unity!Read([minus |-> FALSE, base |-> 10, digits |-> text.digits]) = 0
  <2>1. [k \in 0 .. 0 |-> 0] = Spelt(0, 0)
    <3>1. \A k \in 0 .. 0 : 0 = (0 \div 10 ^ (0 - k)) % 10
      <4>1. (\A k \in 0 .. 0 : k = 0) /\ 0 - 0 = 0
        OBVIOUS
      <4>2. 10 ^ 0 = 1 /\ (0 \div 1) % 10 = 0
        OBVIOUS
      <4> QED
        BY <4>1, <4>2, Zenon
    <3> QED
      BY <3>1, Zenon DEF Spelt
  <2>2. 0 \in Nat /\ 0 \in 0 .. 10 /\ 10 ^ 0 = 1 /\ 0 < 10 * 1
    OBVIOUS
  <2>3. 0 < 10 * 10 ^ 0
    BY <2>2, Zenon
  <2>4. Unity!Read([minus |-> FALSE, base |-> 10, digits |-> Spelt(0, 0)]) = 0
    BY <2>2, <2>3, SpeltRead, Zenon
  <2>5. text.digits = Spelt(0, 0)
    BY <1>3, <2>1, Zenon
  <2> QED
    BY <2>4, <2>5, Zenon
<1>6. Unity!Digits(0) = 0
  <2>1. 0 \in Nat /\ 0 < 10 ^ 9
    OBVIOUS
  <2> QED
    BY <2>1, DigitsFacts, Zenon
<1> DEFINE unit == 0 + 0 - SIG
           grid == Unity!Min({0, unit, 0})
<1>7. grid = unit /\ 0 - grid = SIG /\ unit - grid = 0
  <2>1. Unity!Min({0, unit, 0}) = IF 0 < unit THEN 0 ELSE unit
    <3>1. 0 \in Int /\ unit \in Int /\ unit <= 0
      BY <1>1
    <3> HIDE DEF unit
    <3> QED
      BY <3>1, LeastOfThree, Zenon
  <2> QED
    BY <1>1, <2>1
<1> HIDE DEF grid
<1>8. 2 * Unity!Size(0 * 10 ^ (0 - grid) - 0 * 10 ^ (0 - grid))
        <= 10 ^ (unit - grid) + 2 * (Unity!Size(0) * 10 ^ (0 - grid))
  <2>1. PICK u \in Nat : u = 10 ^ (0 - grid)
    BY <1>1, <1>7, TenTyped, Zenon
  <2>2. 2 * Unity!Size(0 * u - 0 * u) <= 1 + 2 * (Unity!Size(0) * u) /\ 10 ^ 0 = 1
    BY DEF Unity!Size
  <2> QED
    BY <1>7, <2>1, <2>2, Zenon
<1>9. 0 - 0 = 0 /\ 0 + 0 = 0 /\ 0 + 1 <= 16 /\ 0 \in 0 .. 0 /\ ~(0 > 0)
  OBVIOUS
<1>10. Unity!Tells(text, 0, 0, 0)
  BY <1>3, <1>4, <1>5, <1>6, <1>8, <1>9, Zenon DEF Unity!Tells, grid
<1>11. ASSUME NEW d \in Unity!Slips(0, 0) PROVE d = 0
  <2>1. 0 \div ACCURACY = 0
    BY Scale
  <2>2. d \in -(0 \div ACCURACY) .. 0 \div ACCURACY
    BY <1>11, Zenon DEF Unity!Slips
  <2>3. -0 = 0
    <3>1. 0 \in Int /\ 0 <= 0 /\ 0 >= 0
      OBVIOUS
    <3> QED
      BY <3>1, NoSign, Zenon
  <2>4. d \in 0 .. 0
    BY <2>1, <2>2, <2>3, Zenon
  <2> QED
    BY <2>4
<1> QED
  BY <1>2, <1>9, <1>10, <1>11, Zenon DEF Unity!FloatTold

\* Any other number, off by what it may be, goes through scaling, fitting and
\* writing.
LEMMA FloatWritten ==
  ASSUME NEW n \in 1 .. 10 ^ 9 - 1, NEW e \in Exponents
  PROVE  \A k \in Nat, slip \in Int : k + slip = n => Unity!Tells(Unity!Float(n, e), k, e, slip)
<1>1. n \in Nat /\ n < 10 ^ 9 /\ n > 0 /\ n # 0 /\ n \in Nat \ {0}
  <2>1. 10 ^ 9 \in Nat
    OBVIOUS
  <2> QED
    BY <2>1
<1>2. PICK D : D = Unity!Digits(n)
  OBVIOUS
<1>3. Long(n, D)
  BY <1>1, <1>2, DigitsFacts, Zenon DEF Long
<1>4. PICK m, d : /\ FittedOk(n, D, e, m, d)
                  /\ Unity!Fitted(Unity!Scaled(n, e)) = <<m, D + e - SIG + d>>
  BY <1>3, FittedTells, Zenon
<1>5. /\ m \in Nat /\ 10 ^ (SIG - 1) <= m /\ m < 10 ^ SIG /\ d \in 0 .. 1
  BY <1>4, Zenon DEF FittedOk
<1>6. D + e - SIG + d \in Int /\ e \in Int
  BY <1>3, <1>5, Scale DEF Long, Exponents
<1>7. PICK c \in Nat, z \in 0 .. SIG - 1 :
        /\ m = c * 10 ^ z
        /\ TextOk(Unity!Written(<<m, D + e - SIG + d>>), c, D + e - SIG + d + z)
  BY <1>5, <1>6, WrittenTells, Zenon
<1>8. Unity!Float(n, e) = Unity!Written(<<m, D + e - SIG + d>>)
  BY <1>1, <1>4, Zenon DEF Unity!Float
<1> QED
  BY <1>1, <1>3, <1>4, <1>6, <1>7, <1>8, NumberTold, Zenon

LEMMA FloatsWritten ==
  ASSUME NEW n \in 1 .. 10 ^ 9 - 1, NEW e \in Exponents
  PROVE  Unity!FloatTold(n, e)
<1> SUFFICES ASSUME NEW d \in Unity!Slips(n, e)
             PROVE  Unity!Tells(Unity!Float(n + d, e), n, e, d)
  BY Zenon DEF Unity!FloatTold
<1>1. n \in Nat
  OBVIOUS
<1>2. d \in Int
  <2>1. d \in -(n \div ACCURACY) .. n \div ACCURACY
    BY Zenon DEF Unity!Slips
  <2>2. n \div ACCURACY \in Int
    BY <1>1, Scale
  <2> QED
    BY <2>1, <2>2
<1>3. n + d \in 1 .. 10 ^ 9 - 1
  <2>1. d = 0 \/ n + d \in 1 .. 10 ^ 9 - 1
    BY Zenon DEF Unity!Slips
  <2>2. n + 0 = n
    BY <1>1
  <2> QED
    BY <2>1, <2>2, Zenon
<1>4. \A k \in Nat, slip \in Int :
        k + slip = n + d => Unity!Tells(Unity!Float(n + d, e), k, e, slip)
  BY <1>3, FloatWritten, Zenon
<1> QED
  BY <1>1, <1>2, <1>4, Zenon

-----------------------------------------------------------------------------
(* A question stays the one it was.                                        *)

Asked ==
  /\ part = "square" => input \in Squares
  /\ part = "line" => input \in Lines
  /\ part = "bitmap" => input \in Pictures
  /\ part = "text" => input \in Texts
  /\ part = "form" => input \in Requests
  /\ part = "numbers" => input \in Numbers
  /\ part = "strings" => input \in Strings
  /\ part = "floats" => input \in Floats
  /\ part = "print" => input \in Prints

LEMMA AskedAlways == BoardSpec => []Asked
<1>1. BoardInit => Asked
  BY DEF BoardInit, Asked, Parts
<1>2. Asked /\ [BoardNext]_boardVars => Asked'
  <2>1. [BoardNext]_boardVars => UNCHANGED <<part, input>>
    BY DEF BoardNext, About, boardVars
  <2> QED
    BY <2>1 DEF Asked
<1> QED
  BY <1>1, <1>2, PTL DEF BoardSpec

-----------------------------------------------------------------------------

\* Squares, filled and empty, lines and bitmaps light the pixels they should, and
\* no others, over the edges of the display too.  (The slope of a line is exact
\* but for the columns named in its question; the code computes it in floats, so
\* for lines much longer than a display is wide the columns would be others.)
THEOREM ShapesRight == BoardSpec => []ShapesDrawn
<1>1. Asked => ShapesDrawn
  <2> SUFFICES ASSUME Asked PROVE ShapesDrawn
    OBVIOUS
  <2>1. Screen!ScreenAssumption /\ WORD \in Nat
    BY PartsAssumption DEF Screen!ScreenAssumption
  <2>2. ASSUME part = "square"
        PROVE  /\ Screen!SquareClipped(input.x, input.y, input.width, input.height)
               /\ input.x < WORD \div 2 /\ input.y < WORD \div 2 =>
                    Screen!SquareOutlined(input.x, input.y, input.width, input.height)
    <3>1. /\ input.x \in Coordinates /\ input.y \in Coordinates
          /\ input.width \in Lengths /\ input.height \in Lengths
      BY <2>2, QuestionsAssumption DEF Asked
    <3> QED
      BY <2>1, <3>1, SquaresClipped, SquaresOutlined
  <2>3. ASSUME part = "line"
        PROVE  Screen!LineStraight(input.x1, input.y1, input.x2, input.y2, input.at)
    <3>1. /\ input.x1 \in Coordinates /\ input.y1 \in Coordinates
          /\ input.x2 \in Coordinates /\ input.y2 \in Coordinates /\ input.x1 < input.x2
      BY <2>3, QuestionsAssumption DEF Asked
    <3> QED
      BY <2>1, <3>1, LinesStraight
  <2>4. ASSUME part = "bitmap"
        PROVE  Screen!BitmapShown(input.picture, input.width, input.height, input.turned,
                                  input.black)
    <3>1. /\ input.picture \in SUBSET Dots /\ input.width \in Lengths
          /\ input.height \in Lengths \ {0} /\ input.turned \in BOOLEAN /\ input.black \in 0 .. 1
      BY <2>4, QuestionsAssumption DEF Asked, Dots
    <3> QED
      BY <2>1, <3>1, BitmapsShown
  <2> QED
    BY <2>2, <2>3, <2>4, Zenon DEF ShapesDrawn
<1> QED
  BY <1>1, AskedAlways, PTL

\* A button pressed on the page just sent is understood as that button, about
\* the floor in view, whatever was typed, as long as the button is behind it in
\* the 255 characters of line; if the text pushes it out of them, as no button.
\* The number is the one typed if it has a place in the seven of value_str.
THEOREM FormsRight == BoardSpec => []FormUnderstood
<1>1. Asked => FormUnderstood
  <2> SUFFICES ASSUME Asked, part = "form"
               PROVE  Form!FormUnderstood(input.selected, input.button, input.typed)
    BY DEF FormUnderstood
  <2>1. /\ input.selected \in 0 .. FLOORS - 1 /\ input.button \in Buttons
        /\ input.typed \in Seq(STRING \ Marks)
    BY QuestionsAssumption DEF Asked
  <2> QED
    BY <2>1, FormsUnderstood, QuestionsAssumption
<1> QED
  BY <1>1, AskedAlways, PTL

\* A string shows the glyph of each of its characters in a cell of its own and
\* nothing else, in any font, at any scale and place.
THEOREM TextsRight == BoardSpec => []TextReadable
<1>1. Asked => TextReadable
  <2> SUFFICES ASSUME Asked, part = "text"
               PROVE  Screen!TextReadable(input.at[1], input.at[2], input.scale, Font, input.s)
    BY DEF TextReadable
  <2>1. FontTyped(Font)
    BY QuestionsAssumption DEF FontTyped
  <2>2. input \in Texts
    BY DEF Asked
  <2>3. /\ input.at[1] \in Coordinates /\ input.at[2] \in Coordinates
        /\ input.scale \in Nat \ {0} /\ input.s \in Seq(Nat)
        /\ Len(input.s) * ((Font.width + Font.gap) * input.scale) <= WORD \div 2
        /\ (Font.height + 7) * input.scale <= WORD \div 2
    <3>1. input \in [at: Coordinates \X Coordinates, scale: Nat \ {0}, s: Seq(Nat)]
      BY <2>2, QuestionsAssumption
    <3>2. /\ Len(input.s) * ((Font.width + Font.gap) * input.scale) <= WORD \div 2
          /\ (Font.height + 7) * input.scale <= WORD \div 2
      BY <2>2, QuestionsAssumption, Zenon
    <3> QED
      BY <3>1, <3>2
  <2> QED
    BY <2>1, <2>3, TextsReadable, PartsAssumption
<1> QED
  BY <1>1, AskedAlways, PTL

\* An assertion of Unity fails just when what it asserts is not so: numbers of
\* every type compared, ordered, bounded, alone and in arrays; strings and
\* memory; floats, what is no number and the infinities included.  What a failed
\* one prints of a number, read as C reads one, is the number compared: decimal
\* with a sign where the type has one, hexadecimal in the digits of the type, and
\* characters as themselves.
THEOREM AssertionsRight == BoardSpec => []AssertionsJudge
<1>1. Asked => AssertionsJudge
  <2> SUFFICES ASSUME Asked PROVE AssertionsJudge
    OBVIOUS
  <2>1. Unity!UnityAssumption
    BY PartsAssumption
  <2>2. ASSUME part = "numbers"
        PROVE  /\ Unity!NumbersJudged(input.style, input.x, input.y, input.delta)
               /\ Unity!MessagesTell(input.style, input.x)
    <3>1. input \in Numbers
      BY <2>2 DEF Asked
    <3>2. /\ input.style \in Unity!Styles
          /\ input.x \in Int /\ input.y \in Int /\ input.delta \in Int
      BY <3>1, QuestionsAssumption
    <3> QED
      BY <2>1, <3>2, NumbersRight, MessagesRight, Zenon
  <2>3. ASSUME part = "strings" PROVE Unity!TextsJudged(input.s, input.t, input.length)
    <3>1. input \in Strings
      BY <2>3 DEF Asked
    <3>2. input.s \in Seq(Chars) /\ input.t \in Seq(Chars) /\ input.length \in Nat
      BY <3>1, QuestionsAssumption DEF Chars
    <3> QED
      BY <2>1, <3>2, StringsRight, Zenon
  <2>4. ASSUME part = "floats" PROVE Unity!FloatsJudged(input.delta, input.x, input.y)
    <3>1. input \in Floats
      BY <2>4 DEF Asked
    <3>2. input.x \in FloatValues /\ input.y \in FloatValues /\ input.delta \in FloatValues
      BY <3>1, QuestionsAssumption
    <3> QED
      BY <2>1, <3>2, FloatsRight, Zenon
  <2> QED
    BY <2>2, <2>3, <2>4, Zenon DEF AssertionsJudge
<1> QED
  BY <1>1, AskedAlways, PTL

\* What is printed of a float tells it, over all the range that the leaps of the
\* scaling span and whatever the scaling loses: the number that C reads of the
\* text is off by that loss and half a unit of the last of SIG digits at most, so
\* no other step loses anything.  The text has no digit too many: at most 16, none
\* of them a leading 0 but for the one before the point, none a 0 at the end
\* behind it.
THEOREM FloatsPrinted == BoardSpec => []FloatsTold
<1>1. Asked => FloatsTold
  <2> SUFFICES ASSUME Asked, part = "print" PROVE Unity!FloatTold(input.n, input.e)
    BY DEF FloatsTold
  <2>1. input \in [n: {0}, e: {0}] \cup [n: 1 .. 10 ^ 9 - 1, e: Exponents]
    BY QuestionsAssumption DEF Asked
  <2>2. CASE input.n = 0 /\ input.e = 0
    BY <2>2, ZeroTold, Zenon
  <2>3. CASE input.n \in 1 .. 10 ^ 9 - 1 /\ input.e \in Exponents
    BY <2>3, FloatsWritten, Zenon
  <2> QED
    BY <2>1, <2>2, <2>3
<1> QED
  BY <1>1, AskedAlways, PTL
=============================================================================
