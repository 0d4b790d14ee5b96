-------------------------------- MODULE Unity --------------------------------
(***************************************************************************)
(* The assertions of the Unity framework the ADC activity tests with,      *)
(* unity.c and the macros of unity_internals.h, as they are built for the  *)
(* board: int is four bytes wide, no 64-bit support, no doubles.  Each     *)
(* operator tells whether the assertion fails; the runner that acts upon   *)
(* it is UnityRunner.  A style is the range and the size, in bytes, of the *)
(* type asserted about.  A pointer is Null or the sequence it points to.   *)
(***************************************************************************)
EXTENDS Integers, Sequences, FiniteSetsExt

CONSTANTS
  BYTE,         \* bits of a byte (8)
  PRECISION,    \* 1 / UNITY_FLOAT_PRECISION (100000)
  SIG, LEAP,    \* digits printed of a float (7), steps it is scaled in (10)
  ACCURACY,     \* a scaled float is off by 1 / ACCURACY of itself (3355442) at most
  Printable,    \* characters written as themselves, CR and LF included
  Null          \* the null pointer

INT == 4

\* A byte of the board has eight bits, two hexadecimal digits; fewer make the
\* same numbers smaller.  A module that instantiates this one assumes it.
UnityAssumption ==
  /\ BYTE \in {2, 4, 6, 8} /\ PRECISION \in Nat /\ SIG \in 1 .. 7 /\ {LEAP, ACCURACY} \subseteq Nat \ {0}
  /\ Null \notin Seq(Int) \cup Seq(Seq(Int)) \cup Seq([kind: {"nan", "inf", "fin"}, v: Int])

Styles == [range : {"int", "uint", "hex"}, size : {1, 2, INT}]
          \cup [range : {"char"}, size : {1}]

\* C's conversions to a signed and an unsigned type of that many bytes.
Signed(n, size) ==
  LET values == 2 ^ (size * BYTE)
  IN ((n + (values \div 2)) % values) - (values \div 2)

Unsigned(n, size) == n % (2 ^ (size * BYTE))

IsInt(style) == style.range \in {"int", "char"}

\* The macros that compare, order and bound convert to the style's own type
\* and then to UNITY_INT ...
Cast(n, style) ==
  IF IsInt(style) THEN Signed(n, style.size) ELSE Signed(Unsigned(n, style.size), INT)

\* ... those for equality convert hexadecimal ones to a signed type.
EqualCast(n, style) ==
  IF style.range = "uint" THEN Signed(Unsigned(n, style.size), INT) ELSE Signed(n, style.size)

-----------------------------------------------------------------------------
(* What a failed assertion prints of a number.                             *)

\* Mutant of Decimal: the divisor stops growing one too early.
DecimalShort(n) ==
  LET places == Min({k \in 0 .. 9 : n \div (10 ^ k) <= 10})
  IN [i \in 0 .. places |-> (n \div (10 ^ (places - i))) % 10]

\* UnityPrintNumberUnsigned.
Decimal(n) ==
  LET places == Min({k \in 0 .. 9 : n \div (10 ^ k) <= 9})
  IN [i \in 0 .. places |-> (n \div (10 ^ (places - i))) % 10]

\* UnityPrintNumberHex: two digits to a byte.
Hexadecimal(n, digits) ==
  LET base == 2 ^ (BYTE \div 2)
  IN [i \in 0 .. digits - 1 |-> (n \div (base ^ (digits - 1 - i))) % base]

\* UnityPrintNumberByStyle.
ByStyle(n, style) ==
  CASE style.range = "char" /\ n \in Printable ->
         [minus |-> FALSE, base |-> 0, digits |-> [i \in 0 .. 0 |-> n]]
    [] style.range = "char" /\ n \notin Printable ->
         [minus |-> FALSE, base |-> 2 ^ (BYTE \div 2),
          digits |-> Hexadecimal(Unsigned(n, INT), 2)]
    [] style.range = "int" ->
         [minus |-> n < 0, base |-> 10,
          digits |-> Decimal(Unsigned(IF n < 0 THEN -n ELSE n, INT))]
    [] style.range = "uint" ->
         [minus |-> FALSE, base |-> 10, digits |-> Decimal(Unsigned(n, INT))]
    [] OTHER ->
         [minus |-> FALSE, base |-> 2 ^ (BYTE \div 2),
          digits |-> Hexadecimal(Unsigned(n, INT), 2 * style.size)]

-----------------------------------------------------------------------------
(* What it prints of a float, here a decimal number n * 10^e.  The powers  *)
(* of ten it is scaled by are exact floats, the products and quotients are *)
(* not: each is off by 2^-24 of itself at most, and the smallest number    *)
(* takes five of them.  So what is printed is n + d in place of n.         *)

Digits(n) == Min({d \in 0 .. 9 : n < 10 ^ d})
Below(n, e, k) == n = 0 \/ Digits(n) + e <= k                 \* n * 10^e < 10^k
AtMost(n, e, k) ==
  Below(n, e, k) \/ (n = 10 ^ (Digits(n) - 1) /\ Digits(n) - 1 + e = k)

\* By how much a number below 1, and one above max_scaled, is scaled.
ScaleUp(n, e) ==
  LET leaps == Min({k \in 0 .. 9 : ~Below(n, e + LEAP * k, SIG - LEAP)})
  IN LEAP * leaps + Min({j \in 0 .. SIG + LEAP : ~Below(n, e + LEAP * leaps + j, SIG - 1)})

ScaleDown(n, e) ==
  LET leaps == Min({k \in 0 .. 9 : AtMost(n, e - LEAP * k, SIG - 1 + LEAP)})
  IN LEAP * leaps + Min({j \in 0 .. SIG + LEAP : AtMost(n, e - LEAP * leaps - j, SIG)})

\* Mutant of Round: what is behind the last digit is cut off.
RoundDown(n, e) == IF e >= 0 THEN n * 10 ^ e ELSE n \div 10 ^ (-e)

\* "round to nearest integer", and to even between two.
Round(n, e) ==
  IF e >= 0 THEN n * 10 ^ e
  ELSE LET unit == 10 ^ (-e)
           up == (2 * n + unit) \div (2 * unit)
       IN IF up % 2 = 1 /\ 2 * (up * unit - n) = unit THEN up - 1 ELSE up

\* The digits of a number, rounded, and the power of ten they count in.
Scaled(n, e) ==
  CASE Below(n, e, 0) -> LET s == ScaleUp(n, e) IN <<Round(n, e + s), -s>>
    [] ~AtMost(n, e, SIG) -> LET s == ScaleDown(n, e) IN <<Round(n, e - s), s>>
    [] OTHER ->
         LET whole == IF e >= 0 THEN n * 10 ^ e ELSE n \div 10 ^ (-e)
             rest == IF e >= 0 THEN 0 ELSE n % 10 ^ (-e)
             s == Min({j \in 0 .. SIG : whole * 10 ^ j >= 10 ^ (SIG - 1)})
         IN <<Round(rest, IF e >= 0 THEN 0 ELSE e + s) + whole * 10 ^ s, -s>>

\* Rounded up to a digit too many, the number takes one less.
Fitted(s) == IF s[1] >= 10 ^ SIG THEN <<10 ^ (SIG - 1), s[2] + 1>> ELSE s

\* The digits, how many of them are decimals, and the exponent behind them,
\* which is not written when it is 0.
Written(s) ==
  LET places == IF s[2] \in -(SIG + 3) .. 0 THEN -s[2] ELSE SIG - 1
      zeros == Max({z \in 0 .. places : s[1] % 10 ^ z = 0})
      kept == s[1] \div 10 ^ zeros
      decimals == places - zeros
      last == Max({Digits(kept) - 1, decimals})
  IN [digits |-> [i \in 0 .. last |-> (kept \div 10 ^ (last - i)) % 10],
      decimals |-> decimals, exponent |-> s[2] + places]

\* UnityPrintFloat.
Float(n, e) ==
  IF n = 0 THEN [digits |-> [i \in 0 .. 0 |-> 0], decimals |-> 0, exponent |-> 0]
           ELSE Written(Fitted(Scaled(n, e)))

\* By how much n may be off once it is scaled: it stays on its side of 1 and of
\* max_scaled, which it was compared with before; between them the whole part is
\* split off first, and only the rest is multiplied.
Slips(n, e) ==
  {d \in -(n \div ACCURACY) .. n \div ACCURACY :
     \/ d = 0
     \/ /\ n + d \in 1 .. 10 ^ 9 - 1
        /\ Below(n, e, 0) => AtMost(n + d, e, 0)
        /\ ~AtMost(n, e, SIG) => ~Below(n + d, e, SIG)
        /\ ~Below(n, e, 0) /\ AtMost(n, e, SIG) =>
             /\ e < 0
             /\ (IF d < 0 THEN -d ELSE d) * ACCURACY <= n % 10 ^ (-e)
             /\ (n % 10 ^ (-e)) + d <= 10 ^ (-e)}

-----------------------------------------------------------------------------
(* Numbers.                                                                *)

BitOf(n, i) == (Unsigned(n, INT) \div (2 ^ i)) % 2

\* UnityAssertBits and UnityAssertEqualNumber.
BitsFail(mask, expected, actual) ==
  \E i \in 0 .. INT * BYTE - 1 : BitOf(mask, i) = 1 /\ BitOf(expected, i) # BitOf(actual, i)

NumberFails(expected, actual) == expected # actual

\* Mutant of Above: unsigned numbers are compared as signed ones.
AboveSigned(x, y, style) == x > y

Above(x, y, style) ==
  IF IsInt(style) THEN x > y ELSE Unsigned(x, INT) > Unsigned(y, INT)

\* UnityAssertGreaterOrLessOrEqualNumber; compare holds what is allowed,
\* nothing of "not equal".
OrderFails(threshold, actual, compare, style) ==
  /\ ~(threshold = actual /\ "equal" \in compare)
  /\ \/ threshold = actual
     \/ Above(actual, threshold, style) /\ "smaller" \in compare
     \/ Above(threshold, actual, style) /\ "greater" \in compare

\* UnityAssertNumbersWithin: the difference wraps into an unsigned number.
WithinFails(delta, expected, actual, style) ==
  IF Above(actual, expected, style) THEN Unsigned(actual - expected, INT) > delta
                                    ELSE Unsigned(expected - actual, INT) > delta

-----------------------------------------------------------------------------
(* Arrays, strings and memory.  flags is "array", or "value" when each     *)
(* element is compared with one.                                           *)

Verdict(why, at) == [why |-> why, at |-> at]

\* The checks every array assertion begins with, and the first element that
\* is bad; same: the two pointers are equal, as two null ones are.
ArrayVerdict(expected, actual, same, n, bad) ==
  CASE n = 0 -> Verdict("pointless", 0)
    [] n > 0 /\ same -> Verdict("pass", 0)
    [] n > 0 /\ ~same /\ (expected = Null \/ actual = Null) -> Verdict("null", 0)
    [] OTHER -> IF bad = {} THEN Verdict("pass", 0) ELSE Verdict("element", Min(bad))

Expected(expected, i, flags) == expected[IF flags = "array" THEN i ELSE 1]

\* How UnityAssertEqualIntArray reads an element: signed, and masked when it
\* is not and narrower than UNITY_INT.
Element(n, style) ==
  IF IsInt(style) \/ style.size = INT THEN Signed(n, style.size) ELSE Unsigned(n, style.size)

IntArray(expected, actual, same, n, style, flags) ==
  ArrayVerdict(expected, actual, same, n,
    {i \in 1 .. n : Element(Expected(expected, i, flags), style) # Element(actual[i], style)})

\* UnityAssertNumbersArrayWithin.
ArrayWithin(delta, expected, actual, same, n, style, flags) ==
  ArrayVerdict(expected, actual, same, n,
    {i \in 1 .. n :
       WithinFails(delta, Cast(Expected(expected, i, flags), style),
                   Cast(actual[i], style), style)})

\* UnityNumToPtr: what the one element of EACH_EQUAL is compared as.
NumToPtr(n, size) == <<Signed(n, size)>>

EachEqual(expected, actual, n, style) ==
  IntArray(NumToPtr(EqualCast(expected, style), style.size), actual, FALSE, n, style, "value")

\* Strings have no zero in them; the one behind them may be read.
CharAt(s, i) == IF i <= Len(s) THEN s[i] ELSE 0

\* The last position the loop of UnityAssertEqualString and of its Len twin
\* reads: where the strings differ or both end, or past the length.
ScanEnd(expected, actual, length) ==
  Min({length + 1} \cup
      {i \in 1 .. length : \/ CharAt(expected, i) # CharAt(actual, i)
                           \/ {CharAt(expected, i), CharAt(actual, i)} = {0}})

StringFails(expected, actual, length) ==
  IF expected # Null /\ actual # Null
  THEN LET i == ScanEnd(expected, actual, length)
       IN i <= length /\ CharAt(expected, i) # CharAt(actual, i)
  ELSE expected # Null \/ actual # Null

\* UnityAssertEqualStringArray; longest: more than any string has.
StringArray(expected, actual, same, n, flags, longest) ==
  ArrayVerdict(expected, actual, same, n,
    {i \in 1 .. n : StringFails(Expected(expected, i, flags), actual[i], longest)})

\* UnityAssertEqualMemory: at is the first byte that differs.
Memory(expected, actual, same, length, n, flags) ==
  LET from(k) == IF flags = "array" THEN k ELSE ((k - 1) % length) + 1
      bad == {k \in 1 .. n * length : expected[from(k)] # actual[k]}
  IN CASE n = 0 \/ length = 0 -> Verdict("pointless", 0)
       [] n * length > 0 /\ same -> Verdict("pass", 0)
       [] n * length > 0 /\ ~same /\ (expected = Null \/ actual = Null) -> Verdict("null", 0)
       [] OTHER -> IF bad = {} THEN Verdict("pass", 0) ELSE Verdict("byte", Min(bad))

-----------------------------------------------------------------------------
(* Floats: not a number, infinite of either sign, or a finite one, on a    *)
(* grid coarse enough for their differences to be exact.  A delta counts   *)
(* in units of 1 / PRECISION of the grid.                                  *)

NaN == [kind |-> "nan", v |-> 0]
Infinite(sign) == [kind |-> "inf", v |-> sign]
Finite(n) == [kind |-> "fin", v |-> n]

Size(n) == IF n < 0 THEN -n ELSE n
Distance(x, y) == Size(x.v - y.v) * PRECISION

\* UnityFloatsWithin: the sign of the delta does not matter; compared with a
\* delta that is not a number nothing is too far.
FloatsWithin(delta, expected, actual) ==
  \/ expected.kind = "inf" /\ actual.kind = "inf" /\ (expected.v < 0) = (actual.v < 0)
  \/ expected.kind = "nan" /\ actual.kind = "nan"
  \/ /\ expected.kind = "fin" /\ actual.kind = "fin"
     /\ delta.kind = "fin" => Distance(actual, expected) <= Size(delta.v)

\* expected * UNITY_FLOAT_PRECISION.
Tolerance(x) == IF x.kind = "fin" THEN [x EXCEPT !.v = Size(@)] ELSE x

Plus(x, y) ==
  IF x.kind = "fin" /\ y.kind = "fin" THEN Finite(x.v + y.v)
  ELSE IF y.kind = "nan" THEN NaN ELSE IF x.kind = "fin" THEN y ELSE x

\* UnityAssertFloatsWithin and UnityAssertFloatsNotWithin.
FloatFails(delta, expected, actual) == ~FloatsWithin(delta, expected, actual)
FloatNotFails(delta, expected, actual) == FloatsWithin(delta, expected, actual)

\* UnityAssertWithinFloatArray.
FloatArray(delta, expected, actual, same, n, flags) ==
  CASE n > 0 /\ delta.kind = "inf" -> Verdict("pass", 0)
    [] n = 0 \/ delta.kind = "nan" -> Verdict("pointless", 0)
    [] OTHER ->
         ArrayVerdict(expected, actual, same, n,
           {i \in 1 .. n :
              LET e == Expected(expected, i, flags)
              IN ~FloatsWithin(Plus([delta EXCEPT !.v = Size(@)], Tolerance(e)), e, actual[i])})

FloatAbove(x, y) ==
  CASE x.kind = "nan" \/ y.kind = "nan" -> FALSE
    [] x.kind = "inf" /\ y.kind = "inf" -> x.v > y.v
    [] x.kind = "inf" /\ y.kind = "fin" -> x.v > 0
    [] x.kind = "fin" /\ y.kind = "inf" -> y.v < 0
    [] OTHER -> x.v > y.v

\* UnityAssertGreaterOrLessFloat.
FloatOrderFails(threshold, actual, compare) ==
  /\ \/ ~FloatAbove(threshold, actual) /\ "smaller" \in compare
     \/ ~FloatAbove(actual, threshold) /\ "greater" \in compare
  /\ ~("equal" \in compare /\ FloatsWithin(Tolerance(threshold), threshold, actual))

Traits == {"infinity", "negative infinity", "nan", "determinate"}

\* UnityAssertFloatSpecial.
SpecialFails(actual, trait, should) ==
  should # CASE trait = "infinity" -> actual.kind = "inf" /\ actual.v > 0
             [] trait = "negative infinity" -> actual.kind = "inf" /\ actual.v < 0
             [] trait = "nan" -> actual.kind = "nan"
             [] OTHER -> actual.kind = "fin"

-----------------------------------------------------------------------------

\* The number of its type that n stands for.
Value(n, style) ==
  IF IsInt(style) THEN Signed(n, style.size) ELSE Unsigned(n, style.size)

Relation(compare, t, x) ==
  CASE compare = {} -> x # t
    [] compare = {"greater"} -> x > t
    [] compare = {"smaller"} -> x < t
    [] compare = {"greater", "equal"} -> x >= t
    [] OTHER -> x <= t

Comparisons == {{}, {"greater"}, {"smaller"}, {"greater", "equal"}, {"smaller", "equal"}}

\* The assertions about numbers fail just when the numbers of the asserted
\* type do not stand in the asserted relation, in all styles and up to the
\* ends of their ranges, alone, in arrays and against one value.
NumbersJudged(style, x, y, delta) ==
  LET e == Value(x, style)  a == Value(y, style)
      near == Size(e - a) <= Unsigned(delta, style.size)
  IN /\ NumberFails(EqualCast(x, style), EqualCast(y, style)) = (e # a)
     /\ \A c \in Comparisons :
          OrderFails(Cast(x, style), Cast(y, style), c, style) = ~Relation(c, e, a)
     /\ WithinFails(Unsigned(delta, style.size), Cast(x, style), Cast(y, style), style) = ~near
     /\ IntArray(<<x, x>>, <<x, y>>, FALSE, 2, style, "array")
          = IF e = a THEN Verdict("pass", 0) ELSE Verdict("element", 2)
     /\ EachEqual(x, <<x, y>>, 2, style)
          = IF e = a THEN Verdict("pass", 0) ELSE Verdict("element", 2)
     /\ ArrayWithin(Unsigned(delta, style.size), <<y, x>>, <<y, y>>, FALSE, 2, style, "array")
          = IF near THEN Verdict("pass", 0) ELSE Verdict("element", 2)
     /\ BitsFail(delta, x, y) =
          (\E i \in 0 .. INT * BYTE - 1 : BitOf(delta, i) = 1 /\ BitOf(x, i) + BitOf(y, i) = 1)

\* What a piece of text says, read as C reads a number.
Read(text) ==
  LET n == Max(DOMAIN text.digits)
      upTo[i \in -1 .. n] == IF i < 0 THEN 0 ELSE upTo[i - 1] * text.base + text.digits[i]
  IN IF text.minus THEN -upTo[n] ELSE upTo[n]

\* When an assertion about numbers fails, the values it prints are those of
\* the asserted type: no sign where there is none, no digit too many or too
\* few, the lowest negative number included.
MessagesTell(style, x) ==
  LET wanted == IF style.range = "hex" \/ (style.range = "char" /\ Value(x, style) \notin Printable)
                THEN Unsigned(x, style.size) ELSE Value(x, style)
  IN \A n \in {EqualCast(x, style), Cast(x, style), Element(x, style)} :
       Read(ByStyle(n, style)) = wanted

\* A text tells n * 10^e, which was off by d when it was written, to SIG digits:
\* what is read back is off by no more than that and half a unit of the last of
\* them, the digits fit the buffer of 16, none but one before the point is a
\* useless zero, and the point stands among them.
Tells(text, n, e, d) ==
  LET last == Max(DOMAIN text.digits)
      read == Read([minus |-> FALSE, base |-> 10, digits |-> text.digits])
      power == text.exponent - text.decimals
      unit == Digits(n + d) + e - SIG
      grid == Min({e, unit, power})
  IN /\ 2 * Size(n * 10 ^ (e - grid) - read * 10 ^ (power - grid))
          <= 10 ^ (unit - grid) + 2 * (Size(d) * 10 ^ (e - grid))
     /\ last + 1 <= 16 /\ text.decimals \in 0 .. last
     /\ text.digits[0] = 0 => text.decimals = last
     /\ text.decimals > 0 => text.digits[last] # 0

\* The text printed of a float tells it, however large or small it is, and
\* whatever its scaling loses.
FloatTold(n, e) == \A d \in Slips(n, e) : Tells(Float(n + d, e), n, e, d)

\* Strings and memory are equal to these assertions when they are equal as
\* far as they are compared, and nothing behind the end of the shorter
\* string is read to find that out.
TextsJudged(s, t, length) ==
  LET cut(u) == SubSeq(u, 1, Min({Len(u), length}))
      same == cut(s) = cut(t)
      padded(u) == [i \in 1 .. length |-> CharAt(u, i)]
  IN /\ StringFails(s, t, length) = ~same
     /\ ScanEnd(s, t, length) <= Max({Min({Len(s), Len(t)}) + 1, 1})
          \/ ScanEnd(s, t, length) = length + 1
     /\ StringFails(s, Null, length) /\ StringFails(Null, s, length)
     /\ ~StringFails(Null, Null, length)
     /\ length > Max({Len(s), Len(t)}) =>
          StringArray(<<s, s>>, <<s, t>>, FALSE, 2, "array", length)
            = IF same THEN Verdict("pass", 0) ELSE Verdict("element", 2)
     /\ length > 0 =>
          (Memory(padded(s), padded(t), FALSE, length, 1, "array").why = "pass") = same

Determinate(x) == x.kind = "fin"

\* Floats are ordered and bounded as numbers; what is not a number is not
\* above, below or near any number, and infinities are near their like only.
\* Where equality is allowed, so is a deviation by the precision.
FloatsJudged(delta, x, y) ==
  LET near(d) == \/ x = y
                 \/ Determinate(x) /\ Determinate(y) /\ Distance(x, y) <= d
  IN /\ Determinate(delta) => FloatFails(delta, x, y) = ~near(Size(delta.v))
     /\ FloatNotFails(delta, x, y) = ~FloatFails(delta, x, y)
     /\ FloatOrderFails(x, y, {"greater"}) = ~FloatAbove(y, x)
     /\ FloatOrderFails(x, y, {"smaller"}) = ~FloatAbove(x, y)
     /\ FloatOrderFails(x, y, {"greater", "equal"}) = ~(FloatAbove(y, x) \/ near(Size(x.v)))
     /\ FloatOrderFails(x, y, {"smaller", "equal"}) = ~(FloatAbove(x, y) \/ near(Size(x.v)))
     /\ Determinate(delta) =>
          (FloatArray(delta, <<x>>, <<y>>, FALSE, 1, "array").why = "pass")
            = near(Size(delta.v) + Size(x.v))
     /\ Cardinality({t \in Traits : ~SpecialFails(x, t, TRUE)}) = 1
=============================================================================
