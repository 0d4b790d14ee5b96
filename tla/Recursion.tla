----------------------------- MODULE Recursion -----------------------------
(***************************************************************************)
(* Induction and recursion for the proofs.  The library's theorems about   *)
(* them take operators as parameters, which the provers cannot give them;  *)
(* here they are stated about sets and functions instead, from the one     *)
(* fact that descent in the natural numbers ends.                          *)
(***************************************************************************)
EXTENDS Integers, Functions, FiniteSetTheorems, WellFoundedInduction, TLAPS

-----------------------------------------------------------------------------
(* Induction.                                                              *)

\* A set of natural numbers that is not empty has a least element.
LEMMA LeastNumber ==
  ASSUME NEW T \in SUBSET Nat, T # {}
  PROVE  \E m \in T : \A n \in T : m <= n
<1> DEFINE R == {ss \in Nat \X Nat : ss[1] < ss[2]}
<1>1. IsWellFoundedOn(R, Nat)
  BY NatLessThanWellFounded, Zenon DEF OpToRel
<1> HIDE DEF R
<1>2. PICK m \in T : \A n \in T : <<n, m>> \notin R
  BY <1>1, WFMin
<1>3. \A n \in T : ~ (n < m)
  BY <1>2 DEF R
<1> QED
  BY <1>3

\* A set that holds 0 and with every number the next holds them all.
LEMMA NumberInduction ==
  ASSUME NEW P, 0 \in P, \A n \in Nat : n \in P => n + 1 \in P
  PROVE  \A n \in Nat : n \in P
<1> DEFINE T == {n \in Nat : n \notin P}
<1>1. SUFFICES ASSUME T # {} PROVE FALSE
  OBVIOUS
<1>2. PICK m \in T : \A n \in T : m <= n
  BY <1>1, LeastNumber
<1>3. m - 1 \in Nat /\ m - 1 \in P
  BY <1>2
<1>4. (m - 1) + 1 \in P
  BY <1>3
<1> QED
  BY <1>2, <1>4

\* A collection of parts of a finite set that holds the empty one, and every
\* part that becomes one of the collection by loss of an element, holds all.
LEMMA PartsInduction ==
  ASSUME NEW S, IsFiniteSet(S), NEW P, {} \in P,
         \A s \in SUBSET S : s # {} /\ (\A e \in s : s \ {e} \in P) => s \in P
  PROVE  \A s \in SUBSET S : s \in P
<1> DEFINE Q == {n \in Nat : \A s \in SUBSET S : Cardinality(s) = n => s \in P}
<1>1. \A s \in SUBSET S : IsFiniteSet(s) /\ Cardinality(s) \in Nat
  BY FS_Subset, FS_CardinalityType
<1>2. 0 \in Q
  <2>1. \A s \in SUBSET S : Cardinality(s) = 0 => s = {}
    BY <1>1, FS_EmptySet
  <2> QED
    BY <2>1
<1>3. ASSUME NEW n \in Nat, n \in Q PROVE n + 1 \in Q
  <2>1. SUFFICES ASSUME NEW s \in SUBSET S, Cardinality(s) = n + 1 PROVE s \in P
    BY <1>3
  <2>2. s # {}
    BY <2>1, FS_EmptySet
  <2>3. ASSUME NEW e \in s PROVE s \ {e} \in P
    <3>1. Cardinality(s \ {e}) = n
      BY <1>1, <2>1, FS_RemoveElement
    <3> QED
      BY <1>3, <3>1
  <2> QED
    BY <2>2, <2>3
<1> HIDE DEF Q
<1>4. \A n \in Nat : n \in Q
  BY <1>2, <1>3, NumberInduction
<1> QED
  BY <1>1, <1>4 DEF Q

-----------------------------------------------------------------------------
(* Recursion over the parts of a finite set: pick says which element to    *)
(* take next, turn what it does to a value.                                *)

Foldable(S, V, base, pick, turn) ==
  /\ IsFiniteSet(S) /\ base \in V
  /\ \A s \in SUBSET S : s # {} => pick[s] \in s
  /\ \A e \in S, v \in V : turn[<<e, v>>] \in V

FoldOf(it, S, base, pick, turn) ==
  it = [s \in SUBSET S |-> IF s = {} THEN base ELSE turn[<<pick[s], it[s \ {pick[s]}]>>]]

LEMMA FoldExists ==
  ASSUME NEW S, NEW V, NEW base, NEW pick, NEW turn, Foldable(S, V, base, pick, turn)
  PROVE  \E it \in [SUBSET S -> V] : FoldOf(it, S, base, pick, turn)
<1> IsFiniteSet(S) /\ base \in V
  BY DEF Foldable
<1> /\ \A s \in SUBSET S : s # {} => pick[s] \in s
    /\ \A e \in S, v \in V : turn[<<e, v>>] \in V
  BY DEF Foldable
<1> DEFINE Upto(n) == {s \in SUBSET S : Cardinality(s) <= n}
           Val(g, s) == IF s = {} THEN base ELSE turn[<<pick[s], g[s \ {pick[s]}]>>]
           Q == {n \in Nat : \E g \in [SUBSET S -> V] : \A s \in Upto(n) : g[s] = Val(g, s)}
<1>1. \A s \in SUBSET S : IsFiniteSet(s) /\ Cardinality(s) \in Nat
  BY FS_Subset, FS_CardinalityType
<1>2. 0 \in Q
  <2> DEFINE g == [s \in SUBSET S |-> base]
  <2>1. \A s \in Upto(0) : s = {}
    BY <1>1, FS_EmptySet
  <2>2. g \in [SUBSET S -> V] /\ \A s \in Upto(0) : g[s] = Val(g, s)
    BY <2>1
  <2> QED
    BY <2>2
<1>3. ASSUME NEW n \in Nat, n \in Q PROVE n + 1 \in Q
  <2>1. PICK g \in [SUBSET S -> V] : \A s \in Upto(n) : g[s] = Val(g, s)
    BY <1>3
  <2> DEFINE h == [s \in SUBSET S |-> Val(g, s)]
  <2>2. \A s \in SUBSET S : s # {} =>
          s \ {pick[s]} \in SUBSET S /\ pick[s] \in S
    OBVIOUS
  <2>3. h \in [SUBSET S -> V]
    BY <2>2
  <2>4. ASSUME NEW s \in Upto(n + 1) PROVE h[s] = Val(h, s)
    <3>1. CASE s = {}
      BY <3>1
    <3>2. CASE s # {}
      <4>1. Cardinality(s \ {pick[s]}) = Cardinality(s) - 1
        BY <1>1, <3>2, FS_RemoveElement
      <4>2. s \ {pick[s]} \in Upto(n)
        BY <1>1, <2>2, <3>2, <4>1
      <4>3. h[s \ {pick[s]}] = g[s \ {pick[s]}]
        BY <2>1, <4>2
      <4> QED
        BY <3>2, <4>3
    <3> QED
      BY <3>1, <3>2
  <2> HIDE DEF h, Val, Upto
  <2> QED
    BY <2>3, <2>4
<1>4. Cardinality(S) \in Q
  <2> HIDE DEF Q
  <2>1. \A n \in Nat : n \in Q
    BY <1>2, <1>3, NumberInduction
  <2> QED
    BY <1>1, <2>1
<1>5. PICK g \in [SUBSET S -> V] : \A s \in Upto(Cardinality(S)) : g[s] = Val(g, s)
  BY <1>4
<1>6. \A s \in SUBSET S : s \in Upto(Cardinality(S))
  BY FS_Subset
<1>7. g = [s \in SUBSET S |-> Val(g, s)]
  <2> HIDE DEF Val, Upto
  <2> QED
    BY <1>5, <1>6
<1> QED
  BY <1>7 DEF FoldOf

-----------------------------------------------------------------------------
(* Walks: functions of the positive numbers that are told at some of them, *)
(* the stops, and elsewhere are what they are further on.                  *)

Walkable(L, V, stops, told, next) ==
  \A i \in Nat \ {0} :
    IF i \in stops THEN told[i] \in V ELSE i <= L /\ next[i] \in Nat /\ next[i] > i

WalkOf(f, stops, told, next) ==
  f = [i \in Nat \ {0} |-> IF i \in stops THEN told[i] ELSE f[next[i]]]

LEMMA WalkExists ==
  ASSUME NEW L \in Nat, NEW V, NEW stops, NEW told, NEW next, Walkable(L, V, stops, told, next)
  PROVE  \E f \in [Nat \ {0} -> V] : WalkOf(f, stops, told, next)
<1> USE DEF Walkable
<1> DEFINE Val(g, i) == IF i \in stops THEN told[i] ELSE g[next[i]]
           Right(g, n) == \A i \in Nat \ {0} : i > L - n => g[i] = Val(g, i)
           Q == {n \in Nat : \E g \in [Nat \ {0} -> V] : Right(g, n)}
<1>1. \A i \in Nat \ {0} : i > L => i \in stops /\ told[i] \in V
  OBVIOUS
<1>2. 0 \in Q
  <2> DEFINE g == [i \in Nat \ {0} |-> IF i \in stops THEN told[i] ELSE told[L + 1]]
  <2>1. g \in [Nat \ {0} -> V] /\ Right(g, 0)
    BY <1>1
  <2> QED
    BY <2>1
<1>3. ASSUME NEW n \in Nat, n \in Q PROVE n + 1 \in Q
  <2>1. PICK g \in [Nat \ {0} -> V] : Right(g, n)
    BY <1>3
  <2> DEFINE h == [i \in Nat \ {0} |-> Val(g, i)]
  <2>2. h \in [Nat \ {0} -> V]
    OBVIOUS
  <2>3. ASSUME NEW i \in Nat \ {0}, i > L - (n + 1), i \notin stops PROVE h[i] = h[next[i]]
    <3>1. next[i] \in Nat \ {0} /\ next[i] > L - n
      BY <2>3
    <3>2. g[next[i]] = Val(g, next[i])
      BY <2>1, <3>1
    <3> QED
      BY <2>3, <3>1, <3>2
  <2>4. Right(h, n + 1)
    BY <2>3
  <2> HIDE DEF h, Right
  <2> QED
    BY <2>2, <2>4
<1> HIDE DEF Q
<1>4. L \in Q
  BY <1>2, <1>3, NumberInduction
<1>5. PICK g \in [Nat \ {0} -> V] : Right(g, L)
  BY <1>4 DEF Q
<1>6. g = [i \in Nat \ {0} |-> Val(g, i)]
  BY <1>5
<1> QED
  BY <1>6 DEF WalkOf

Confined(T, U, stops, told, next) ==
  /\ T \subseteq Nat \ {0}
  /\ \A i \in T : IF i \in stops THEN told[i] \in U ELSE next[i] \in T

\* A walk that cannot leave T is within U if the stops in T tell what is.
LEMMA WalkEnds ==
  ASSUME NEW L \in Nat, NEW V, NEW stops, NEW told, NEW next, Walkable(L, V, stops, told, next),
         NEW f, WalkOf(f, stops, told, next), NEW U, NEW T, Confined(T, U, stops, told, next)
  PROVE  \A i \in T : f[i] \in U
<1> DEFINE Bad == {L - i : i \in {k \in T : f[k] \notin U}}
<1>1. \A i \in Nat \ {0} : f[i] = IF i \in stops THEN told[i] ELSE f[next[i]]
  BY DEF WalkOf
<1> USE DEF Confined
<1>2. \A i \in T : f[i] \notin U => i \notin stops /\ i <= L /\ next[i] > i /\ f[next[i]] \notin U
  BY <1>1 DEF Walkable
<1>3. Bad \in SUBSET Nat
  BY <1>2
<1>4. SUFFICES ASSUME Bad # {} PROVE FALSE
  OBVIOUS
<1>5. PICK m \in Bad : \A n \in Bad : m <= n
  BY <1>3, <1>4, LeastNumber
<1>6. PICK i \in T : m = L - i /\ f[i] \notin U
  BY <1>5
<1>7. next[i] \in T /\ f[next[i]] \notin U /\ next[i] > i /\ next[i] \in Nat
  BY <1>2, <1>6
<1>8. L - next[i] \in Bad
  BY <1>7
<1>9. m <= L - next[i]
  BY <1>5, <1>8
<1> QED
  BY <1>6, <1>7, <1>9

-----------------------------------------------------------------------------
(* The sum of a function's values over the parts of its domain.            *)

Sums(f, it) ==
  /\ it \in [SUBSET (DOMAIN f) -> Int]
  /\ it[{}] = 0
  /\ \A s \in SUBSET (DOMAIN f) : \A e \in s : it[s] = f[e] + it[s \ {e}]

SumOf(f) == FoldFunction(+, 0, f)

\* The fold that adds up a function's values does so, whatever order it takes
\* them in.
LEMMA SumExists ==
  ASSUME NEW S, IsFiniteSet(S), NEW f \in [S -> Int]
  PROVE  \E it : Sums(f, it) /\ SumOf(f) = it[S]
<1> DEFINE pick == [s \in SUBSET S |-> CHOOSE e \in s : TRUE]
           turn == [ev \in S \X Int |-> f[ev[1]] + ev[2]]
           Body(g) == [s \in SUBSET S |-> IF s = {} THEN 0
                         ELSE f[CHOOSE e \in s : TRUE] + g[s \ {CHOOSE e \in s : TRUE}]]
           it == CHOOSE g : g = Body(g)
<1>1. \A s \in SUBSET S : s # {} => pick[s] \in s
  OBVIOUS
<1>2. \A e \in S, v \in Int : turn[<<e, v>>] = f[e] + v /\ turn[<<e, v>>] \in Int
  OBVIOUS
<1>3. PICK g \in [SUBSET S -> Int] : FoldOf(g, S, 0, pick, turn)
  <2> HIDE DEF pick, turn
  <2>1. Foldable(S, Int, 0, pick, turn)
    BY <1>1, <1>2 DEF Foldable
  <2> QED
    BY <2>1, FoldExists
<1>4. g = Body(g)
  <2>1. ASSUME NEW s \in SUBSET S PROVE g[s] = Body(g)[s]
    <3>1. CASE s = {}
      BY <1>3, <3>1 DEF FoldOf
    <3>2. CASE s # {}
      <4>1. g[s] = turn[<<pick[s], g[s \ {pick[s]}]>>]
        BY <1>3, <3>2 DEF FoldOf
      <4>2. pick[s] \in S /\ g[s \ {pick[s]}] \in Int
        BY <1>1, <3>2
      <4> QED
        BY <1>2, <3>2, <4>1, <4>2
    <3> QED
      BY <3>1, <3>2
  <2> QED
    BY <2>1
<1>5. it = Body(it)
  <2> HIDE DEF Body
  <2> QED
    BY <1>4
<1>6. SumOf(f) = it[S]
  BY DEF SumOf, FoldFunction, FoldFunctionOnSet, MapThenFoldSet
<1>7. /\ \A s \in SUBSET S : s # {} => it[s] = f[pick[s]] + it[s \ {pick[s]}]
      /\ it[{}] = 0 /\ DOMAIN it = SUBSET S
      /\ it = [s \in SUBSET S |-> it[s]]
  <2> HIDE DEF it
  <2> QED
    BY <1>5
<1> HIDE DEF it, pick
<1>8. \A s \in SUBSET S : it[s] \in Int
  <2> DEFINE P == {s \in SUBSET S : it[s] \in Int}
  <2>1. {} \in P
    BY <1>7
  <2>2. ASSUME NEW s \in SUBSET S, s # {}, \A e \in s : s \ {e} \in P PROVE s \in P
    <3>1. pick[s] \in S /\ it[s] = f[pick[s]] + it[s \ {pick[s]}]
      BY <1>1, <1>7, <2>2
    <3>2. f[pick[s]] \in Int /\ it[s \ {pick[s]}] \in Int
      BY <1>1, <2>2, <3>1
    <3> QED
      BY <3>1, <3>2
  <2> HIDE DEF P
  <2>3. \A s \in SUBSET S : s \in P
    BY <2>1, <2>2, PartsInduction
  <2> QED
    BY <2>3 DEF P
<1>9. \A s \in SUBSET S : \A e \in s : it[s] = f[e] + it[s \ {e}]
  <2> DEFINE P == {s \in SUBSET S : \A e \in s : it[s] = f[e] + it[s \ {e}]}
  <2>1. {} \in P
    OBVIOUS
  <2>2. ASSUME NEW s \in SUBSET S, s # {}, \A e \in s : s \ {e} \in P,
               NEW e \in s
        PROVE  it[s] = f[e] + it[s \ {e}]
    <3> DEFINE p == pick[s]
               r == (s \ {p}) \ {e}
    <3>1. p \in s /\ it[s] = f[p] + it[s \ {p}]
      BY <1>1, <1>7, <2>2
    <3>2. SUFFICES ASSUME p # e PROVE it[s] = f[e] + it[s \ {e}]
      BY <3>1
    <3>3. it[s \ {p}] = f[e] + it[r]
      BY <2>2, <3>1, <3>2
    <3>4. r = (s \ {e}) \ {p}
      OBVIOUS
    <3>5. it[s \ {e}] = f[p] + it[r]
      BY <2>2, <3>1, <3>2, <3>4
    <3>6. f[p] \in Int /\ f[e] \in Int /\ it[r] \in Int
      BY <1>8, <3>1
    <3> QED
      BY <3>1, <3>3, <3>5, <3>6
  <2>3. \A s \in SUBSET S : s # {} /\ (\A e \in s : s \ {e} \in P) => s \in P
    BY <2>2
  <2> HIDE DEF P
  <2>4. \A s \in SUBSET S : s \in P
    BY <2>1, <2>3, PartsInduction
  <2> QED
    BY <2>4 DEF P
<1>10. Sums(f, it)
  BY <1>7, <1>8, <1>9 DEF Sums
<1> QED
  BY <1>6, <1>10

Divides(h, a) == a % h = 0
Rest(a, t) == a % t

\* Multiples of h are the numbers that leave no remainder.
LEMMA Multiple ==
  ASSUME NEW a \in Int, NEW h \in Nat \ {0}
  PROVE  a % h = 0 <=> \E q \in Int : a = q * h
<1>1. PICK q \in Int : q = a \div h
  OBVIOUS
<1>2. a = q * h + (a % h) /\ a % h \in 0 .. h - 1
  BY <1>1
<1>3. ASSUME NEW p \in Int, a = p * h PROVE a % h = 0
  <2>1. (p - q) * h = a % h
    BY <1>2, <1>3
  <2>2. CASE p - q >= 1
    <3>1. (p - q - 1) * h >= 0 /\ (p - q - 1) * h = (p - q) * h - h
      BY <2>2
    <3> QED
      BY <1>2, <2>1, <3>1
  <2>3. CASE p - q <= -1
    <3>1. (q - p - 1) * h >= 0 /\ (q - p - 1) * h = -((p - q) * h) - h
      BY <2>3
    <3> QED
      BY <1>2, <2>1, <3>1
  <2>4. CASE p = q
    BY <2>1, <2>4
  <2> QED
    BY <2>2, <2>3, <2>4
<1>4. ASSUME a % h = 0 PROVE a = q * h
  <2>1. q * h \in Int
    OBVIOUS
  <2> QED
    BY <1>2, <1>4, <2>1
<1> QED
  BY <1>3, <1>4

LEMMA MultipleSum ==
  ASSUME NEW a \in Int, NEW b \in Int, NEW h \in Nat \ {0}, Divides(h, a), Divides(h, b)
  PROVE  Divides(h, a + b) /\ Divides(h, a - b)
<1>1. PICK p \in Int, q \in Int : a = p * h /\ b = q * h
  BY Multiple DEF Divides
<1>2. a + b = (p + q) * h /\ a - b = (p - q) * h
  BY <1>1
<1>3. a + b \in Int /\ a - b \in Int /\ p + q \in Int /\ p - q \in Int
  OBVIOUS
<1> QED
  BY <1>2, <1>3, Multiple DEF Divides

\* What a remainder by t takes away is a multiple of every divisor of t.
LEMMA RemainderMultiple ==
  ASSUME NEW a \in Int, NEW t \in Nat \ {0}, NEW h \in Nat \ {0}, Divides(h, t)
  PROVE  Rest(a, t) \in 0 .. t - 1 /\ Divides(h, Rest(a, t) - a)
<1>1. PICK q \in Int : q = a \div t
  OBVIOUS
<1>2. a = q * t + (a % t) /\ a % t \in 0 .. t - 1
  BY <1>1
<1>3. PICK p \in Int : t = p * h
  BY Multiple DEF Divides
<1>4. (a % t) - a = (-q) * t
  BY <1>2
<1>5. (-q) * (p * h) = ((-q) * p) * h /\ (-q) * p \in Int
  OBVIOUS
<1>6. (a % t) - a = ((-q) * p) * h
  BY <1>3, <1>4, <1>5
<1>7. (a % t) - a \in Int
  BY <1>2
<1> QED
  BY <1>2, <1>5, <1>6, <1>7, Multiple DEF Divides, Rest

\* Functions that differ by d, up to multiples of h, have sums that do.
LEMMA SumsCongruent ==
  ASSUME NEW S, IsFiniteSet(S), NEW h \in Nat \ {0},
         NEW f \in [S -> Int], NEW g \in [S -> Int], NEW d \in [S -> Int],
         \A e \in S : Divides(h, f[e] - g[e] - d[e]),
         NEW fs, Sums(f, fs), NEW gs, Sums(g, gs), NEW ds, Sums(d, ds)
  PROVE  Divides(h, fs[S] - gs[S] - ds[S])
<1> DEFINE P == {s \in SUBSET S : Divides(h, fs[s] - gs[s] - ds[s])}
<1>1. {} \in P
  BY DEF Sums, Divides
<1>2. ASSUME NEW s \in SUBSET S, s # {}, \A e \in s : s \ {e} \in P PROVE s \in P
  <2>1. PICK e \in s : TRUE
    BY <1>2
  <2> DEFINE r == s \ {e}
  <2>2. fs[s] = f[e] + fs[r] /\ gs[s] = g[e] + gs[r] /\ ds[s] = d[e] + ds[r]
    BY <2>1 DEF Sums
  <2>3. /\ fs[r] \in Int /\ gs[r] \in Int /\ ds[r] \in Int
        /\ f[e] \in Int /\ g[e] \in Int /\ d[e] \in Int
    BY DEF Sums
  <2>4. Divides(h, fs[r] - gs[r] - ds[r]) /\ Divides(h, f[e] - g[e] - d[e])
    BY <1>2
  <2> HIDE DEF r
  <2>5. Divides(h, (fs[r] - gs[r] - ds[r]) + (f[e] - g[e] - d[e]))
    BY <2>3, <2>4, MultipleSum
  <2>6. (fs[r] - gs[r] - ds[r]) + (f[e] - g[e] - d[e]) = fs[s] - gs[s] - ds[s]
    <3> HIDE DEF P
    <3>2. PICK a \in Int, b \in Int, c \in Int : a = fs[r] /\ b = gs[r] /\ c = ds[r]
      BY <2>3
    <3>3. PICK u \in Int, v \in Int, k \in Int : u = f[e] /\ v = g[e] /\ k = d[e]
      BY <2>3
    <3>4. fs[s] = u + a /\ gs[s] = v + b /\ ds[s] = k + c
      BY <2>2, <3>2, <3>3
    <3>5. (a - b - c) + (u - v - k) = (u + a) - (v + b) - (k + c)
      OBVIOUS
    <3> QED
      BY <3>2, <3>3, <3>4, <3>5
  <2> QED
    BY <2>5, <2>6
<1> HIDE DEF P
<1>3. \A s \in SUBSET S : s \in P
  BY <1>1, <1>2, PartsInduction
<1> QED
  BY <1>3 DEF P

\* Nothing adds up to nothing.
LEMMA SumsZero ==
  ASSUME NEW S, IsFiniteSet(S), NEW f \in [S -> Int], \A e \in S : f[e] = 0,
         NEW fs, Sums(f, fs)
  PROVE  fs[S] = 0
<1> DEFINE P == {s \in SUBSET S : fs[s] = 0}
<1>1. {} \in P
  BY DEF Sums
<1>2. ASSUME NEW s \in SUBSET S, s # {}, \A e \in s : s \ {e} \in P PROVE s \in P
  <2>1. PICK e \in s : TRUE
    BY <1>2
  <2>2. fs[s] = f[e] + fs[s \ {e}] /\ f[e] = 0 /\ fs[s \ {e}] = 0
    BY <1>2, <2>1 DEF Sums
  <2> QED
    BY <2>2
<1> HIDE DEF P
<1>3. \A s \in SUBSET S : s \in P
  BY <1>1, <1>2, PartsInduction
<1> QED
  BY <1>3 DEF P

\* Things sorted into places add up to as many as there are.
LEMMA SumsCount ==
  ASSUME NEW S, IsFiniteSet(S), NEW L, IsFiniteSet(L), NEW place \in [L -> S],
         NEW d \in [S -> Int],
         \A e \in S : d[e] = Cardinality({o \in L : place[o] = e}),
         NEW ds, Sums(d, ds)
  PROVE  ds[S] = Cardinality(L)
<1> DEFINE In(s) == {o \in L : place[o] \in s}
           P == {s \in SUBSET S : ds[s] = Cardinality(In(s))}
<1>1. {} \in P
  <2>1. In({}) = {}
    OBVIOUS
  <2> QED
    BY <2>1, FS_EmptySet DEF Sums
<1>2. ASSUME NEW s \in SUBSET S, s # {}, \A e \in s : s \ {e} \in P PROVE s \in P
  <2>1. PICK e \in s : TRUE
    BY <1>2
  <2> DEFINE A == {o \in L : place[o] = e}
             B == In(s \ {e})
  <2>2. ds[s] = d[e] + ds[s \ {e}]
    BY <2>1 DEF Sums
  <2>3. d[e] = Cardinality(A) /\ ds[s \ {e}] = Cardinality(B)
    BY <1>2
  <2>4. In(s) = A \cup B /\ A \cap B = {}
    BY <2>1
  <2>5. IsFiniteSet(A) /\ IsFiniteSet(B) /\ Cardinality(A) \in Nat /\ Cardinality(B) \in Nat
    <3>1. A \in SUBSET L /\ B \in SUBSET L
      OBVIOUS
    <3> HIDE DEF A, B
    <3> QED
      BY <3>1, FS_Subset, FS_CardinalityType
  <2>6. Cardinality(A \cup B) = Cardinality(A) + Cardinality(B)
    <3> HIDE DEF A, B
    <3>1. Cardinality(A \cup B) = Cardinality(A) + Cardinality(B) - Cardinality(A \cap B)
      BY <2>5, FS_Union
    <3>2. Cardinality(A \cap B) = 0
      BY <2>4, FS_EmptySet
    <3> QED
      BY <2>5, <3>1, <3>2
  <2> QED
    BY <2>2, <2>3, <2>4, <2>6
<1> HIDE DEF P
<1>3. \A s \in SUBSET S : s \in P
  BY <1>1, <1>2, PartsInduction
<1>4. In(S) = L
  OBVIOUS
<1> QED
  BY <1>3, <1>4 DEF P
=============================================================================
