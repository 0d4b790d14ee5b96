---------------------------- MODULE Devices_proofs ----------------------------
(***************************************************************************)
(* Proofs about the drivers and the hardware they drive: the display and   *)
(* its controller, the matrix and its wire.                                *)
(***************************************************************************)
EXTENDS Components, Recursion, SequenceTheorems

-----------------------------------------------------------------------------
(* Whichever part a behaviour is about, the others stand still.            *)

LEMMA DeviceSteps ==
  [BoardNext]_boardVars => [Oled!Next]_(Oled!vars) /\ [Ws!Next]_(Ws!vars)
<1> SUFFICES ASSUME [BoardNext]_boardVars
             PROVE  [Oled!Next]_(Oled!vars) /\ [Ws!Next]_(Ws!vars)
  OBVIOUS
<1>1. Oled!Next \/ UNCHANGED oledVars
  BY DEF BoardNext, Except, About, boardVars
<1>2. Ws!Next \/ UNCHANGED wsVars
  BY DEF BoardNext, Except, About, boardVars
<1>3. UNCHANGED oledVars => UNCHANGED Oled!vars
  BY DEF oledVars, Oled!vars
<1>4. UNCHANGED wsVars => UNCHANGED Ws!vars
  BY DEF wsVars, Ws!vars
<1> QED
  BY <1>1, <1>2, <1>3, <1>4

LEMMA DevicesStart == BoardInit => Oled!Init /\ Ws!Init
BY DEF BoardInit

-----------------------------------------------------------------------------
(* The display controller: what a byte does to its registers.              *)

Bytes == 0 .. 255
Numbers128 == 0 .. 127
Numbers64 == 0 .. 63
Numbers8 == 0 .. 7
Numbers4 == 0 .. 3
Numbers2 == 0 .. 1

Registers ==
  {r \in [open : Seq(Bytes), cols : Seq(Numbers128), pages : Seq(Numbers8), line : Numbers64,
          mux : Numbers64, mode : Numbers4, on : Numbers2] :
     r.open # <<>> => Len(r.open) <= Oled!Arguments(r.open[1])}

LEMMA RegistersFact == Oled!Registers = Registers
BY DEF Oled!Registers, Registers, Bytes, Numbers128, Numbers64, Numbers8, Numbers4, Numbers2

\* Bytes of argument the open command still lacks.
Missing(r) == IF r.open = <<>> THEN 0 ELSE Oled!Arguments(r.open[1]) + 1 - Len(r.open)

LEMMA ArgumentFacts ==
  \A b \in Bytes :
    /\ Oled!Arguments(b) \in 0 .. 6
    /\ b \in {33, 34} => Oled!Arguments(b) = 2
    /\ b = 168 => Oled!Arguments(b) = 1
    /\ b = 32 => Oled!Arguments(b) = 1
BY DEF Bytes, Oled!Arguments, Oled!SET_MEM_ADDR, Oled!SET_COL_ADDR, Oled!SET_PAGE_ADDR,
   Oled!SET_CONTRAST, Oled!SET_CHARGE_PUMP, Oled!SET_MUX_RATIO, Oled!SET_DISP_OFFSET,
   Oled!SET_DISP_CLK_DIV, Oled!SET_PRECHARGE, Oled!SET_COM_PIN_CFG, Oled!SET_VCOM_DESEL

\* Remainders of a byte.
LEMMA ByteRemainders ==
  ASSUME NEW b \in Bytes
  PROVE  /\ b % 128 \in Numbers128 /\ b % 64 \in Numbers64
         /\ b % 8 \in Numbers8 /\ b % 4 \in Numbers4 /\ b % 2 \in Numbers2
<1>1. b \in Nat
  BY DEF Bytes
<1>2. \A m \in Nat \ {0} : b % m \in Nat /\ b % m < m
  BY <1>1
<1>3. b % 128 \in Nat /\ b % 128 < 128
  BY <1>2
<1>4. b % 64 \in Nat /\ b % 64 < 64
  BY <1>2
<1>5. b % 8 \in Nat /\ b % 8 < 8
  BY <1>2
<1>6. b % 4 \in Nat /\ b % 4 < 4
  BY <1>2
<1>7. b % 2 \in Nat /\ b % 2 < 2
  BY <1>2
<1> HIDE <1>2
<1> QED
  BY <1>3, <1>4, <1>5, <1>6, <1>7, SMT DEF Numbers128, Numbers64, Numbers8, Numbers4, Numbers2

\* A register written.
LEMMA FieldFacts ==
  ASSUME NEW s \in Registers
  PROVE  /\ \A v \in Seq(Numbers128) :
              /\ [s EXCEPT !.cols = v] \in Registers /\ [s EXCEPT !.cols = v].cols = v
              /\ [s EXCEPT !.cols = v].open = s.open /\ [s EXCEPT !.cols = v].pages = s.pages
         /\ \A v \in Seq(Numbers8) :
              /\ [s EXCEPT !.pages = v] \in Registers /\ [s EXCEPT !.pages = v].pages = v
              /\ [s EXCEPT !.pages = v].open = s.open /\ [s EXCEPT !.pages = v].cols = s.cols
         /\ \A v \in Numbers64 :
              /\ [s EXCEPT !.mux = v] \in Registers /\ [s EXCEPT !.mux = v].open = s.open
              /\ [s EXCEPT !.line = v] \in Registers /\ [s EXCEPT !.line = v].open = s.open
         /\ \A v \in Numbers4 :
              [s EXCEPT !.mode = v] \in Registers /\ [s EXCEPT !.mode = v].open = s.open
         /\ \A v \in Numbers2 :
              [s EXCEPT !.on = v] \in Registers /\ [s EXCEPT !.on = v].open = s.open
BY DEF Registers

\* A command that has its arguments is carried out and closed.
LEMMA DoneFacts ==
  ASSUME NEW r \in Registers, NEW cmd \in Seq(Bytes), cmd # <<>>,
         Len(cmd) > Oled!Arguments(cmd[1])
  PROVE  /\ Oled!Done(r, cmd) \in Registers
         /\ Oled!Done(r, cmd).open = <<>>
         /\ cmd[1] = 33 => /\ Oled!Done(r, cmd).cols = <<cmd[2] % 128, cmd[3] % 128>>
                           /\ Oled!Done(r, cmd).pages = r.pages
         /\ cmd[1] = 34 => /\ Oled!Done(r, cmd).pages = <<cmd[2] % 8, cmd[3] % 8>>
                           /\ Oled!Done(r, cmd).cols = r.cols
<1> DEFINE s == [r EXCEPT !.open = <<>>]
<1>1. s \in Registers /\ s.open = <<>> /\ s.cols = r.cols /\ s.pages = r.pages
  <2>1. <<>> \in Seq(Bytes)
    OBVIOUS
  <2> QED
    BY <2>1 DEF Registers
<1>2. Len(cmd) \in Nat /\ \A k \in 1 .. Len(cmd) : cmd[k] \in Bytes
  OBVIOUS
<1>3. Len(cmd) >= 1 /\ cmd[1] \in Bytes
  BY <1>2
<1> DEFINE v1 == <<cmd[2] % 128, cmd[3] % 128>>
           v2 == <<cmd[2] % 8, cmd[3] % 8>>
           v3 == cmd[2] % 64
           v4 == cmd[2] % 4
           v5 == cmd[1] % 2
           v6 == cmd[1] % 64
           s1 == [s EXCEPT !.cols = v1]
           s2 == [s EXCEPT !.pages = v2]
           s3 == [s EXCEPT !.mux = v3]
           s4 == [s EXCEPT !.mode = v4]
           s5 == [s EXCEPT !.on = v5]
           s6 == [s EXCEPT !.line = v6]
<1>4. Oled!Done(r, cmd) =
        CASE cmd[1] = 33 -> s1 [] cmd[1] = 34 -> s2 [] cmd[1] = 168 -> s3 [] cmd[1] = 32 -> s4
          [] cmd[1] \in 174 .. 174 + 1 -> s5 [] cmd[1] \in 64 .. 64 + 63 -> s6 [] OTHER -> s
  BY Zenon DEF s, Oled!Done, Oled!SET_COL_ADDR, Oled!SET_PAGE_ADDR, Oled!SET_MUX_RATIO,
         Oled!SET_MEM_ADDR, Oled!SET_DISP, Oled!SET_DISP_START_LINE
<1> HIDE DEF v1, v2, v3, v4, v5, v6, s
<1>5. cmd[1] = 33 \/ cmd[1] = 34 => cmd[2] \in Bytes /\ cmd[3] \in Bytes
  <2>1. cmd[1] = 33 \/ cmd[1] = 34 => Len(cmd) > 2
    BY <1>3, ArgumentFacts
  <2> QED
    BY <1>2, <2>1
<1>6. cmd[1] = 168 \/ cmd[1] = 32 => cmd[2] \in Bytes
  <2>1. cmd[1] = 168 \/ cmd[1] = 32 => Len(cmd) > 1
    BY <1>3, ArgumentFacts
  <2> QED
    BY <1>2, <2>1
<1>7. CASE cmd[1] = 33
  <2>1. v1 \in Seq(Numbers128)
    <3>1. cmd[2] % 128 \in Numbers128 /\ cmd[3] % 128 \in Numbers128
      BY <1>5, <1>7, ByteRemainders
    <3> QED
      BY <3>1 DEF v1
  <2>2. s1 \in Registers /\ s1.open = <<>> /\ s1.cols = v1 /\ s1.pages = r.pages
    BY <1>1, <2>1, FieldFacts, Zenon
  <2> HIDE DEF s1, s2, s3, s4, s5, s6
  <2>3. Oled!Done(r, cmd) = s1
    BY <1>4, <1>7
  <2>4. v1 = <<cmd[2] % 128, cmd[3] % 128>>
    BY Zenon DEF v1
  <2> QED
    BY <1>7, <2>2, <2>3, <2>4
<1>8. CASE cmd[1] = 34
  <2>1. v2 \in Seq(Numbers8)
    <3>1. cmd[2] % 8 \in Numbers8 /\ cmd[3] % 8 \in Numbers8
      BY <1>5, <1>8, ByteRemainders
    <3> QED
      BY <3>1 DEF v2
  <2>2. s2 \in Registers /\ s2.open = <<>> /\ s2.pages = v2 /\ s2.cols = r.cols
    BY <1>1, <2>1, FieldFacts, Zenon
  <2> HIDE DEF s1, s2, s3, s4, s5, s6
  <2>3. Oled!Done(r, cmd) = s2
    BY <1>4, <1>8
  <2>4. v2 = <<cmd[2] % 8, cmd[3] % 8>>
    BY Zenon DEF v2
  <2> QED
    BY <1>8, <2>2, <2>3, <2>4
<1>9. CASE cmd[1] = 168 \/ cmd[1] = 32
  <2>1. v3 \in Numbers64 /\ v4 \in Numbers4
    BY <1>6, <1>9, ByteRemainders DEF v3, v4
  <2>2. s3 \in Registers /\ s3.open = <<>> /\ s4 \in Registers /\ s4.open = <<>>
    BY <1>1, <2>1, FieldFacts, Zenon
  <2> HIDE DEF s1, s2, s3, s4, s5, s6
  <2>3. Oled!Done(r, cmd) = IF cmd[1] = 168 THEN s3 ELSE s4
    <3>1. CASE cmd[1] = 168
      BY <1>4, <3>1
    <3>2. CASE cmd[1] = 32
      BY <1>4, <3>2
    <3> QED
      BY <1>9, <3>1, <3>2
  <2> QED
    BY <1>9, <2>2, <2>3
<1>10. CASE cmd[1] \notin {33, 34, 168, 32}
  <2>1. v5 \in Numbers2 /\ v6 \in Numbers64
    BY <1>3, ByteRemainders DEF v5, v6
  <2>2. s5 \in Registers /\ s5.open = <<>> /\ s6 \in Registers /\ s6.open = <<>>
    BY <1>1, <2>1, FieldFacts, Zenon
  <2> HIDE DEF s1, s2, s3, s4, s5, s6
  <2>3. Oled!Done(r, cmd) \in {s5, s6, s}
    BY <1>4, <1>10
  <2> QED
    BY <1>1, <1>10, <2>2, <2>3
<1> QED
  BY <1>7, <1>8, <1>9, <1>10

LEMMA AppendOne ==
  \A c, b : Append(<<c>>, b) = <<c, b>>
<1> TAKE c, b
<1>1. <<c>> \in Seq({c, b}) /\ b \in {c, b} /\ Len(<<c>>) = 1
  OBVIOUS
<1>2. Len(Append(<<c>>, b)) = 2 /\ Append(<<c>>, b)[1] = c /\ Append(<<c>>, b)[2] = b
  BY <1>1, AppendProperties
<1>3. Append(<<c>>, b) \in Seq({c, b}) /\ <<c, b>> \in Seq({c, b}) /\ Len(<<c, b>>) = 2
  BY <1>1
<1>4. \A n \in 1 .. Len(Append(<<c>>, b)) : Append(<<c>>, b)[n] = <<c, b>>[n]
  <2>1. <<c, b>>[1] = c /\ <<c, b>>[2] = b
    OBVIOUS
  <2>2. \A n \in 1 .. 2 : n = 1 \/ n = 2
    OBVIOUS
  <2> QED
    BY <1>2, <2>1, <2>2, Zenon
<1> QED
  BY <1>2, <1>3, <1>4, SeqEqual, Zenon

LEMMA AppendFacts ==
  ASSUME NEW X, NEW o \in Seq(X), NEW b \in X
  PROVE  /\ Append(o, b) \in Seq(X) /\ Append(o, b) # <<>>
         /\ Len(Append(o, b)) = Len(o) + 1 /\ Len(o) \in Nat
         /\ Len(o) = 2 => Append(o, b)[2] = o[2] /\ Append(o, b)[3] = b
         /\ o = <<>> => Append(o, b)[1] = b
         /\ o # <<>> => Append(o, b)[1] = o[1]
BY AppendProperties

\* What a byte makes of the registers, first being the command that is open or
\* the one the byte begins.
Fed(r, byte, first, s) ==
  /\ s.open = IF Len(r.open) + 1 > Oled!Arguments(first) THEN <<>> ELSE Append(r.open, byte)
  /\ Len(r.open) + 1 <= Oled!Arguments(first) => s.cols = r.cols /\ s.pages = r.pages
  /\ Len(r.open) = 2 /\ first = 33 =>
       s.cols = <<r.open[2] % 128, byte % 128>> /\ s.pages = r.pages
  /\ Len(r.open) = 2 /\ first = 34 =>
       s.pages = <<r.open[2] % 8, byte % 8>> /\ s.cols = r.cols

LEMMA CommandFacts ==
  ASSUME NEW r \in Registers, NEW byte \in Bytes
  PROVE  /\ Oled!Command(r, byte) \in Registers
         /\ Fed(r, byte, IF r.open = <<>> THEN byte ELSE r.open[1], Oled!Command(r, byte))
<1> DEFINE first == IF r.open = <<>> THEN byte ELSE r.open[1]
<1> HIDE DEF first
<1>a. first = IF r.open = <<>> THEN byte ELSE r.open[1]
  BY DEF first
<1> DEFINE s == Oled!Command(r, byte)
<1>b. s = Oled!Command(r, byte)
  OBVIOUS
<1> SUFFICES s \in Registers /\ Fed(r, byte, first, s)
  BY <1>a, <1>b
<1> USE DEF Fed
<1> HIDE DEF s
<1> DEFINE cmd == Append(r.open, byte)
<1>1. r.open \in Seq(Bytes)
  BY DEF Registers
<1>2. /\ cmd \in Seq(Bytes) /\ cmd # <<>> /\ Len(cmd) = Len(r.open) + 1 /\ Len(r.open) \in Nat
      /\ cmd[1] = first
      /\ Len(r.open) = 2 => cmd[2] = r.open[2] /\ cmd[3] = byte
  <2>1. PICK o \in Seq(Bytes) : o = r.open
    BY <1>1
  <2>2. /\ cmd \in Seq(Bytes) /\ cmd # <<>> /\ Len(cmd) = Len(o) + 1 /\ Len(o) \in Nat
        /\ Len(o) = 2 => cmd[2] = o[2] /\ cmd[3] = byte
    <3>1. cmd = Append(o, byte)
      BY <2>1
    <3> HIDE DEF cmd
    <3> QED
      BY <3>1, AppendFacts
  <2>3. cmd[1] = first
    BY <1>a, <2>1, AppendFacts
  <2> QED
    BY <2>1, <2>2, <2>3, Zenon
<1>3. s = IF Len(cmd) > Oled!Arguments(cmd[1]) THEN Oled!Done(r, cmd) ELSE [r EXCEPT !.open = cmd]
  BY Zenon DEF Oled!Command, s
<1> HIDE DEF cmd
<1>4. CASE Len(cmd) > Oled!Arguments(cmd[1])
  <2>1. s = Oled!Done(r, cmd)
    BY <1>3, <1>4
  <2>2. first \in Bytes /\ Oled!Arguments(first) \in 0 .. 6
    <3>1. first \in Bytes
      BY <1>1, <1>a
    <3> QED
      BY <3>1, ArgumentFacts
  <2> QED
    BY <1>2, <1>4, <2>1, <2>2, DoneFacts
<1>5. CASE ~ (Len(cmd) > Oled!Arguments(cmd[1]))
  <2>1. s = [r EXCEPT !.open = cmd]
    BY <1>3, <1>5
  <2>2. s \in Registers /\ s.open = cmd /\ s.cols = r.cols /\ s.pages = r.pages
    <3>1. first \in Bytes
      BY <1>1, <1>a
    <3>2. PICK n \in 0 .. 6 : n = Oled!Arguments(cmd[1])
      BY <1>2, <3>1, ArgumentFacts
    <3>3. Len(cmd) <= Oled!Arguments(cmd[1])
      BY <1>2, <1>5, <3>2
    <3> QED
      BY <1>2, <2>1, <3>3 DEF Registers
  <2>3. first \in Bytes /\ Oled!Arguments(first) \in 0 .. 6
    <3>1. first \in Bytes
      BY <1>1, <1>a
    <3> QED
      BY <3>1, ArgumentFacts
  <2>4. /\ Len(r.open) + 1 <= Oled!Arguments(first)
        /\ first \in {33, 34} => Len(r.open) # 2
    BY <1>2, <1>5, <2>3, ArgumentFacts
  <2> QED
    BY <1>2, <2>2, <2>3, <2>4 DEF cmd
<1> QED
  BY <1>4, <1>5

\* Bytes sent one after the other.
LEMMA CommandsRun ==
  ASSUME NEW r \in Registers, NEW bytes \in Seq(Bytes)
  PROVE  \E g \in [0 .. Len(bytes) -> Registers] :
           /\ g[0] = r
           /\ \A k \in 1 .. Len(bytes) : g[k] = Oled!Command(g[k - 1], bytes[k])
           /\ Oled!Commands(r, bytes) = g[Len(bytes)]
<1> DEFINE S == 1 .. Len(bytes)
           pick == [t \in SUBSET S |-> Oled!Max(t)]
           turn == [kv \in S \X Registers |-> Oled!Command(kv[2], bytes[kv[1]])]
           Body(f) == [t \in SUBSET S |->
                         IF t = {} THEN r
                         ELSE Oled!Command(f[t \ {Oled!Max(t)}], bytes[Oled!Max(t)])]
           it == CHOOSE f : f = Body(f)
<1>1. Len(bytes) \in Nat /\ S = DOMAIN bytes /\ \A k \in S : bytes[k] \in Bytes
  OBVIOUS
<1>2. Oled!Commands(r, bytes) = it[S]
  <2>1. Oled!Commands(r, bytes) = (CHOOSE f : f = [t \in SUBSET (DOMAIN bytes) |->
                         IF t = {} THEN r
                         ELSE Oled!Command(f[t \ {Oled!Max(t)}], bytes[Oled!Max(t)])])[DOMAIN bytes]
    BY Zenon DEF Oled!Commands, Oled!FoldLeft, Oled!MapThenFoldSet
  <2> QED
    BY <1>1, <2>1, Zenon
<1>3. ASSUME NEW t \in SUBSET S, t # {} PROVE Oled!Max(t) \in t
  <2>0. \A k \in t : k \in Nat /\ Len(bytes) - k \in Nat
    BY <1>1
  <2> DEFINE T == {Len(bytes) - k : k \in t}
  <2>1. T \in SUBSET Nat /\ T # {}
    BY <1>3, <2>0
  <2>2. PICK m \in T : \A n \in T : m <= n
    BY <2>1, LeastNumber
  <2>3. PICK k \in t : m = Len(bytes) - k
    BY <2>2
  <2>4. ASSUME NEW n \in t PROVE k >= n
    <3>1. Len(bytes) - n \in T
      OBVIOUS
    <3>2. m <= Len(bytes) - n
      BY <2>2, <3>1
    <3> QED
      BY <1>1, <2>0, <2>3, <3>2
  <2> QED
    BY <2>4 DEF Oled!Max
<1>4. ASSUME NEW k \in S PROVE Oled!Max(1 .. k) = k
  <2>1. k \in Nat /\ k \in 1 .. k
    BY <1>1
  <2>2. \A n \in 1 .. k : (\A y \in 1 .. k : n >= y) => n = k
    BY <1>1
  <2>3. \A y \in 1 .. k : k >= y
    BY <1>1
  <2> HIDE DEF S
  <2> QED
    BY <2>1, <2>2, <2>3, Zenon DEF Oled!Max
<1>5. PICK f \in [SUBSET S -> Registers] : FoldOf(f, S, r, pick, turn)
  <2>1. IsFiniteSet(S)
    BY <1>1, FS_Interval
  <2>2. \A t \in SUBSET S : t # {} => pick[t] \in t
    BY <1>3
  <2>3. \A k \in S, v \in Registers : turn[<<k, v>>] \in Registers
    <3>1. ASSUME NEW k \in S, NEW v \in Registers PROVE turn[<<k, v>>] \in Registers
      <4>1. turn[<<k, v>>] = Oled!Command(v, bytes[k])
        OBVIOUS
      <4>2. bytes[k] \in Bytes
        BY <1>1
      <4> QED
        BY <4>1, <4>2, CommandFacts
    <3> QED
      BY <3>1
  <2> HIDE DEF S, pick, turn
  <2>4. Foldable(S, Registers, r, pick, turn)
    BY <2>1, <2>2, <2>3 DEF Foldable
  <2> QED
    BY <2>4, FoldExists
<1>6. f = Body(f)
  <2>1. ASSUME NEW t \in SUBSET S PROVE f[t] = Body(f)[t]
    <3>1. CASE t = {}
      BY <1>5, <3>1 DEF FoldOf
    <3>2. CASE t # {}
      <4>1. f[t] = turn[<<pick[t], f[t \ {pick[t]}]>>]
        BY <1>5, <3>2 DEF FoldOf
      <4>2. pick[t] = Oled!Max(t) /\ Oled!Max(t) \in S
        BY <1>3, <3>2
      <4>3. f[t \ {Oled!Max(t)}] \in Registers
        BY <1>5
      <4> QED
        BY <3>2, <4>1, <4>2, <4>3
    <3> QED
      BY <3>1, <3>2
  <2> QED
    BY <1>5, <2>1
<1>7. it = Body(it)
  <2> HIDE DEF Body
  <2> QED
    BY <1>6
<1>8. /\ it[{}] = r
      /\ \A k \in S : it[1 .. k] = Oled!Command(it[1 .. k - 1], bytes[k])
  <2> HIDE DEF it
  <2>1. \A t \in SUBSET S : it[t] = IF t = {} THEN r
          ELSE Oled!Command(it[t \ {Oled!Max(t)}], bytes[Oled!Max(t)])
    BY <1>7
  <2>2. \A k \in S : 1 .. k \in SUBSET S /\ 1 .. k # {} /\ (1 .. k) \ {k} = 1 .. k - 1
    BY <1>1
  <2>3. ASSUME NEW k \in S PROVE it[1 .. k] = Oled!Command(it[1 .. k - 1], bytes[k])
    <3>1. it[1 .. k] = Oled!Command(it[(1 .. k) \ {k}], bytes[k])
      BY <1>4, <2>1, <2>2
    <3> QED
      BY <2>2, <3>1
  <2> QED
    BY <2>1, <2>3
<1> DEFINE P == {k \in Nat : k <= Len(bytes) => it[1 .. k] \in Registers}
<1> HIDE DEF it
<1>9. \A k \in Nat : k \in P
  <2>1. 0 \in P
    <3>1. 1 .. 0 = {}
      OBVIOUS
    <3> QED
      BY <1>8, <3>1
  <2>2. ASSUME NEW k \in Nat, k \in P, k + 1 <= Len(bytes) PROVE it[1 .. k + 1] \in Registers
    <3>1. k + 1 \in S /\ (k + 1) - 1 = k /\ it[1 .. k] \in Registers
      BY <1>1, <2>2
    <3>2. it[1 .. k + 1] = Oled!Command(it[1 .. k], bytes[k + 1]) /\ bytes[k + 1] \in Bytes
      BY <1>1, <1>8, <3>1
    <3> QED
      BY <3>1, <3>2, CommandFacts
  <2>3. ASSUME NEW k \in Nat, k \in P PROVE k + 1 \in P
    <3>1. k + 1 \in Nat
      OBVIOUS
    <3> QED
      BY <2>2, <2>3, <3>1
  <2> HIDE DEF P
  <2> QED
    BY <2>1, <2>3, NumberInduction
<1> DEFINE g == [k \in 0 .. Len(bytes) |-> it[1 .. k]]
<1>10. g \in [0 .. Len(bytes) -> Registers]
  BY <1>1, <1>9
<1>11. g[0] = r /\ g[Len(bytes)] = it[S]
  <2>1. 1 .. 0 = {}
    OBVIOUS
  <2> QED
    BY <1>1, <1>8, <2>1
<1>12. \A k \in 1 .. Len(bytes) : g[k] = Oled!Command(g[k - 1], bytes[k])
  BY <1>1, <1>8
<1> HIDE DEF g
<1> QED
  BY <1>2, <1>10, <1>11, <1>12

\* A byte that begins a command, its first and its second argument.
FedFirst(r, b, s) ==
  /\ s \in Registers
  /\ s.open = IF Oled!Arguments(b) = 0 THEN <<>> ELSE <<b>>
  /\ Oled!Arguments(b) # 0 => s.cols = r.cols /\ s.pages = r.pages

FedSecond(r, c, b, s) ==
  /\ s \in Registers
  /\ s.open = IF Oled!Arguments(c) = 2 THEN <<c, b>> ELSE <<>>
  /\ Oled!Arguments(c) = 2 => s.cols = r.cols /\ s.pages = r.pages

FedThird(r, c, a, b, s) ==
  /\ s \in Registers /\ s.open = <<>>
  /\ c = 33 => s.cols = <<a % 128, b % 128>> /\ s.pages = r.pages
  /\ c = 34 => s.pages = <<a % 8, b % 8>> /\ s.cols = r.cols

LEMMA First ==
  ASSUME NEW r \in Registers, r.open = <<>>, NEW b \in Bytes
  PROVE  FedFirst(r, b, Oled!Command(r, b))
<1> DEFINE first == IF r.open = <<>> THEN b ELSE r.open[1]
           s == Oled!Command(r, b)
<1>1. s \in Registers /\ Fed(r, b, first, s)
  BY CommandFacts
<1> HIDE DEF s
<1>2. /\ s.open = IF Len(r.open) + 1 > Oled!Arguments(first) THEN <<>> ELSE Append(r.open, b)
      /\ Len(r.open) + 1 <= Oled!Arguments(first) => s.cols = r.cols /\ s.pages = r.pages
  BY <1>1, Zenon DEF Fed
<1>3. first = b /\ Len(r.open) = 0 /\ Append(r.open, b) = <<b>>
  OBVIOUS
<1>4. PICK n \in 0 .. 6 : n = Oled!Arguments(b)
  BY ArgumentFacts
<1>5. /\ s.open = IF 0 + 1 > n THEN <<>> ELSE <<b>>
      /\ 0 + 1 <= n => s.cols = r.cols /\ s.pages = r.pages
  BY <1>2, <1>3, <1>4, Zenon
<1>6. 0 + 1 > n <=> n = 0
  OBVIOUS
<1>7. FedFirst(r, b, s)
  BY <1>1, <1>4, <1>5, <1>6 DEF FedFirst
<1> QED
  BY <1>7 DEF s

LEMMA Second ==
  ASSUME NEW r \in Registers, NEW c \in Bytes, r.open = <<c>>, NEW b \in Bytes,
         Oled!Arguments(c) \in 1 .. 2
  PROVE  FedSecond(r, c, b, Oled!Command(r, b))
<1> DEFINE first == IF r.open = <<>> THEN b ELSE r.open[1]
           s == Oled!Command(r, b)
<1>1. s \in Registers /\ Fed(r, b, first, s)
  BY CommandFacts
<1> HIDE DEF s
<1>2. /\ s.open = IF Len(r.open) + 1 > Oled!Arguments(first) THEN <<>> ELSE Append(r.open, b)
      /\ Len(r.open) + 1 <= Oled!Arguments(first) => s.cols = r.cols /\ s.pages = r.pages
  BY <1>1, Zenon DEF Fed
<1>3. first = c /\ Len(r.open) = 1 /\ Append(r.open, b) = <<c, b>>
  <2>1. <<c>> # <<>> /\ <<c>>[1] = c /\ Len(<<c>>) = 1 /\ Append(<<c>>, b) = <<c, b>>
    BY AppendOne
  <2> QED
    BY <2>1, Zenon
<1>4. PICK n \in 1 .. 2 : n = Oled!Arguments(c)
  OBVIOUS
<1>5. /\ s.open = IF 1 + 1 > n THEN <<>> ELSE <<c, b>>
      /\ 1 + 1 <= n => s.cols = r.cols /\ s.pages = r.pages
  BY <1>2, <1>3, <1>4, Zenon
<1>6. 1 + 1 > n <=> n # 2
  OBVIOUS
<1>7. FedSecond(r, c, b, s)
  BY <1>1, <1>4, <1>5, <1>6 DEF FedSecond
<1> QED
  BY <1>7 DEF s

LEMMA Third ==
  ASSUME NEW r \in Registers, NEW c \in {33, 34}, NEW a \in Bytes, r.open = <<c, a>>,
         NEW b \in Bytes
  PROVE  FedThird(r, c, a, b, Oled!Command(r, b))
<1> DEFINE first == IF r.open = <<>> THEN b ELSE r.open[1]
           s == Oled!Command(r, b)
<1>1. s \in Registers /\ Fed(r, b, first, s)
  BY CommandFacts
<1> HIDE DEF s
<1>2. /\ s.open = IF Len(r.open) + 1 > Oled!Arguments(first) THEN <<>> ELSE Append(r.open, b)
      /\ Len(r.open) = 2 /\ first = 33 =>
           s.cols = <<r.open[2] % 128, b % 128>> /\ s.pages = r.pages
      /\ Len(r.open) = 2 /\ first = 34 =>
           s.pages = <<r.open[2] % 8, b % 8>> /\ s.cols = r.cols
  BY <1>1, Zenon DEF Fed
<1>3. c \in Bytes
  BY DEF Bytes
<1>4. first = c /\ Len(r.open) = 2 /\ r.open[2] = a /\ Oled!Arguments(c) = 2
  <2>1. <<c, a>> # <<>> /\ <<c, a>>[1] = c /\ <<c, a>>[2] = a /\ Len(<<c, a>>) = 2
    OBVIOUS
  <2>2. first = c /\ Len(r.open) = 2 /\ r.open[2] = a
    BY <2>1, Zenon
  <2> QED
    BY <1>3, <2>2, ArgumentFacts
<1>5. s.open = IF 2 + 1 > 2 THEN <<>> ELSE Append(r.open, b)
  BY <1>2, <1>4, Zenon
<1>6. s.open = <<>>
  BY <1>5
<1>7. /\ c = 33 => s.cols = <<a % 128, b % 128>> /\ s.pages = r.pages
      /\ c = 34 => s.pages = <<a % 8, b % 8>> /\ s.cols = r.cols
  BY <1>2, <1>4, Zenon
<1>8. FedThird(r, c, a, b, s)
  BY <1>1, <1>6, <1>7, Zenon DEF FedThird
<1> QED
  BY <1>8 DEF s

\* Commands without an argument and with one leave none open.
LEMMA Alone ==
  ASSUME NEW r \in Registers, r.open = <<>>, NEW b \in Bytes, Oled!Arguments(b) = 0
  PROVE  Oled!Command(r, b).open = <<>>
BY First DEF FedFirst

LEMMA WithOne ==
  ASSUME NEW r \in Registers, r.open = <<>>, NEW b \in Bytes, Oled!Arguments(b) = 1,
         NEW c \in Bytes
  PROVE  Oled!Command(Oled!Command(r, b), c).open = <<>>
<1>1. PICK s : s = Oled!Command(r, b)
  OBVIOUS
<1>2. s \in Registers /\ s.open = <<b>>
  <2>1. FedFirst(r, b, s)
    BY <1>1, First, Zenon
  <2> QED
    BY <2>1 DEF FedFirst
<1>3. Oled!Command(s, c).open = <<>>
  <2>0. Oled!Arguments(b) \in 1 .. 2
    OBVIOUS
  <2>1. FedSecond(s, b, c, Oled!Command(s, c))
    BY <1>2, <2>0, Second, Zenon
  <2> QED
    BY <2>1 DEF FedSecond
<1> QED
  BY <1>1, <1>3

LEMMA ResetFacts == Oled!Reset \in Registers /\ Oled!Reset.open = <<>>
<1>1. /\ 0 \in Numbers128 /\ 127 \in Numbers128 /\ 0 \in Numbers8 /\ 7 \in Numbers8
      /\ 0 \in Numbers64 /\ 63 \in Numbers64 /\ 2 \in Numbers4 /\ 0 \in Numbers2
  BY DEF Numbers128, Numbers64, Numbers8, Numbers4, Numbers2
<1>2. <<0, 127>> \in Seq(Numbers128) /\ <<0, 7>> \in Seq(Numbers8) /\ <<>> \in Seq(Bytes)
  BY <1>1
<1> QED
  BY <1>1, <1>2, Zenon DEF Oled!Reset, Registers

LEMMA ByteFacts ==
  \A b \in Nat : b <= 255 => b \in Bytes
BY DEF Bytes

\* The bytes that set the display up.
LEMMA InitBytes ==
  /\ Oled!InitCommands \in Seq(Bytes) /\ Len(Oled!InitCommands) = 25
  /\ \A k \in {1, 8, 11, 12, 21, 22, 23} : Oled!Arguments(Oled!InitCommands[k]) = 0
  /\ \A k \in {2, 4, 6, 9, 13, 15, 17, 19, 24} : Oled!Arguments(Oled!InitCommands[k]) = 1
<1> DEFINE b == Oled!InitCommands
<1>1. HEIGHT - 1 \in Bytes
  BY PartsAssumption DEF Oled!DisplayAssumption, Bytes
<1>2. (IF WIDTH > 2 * HEIGHT THEN 2 ELSE 18) \in Bytes
  BY DEF Bytes
<1>3. b = <<174, 213, 128, 168, HEIGHT - 1, 211, 0, 64, 141, 20, 161, 200, 218,
            IF WIDTH > 2 * HEIGHT THEN 2 ELSE 18, 129, 255, 217, 241, 219, 48, 164, 166,
            175, 32, 0>>
  BY DEF Oled!InitCommands, Oled!SET_DISP, Oled!SET_DISP_CLK_DIV, Oled!SET_MUX_RATIO,
     Oled!SET_DISP_OFFSET, Oled!SET_DISP_START_LINE, Oled!SET_CHARGE_PUMP, Oled!SET_SEG_REMAP,
     Oled!SET_COM_OUT_DIR, Oled!SET_COM_PIN_CFG, Oled!SET_CONTRAST, Oled!SET_PRECHARGE,
     Oled!SET_VCOM_DESEL, Oled!SET_ENTIRE_ON, Oled!SET_NORM_INV, Oled!SET_MEM_ADDR
<1>4. /\ b[1] = 174 /\ b[8] = 64 /\ b[11] = 161 /\ b[12] = 200 /\ b[21] = 164 /\ b[22] = 166
      /\ b[23] = 175 /\ b[2] = 213 /\ b[4] = 168 /\ b[6] = 211 /\ b[9] = 141 /\ b[13] = 218
      /\ b[15] = 129 /\ b[17] = 217 /\ b[19] = 219 /\ b[24] = 32 /\ Len(b) = 25
  BY <1>3
<1>5. b \in Seq(Bytes)
  <2>1. /\ 174 \in Bytes /\ 213 \in Bytes /\ 128 \in Bytes /\ 168 \in Bytes /\ 211 \in Bytes
        /\ 0 \in Bytes /\ 64 \in Bytes /\ 141 \in Bytes /\ 20 \in Bytes /\ 161 \in Bytes
        /\ 200 \in Bytes /\ 218 \in Bytes /\ 129 \in Bytes /\ 255 \in Bytes /\ 217 \in Bytes
        /\ 241 \in Bytes /\ 219 \in Bytes /\ 48 \in Bytes /\ 164 \in Bytes /\ 166 \in Bytes
        /\ 175 \in Bytes /\ 32 \in Bytes
    BY DEF Bytes
  <2> QED
    BY <1>1, <1>2, <1>3, <2>1
<1> HIDE DEF b
<1>6. \A c \in {174, 64, 161, 200, 164, 166, 175} : Oled!Arguments(c) = 0
  BY DEF Oled!Arguments, Oled!SET_MEM_ADDR, Oled!SET_COL_ADDR, Oled!SET_PAGE_ADDR,
     Oled!SET_CONTRAST, Oled!SET_CHARGE_PUMP, Oled!SET_MUX_RATIO, Oled!SET_DISP_OFFSET,
     Oled!SET_DISP_CLK_DIV, Oled!SET_PRECHARGE, Oled!SET_COM_PIN_CFG, Oled!SET_VCOM_DESEL
<1>7. \A c \in {213, 168, 211, 141, 218, 129, 217, 219, 32} : Oled!Arguments(c) = 1
  BY DEF Oled!Arguments, Oled!SET_MEM_ADDR, Oled!SET_COL_ADDR, Oled!SET_PAGE_ADDR,
     Oled!SET_CONTRAST, Oled!SET_CHARGE_PUMP, Oled!SET_MUX_RATIO, Oled!SET_DISP_OFFSET,
     Oled!SET_DISP_CLK_DIV, Oled!SET_PRECHARGE, Oled!SET_COM_PIN_CFG, Oled!SET_VCOM_DESEL
<1>8. \A k \in {1, 8, 11, 12, 21, 22, 23} : Oled!Arguments(b[k]) = 0
  BY <1>4, <1>6
<1>9. \A k \in {2, 4, 6, 9, 13, 15, 17, 19, 24} : Oled!Arguments(b[k]) = 1
  BY <1>4, <1>7
<1> QED
  BY <1>4, <1>5, <1>8, <1>9 DEF b

\* Set up, the controller waits for a command.
LEMMA InitEnds ==
  LET r == Oled!Commands(Oled!Reset, Oled!InitCommands) IN r \in Registers /\ r.open = <<>>
<1> DEFINE b == Oled!InitCommands
<1>1. PICK g \in [0 .. Len(b) -> Registers] :
           /\ g[0] = Oled!Reset
           /\ \A k \in 1 .. Len(b) : g[k] = Oled!Command(g[k - 1], b[k])
           /\ Oled!Commands(Oled!Reset, b) = g[Len(b)]
  BY InitBytes, ResetFacts, CommandsRun
<1> HIDE DEF b
<1>2. /\ Len(b) = 25 /\ \A k \in 0 .. 25 : g[k] \in Registers
      /\ \A k \in 1 .. 25 : b[k] \in Bytes
  <2>1. Len(b) = 25 /\ b \in Seq(Bytes)
    BY InitBytes DEF b
  <2> QED
    BY <2>1, ElementOfSeq
<1>3. ASSUME NEW k \in {1, 8, 11, 12, 21, 22, 23}, g[k - 1].open = <<>> PROVE g[k].open = <<>>
  <2>1. g[k] = Oled!Command(g[k - 1], b[k]) /\ g[k - 1] \in Registers /\ b[k] \in Bytes
    BY <1>1, <1>2
  <2>2. Oled!Arguments(b[k]) = 0
    BY InitBytes DEF b
  <2> QED
    BY <1>3, <2>1, <2>2, Alone
<1>4. ASSUME NEW k \in {2, 4, 6, 9, 13, 15, 17, 19, 24}, g[k - 1].open = <<>>
      PROVE  g[k + 1].open = <<>>
  <2>1. /\ g[k] = Oled!Command(g[k - 1], b[k]) /\ g[k - 1] \in Registers /\ b[k] \in Bytes
        /\ g[k + 1] = Oled!Command(g[k], b[k + 1]) /\ b[k + 1] \in Bytes
    BY <1>1, <1>2
  <2>2. Oled!Arguments(b[k]) = 1
    BY InitBytes DEF b
  <2> QED
    BY <1>4, <2>1, <2>2, WithOne
<1>5. g[1 - 1].open = <<>>
  BY <1>1, ResetFacts
<1>6. g[2 - 1].open = <<>>
  BY <1>5, <1>3
<1>7. g[4 - 1].open = <<>>
  BY <1>6, <1>4
<1>8. g[6 - 1].open = <<>>
  BY <1>7, <1>4
<1>9. g[8 - 1].open = <<>>
  BY <1>8, <1>4
<1>10. g[9 - 1].open = <<>>
  BY <1>9, <1>3
<1>11. g[11 - 1].open = <<>>
  BY <1>10, <1>4
<1>12. g[12 - 1].open = <<>>
  BY <1>11, <1>3
<1>13. g[13 - 1].open = <<>>
  BY <1>12, <1>3
<1>14. g[15 - 1].open = <<>>
  BY <1>13, <1>4
<1>15. g[17 - 1].open = <<>>
  BY <1>14, <1>4
<1>16. g[19 - 1].open = <<>>
  BY <1>15, <1>4
<1>17. g[21 - 1].open = <<>>
  BY <1>16, <1>4
<1>18. g[22 - 1].open = <<>>
  BY <1>17, <1>3
<1>19. g[23 - 1].open = <<>>
  BY <1>18, <1>3
<1>20. g[24 - 1].open = <<>>
  BY <1>19, <1>3
<1>21. g[25].open = <<>>
  BY <1>20, <1>4
<1> QED
  BY <1>1, <1>2, <1>21 DEF b

-----------------------------------------------------------------------------
(* The bytes of a show.                                                    *)

LEMMA PayloadFacts ==
  LET b == Oled!Payload IN
  /\ b \in Seq(Bytes) /\ Len(b) = 6
  /\ b[1] = 33 /\ b[2] = 0 /\ b[3] = WIDTH - 1 /\ b[4] = 34 /\ b[5] = 0 /\ b[6] = Oled!PAGES - 1
  /\ WIDTH - 1 \in Bytes /\ (WIDTH - 1) % 128 = WIDTH - 1 /\ Oled!Arguments(WIDTH - 1) = 0
  /\ Oled!PAGES - 1 \in Bytes /\ (Oled!PAGES - 1) % 8 = Oled!PAGES - 1
  /\ Oled!Arguments(Oled!PAGES - 1) = 0 /\ Oled!Arguments(0) = 0
<1> DEFINE b == Oled!Payload
<1>1. b = <<33, 0, WIDTH - 1, 34, 0, Oled!PAGES - 1>>
  BY DEF Oled!Payload, Oled!SET_COL_ADDR, Oled!SET_PAGE_ADDR
<1>2. WIDTH \in Nat /\ WIDTH >= 1 /\ WIDTH <= 128 /\ Oled!Arguments(WIDTH - 1) = 0
  BY PartsAssumption DEF Oled!DisplayAssumption
<1>3. Oled!PAGES \in Nat /\ Oled!PAGES >= 1 /\ Oled!PAGES <= 8
  <2>1. PICK n \in 1 .. 8 : HEIGHT = 8 * n
    BY PartsAssumption DEF Oled!DisplayAssumption
  <2>2. (8 * n) \div 8 = n
    OBVIOUS
  <2> QED
    BY <2>1, <2>2 DEF Oled!PAGES
<1>4. \A n \in Nat, m \in Nat \ {0} : n < m => n % m = n
  OBVIOUS
<1>5. (WIDTH - 1) % 128 = WIDTH - 1 /\ WIDTH - 1 \in Bytes
  BY <1>2, <1>4 DEF Bytes
<1>6. (Oled!PAGES - 1) % 8 = Oled!PAGES - 1 /\ Oled!PAGES - 1 \in Bytes
  BY <1>3, <1>4 DEF Bytes
<1>7. Oled!Arguments(Oled!PAGES - 1) = 0 /\ Oled!Arguments(0) = 0
  <2>1. \A n \in Nat : n < 8 => Oled!Arguments(n) = 0
    BY DEF Oled!Arguments, Oled!SET_MEM_ADDR, Oled!SET_COL_ADDR, Oled!SET_PAGE_ADDR,
       Oled!SET_CONTRAST, Oled!SET_CHARGE_PUMP, Oled!SET_MUX_RATIO, Oled!SET_DISP_OFFSET,
       Oled!SET_DISP_CLK_DIV, Oled!SET_PRECHARGE, Oled!SET_COM_PIN_CFG, Oled!SET_VCOM_DESEL
  <2> QED
    BY <1>3, <2>1
<1>8. 33 \in Bytes /\ 0 \in Bytes /\ 34 \in Bytes
  BY DEF Bytes
<1>9. b \in Seq(Bytes) /\ Len(b) = 6
  BY <1>1, <1>5, <1>6, <1>8
<1>10. /\ b[1] = 33 /\ b[2] = 0 /\ b[3] = WIDTH - 1 /\ b[4] = 34 /\ b[5] = 0
       /\ b[6] = Oled!PAGES - 1
  BY <1>1
<1> HIDE DEF b
<1> QED
  BY <1>2, <1>5, <1>6, <1>7, <1>9, <1>10, Zenon DEF b

\* A byte brings the controller nearer to the end of the command it has open, or
\* begins one.
LEMMA MissingFacts ==
  ASSUME NEW r \in Registers
  PROVE  /\ Missing(r) \in 0 .. 6
         /\ Missing(r) = 0 <=> r.open = <<>>
<1>1. CASE r.open = <<>>
  BY <1>1 DEF Missing
<1>2. CASE r.open # <<>>
  <2>1. PICK o \in Seq(Bytes) : o = r.open
    BY DEF Registers
  <2>2. o[1] \in Bytes /\ Len(o) \in Nat /\ Len(o) >= 1
    BY <1>2, <2>1
  <2>3. Len(o) <= Oled!Arguments(o[1])
    BY <1>2, <2>1 DEF Registers
  <2>4. PICK n \in 0 .. 6 : n = Oled!Arguments(o[1])
    BY <2>2, ArgumentFacts
  <2>5. Missing(r) = n + 1 - Len(o)
    BY <1>2, <2>1, <2>4 DEF Missing
  <2> QED
    BY <1>2, <2>2, <2>3, <2>4, <2>5
<1> QED
  BY <1>1, <1>2

LEMMA MissingStep ==
  ASSUME NEW r \in Registers, NEW byte \in Bytes
  PROVE  LET s == Oled!Command(r, byte) IN
         /\ s \in Registers
         /\ Missing(s) = IF Missing(r) = 0 THEN Oled!Arguments(byte) ELSE Missing(r) - 1
<1> DEFINE s == Oled!Command(r, byte)
           first == IF r.open = <<>> THEN byte ELSE r.open[1]
<1>1. s \in Registers /\ Fed(r, byte, first, s)
  BY CommandFacts
<1> HIDE DEF s
<1>2. s.open = IF Len(r.open) + 1 > Oled!Arguments(first) THEN <<>> ELSE Append(r.open, byte)
  BY <1>1, Zenon DEF Fed
<1>3. PICK o \in Seq(Bytes) : o = r.open
  BY DEF Registers
<1>4. /\ Append(o, byte) # <<>> /\ Len(Append(o, byte)) = Len(o) + 1 /\ Len(o) \in Nat
      /\ Append(o, byte)[1] = first
  BY <1>3, AppendFacts
<1>5. first \in Bytes
  BY <1>3
<1> HIDE DEF first
<1>6. PICK n \in 0 .. 6 : n = Oled!Arguments(first)
  BY <1>5, ArgumentFacts
<1>7. Missing(s) = IF Len(o) + 1 > n THEN 0 ELSE n + 1 - (Len(o) + 1)
  <2>1. CASE Len(o) + 1 > n
    <3>1. s.open = <<>>
      BY <1>2, <1>3, <1>6, <2>1
    <3> QED
      BY <2>1, <3>1 DEF Missing
  <2>2. CASE ~ (Len(o) + 1 > n)
    <3>1. s.open = Append(o, byte)
      BY <1>2, <1>3, <1>6, <2>2
    <3>2. s.open # <<>> /\ s.open[1] = first /\ Len(s.open) = Len(o) + 1
      BY <1>4, <3>1
    <3> QED
      BY <1>6, <2>2, <3>2 DEF Missing
  <2> QED
    BY <2>1, <2>2
<1>8. CASE r.open = <<>>
  <2>1. Len(o) = 0 /\ first = byte /\ Missing(r) = 0
    BY <1>3, <1>8 DEF first, Missing
  <2>2. Missing(s) = n
    BY <1>6, <1>7, <2>1
  <2> QED
    BY <1>1, <1>6, <2>1, <2>2 DEF s
<1>9. CASE r.open # <<>>
  <2>1. first = o[1] /\ Len(o) <= n
    BY <1>3, <1>6, <1>9 DEF first, Registers
  <2>2. Missing(r) = n + 1 - Len(o)
    BY <1>3, <1>6, <1>9, <2>1 DEF Missing
  <2>3. Missing(r) # 0 /\ Missing(s) = Missing(r) - 1
    BY <1>4, <1>6, <1>7, <2>1, <2>2
  <2> QED
    BY <1>1, <2>3 DEF s
<1> QED
  BY <1>8, <1>9

\* What it has open after n bytes of a show that began a command.
Due == [n \in 0 .. 6 |-> CASE n = 1 -> <<33>> [] n = 2 -> <<33, 0>> [] n = 4 -> <<34>>
                           [] n = 5 -> <<34, 0>> [] OTHER -> <<>>]

\* What it lacks then.
Owed == [n \in 0 .. 6 |-> CASE n = 1 -> 2 [] n = 2 -> 1 [] n = 4 -> 2 [] n = 5 -> 1 [] OTHER -> 0]

LEMMA DueFacts ==
  /\ Due[0] = <<>> /\ Due[1] = <<33>> /\ Due[2] = <<33, 0>> /\ Due[3] = <<>>
  /\ Due[4] = <<34>> /\ Due[5] = <<34, 0>> /\ Due[6] = <<>>
BY DEF Due

LEMMA OwedFacts ==
  /\ Owed[0] = 0 /\ Owed[1] = 2 /\ Owed[2] = 1 /\ Owed[3] = 0
  /\ Owed[4] = 2 /\ Owed[5] = 1 /\ Owed[6] = 0
BY DEF Owed

\* What a byte of a show, the n-th, makes of the registers.
Nearer(r, n, s) ==
  Missing(s) = IF Missing(r) = 0 THEN IF n \in {1, 4} THEN 2 ELSE 0 ELSE Missing(r) - 1

Along(r, n, s) ==
  r.open = Due[n - 1] =>
    /\ s.open = Due[n]
    /\ n \in 4 .. 6 => s.cols = r.cols
    /\ n = 3 => s.cols = <<0, WIDTH - 1>>
    /\ n = 6 => s.pages = <<0, Oled!PAGES - 1>>

LEMMA ShowStep ==
  ASSUME NEW r \in Registers, NEW n \in 1 .. 6
  PROVE  LET s == Oled!Command(r, Oled!Payload[n]) IN
         s \in Registers /\ Nearer(r, n, s) /\ Along(r, n, s)
<1> DEFINE b == Oled!Payload[n]
           s == Oled!Command(r, b)
<1>1. /\ b \in Bytes /\ (n = 1 => b = 33) /\ (n = 4 => b = 34) /\ (n = 3 => b = WIDTH - 1)
      /\ (n \in {2, 5} => b = 0)
      /\ (n = 6 => b = Oled!PAGES - 1) /\ (n \notin {1, 4} => Oled!Arguments(b) = 0)
  <2>1. b \in Bytes
    BY PayloadFacts, ElementOfSeq
  <2>2. (n = 1 => b = 33) /\ (n = 4 => b = 34) /\ (n = 3 => b = WIDTH - 1)
        /\ (n = 6 => b = Oled!PAGES - 1) /\ (n \in {2, 5} => b = 0)
    BY PayloadFacts
  <2>3. n \in {2, 3, 5, 6} => Oled!Arguments(b) = 0
    BY PayloadFacts
  <2>4. n \notin {1, 4} => n \in {2, 3, 5, 6}
    OBVIOUS
  <2> QED
    BY <2>1, <2>2, <2>3, <2>4, Zenon
<1>2. 33 \in Bytes /\ 34 \in Bytes /\ 0 \in Bytes /\ 0 % 128 = 0 /\ 0 % 8 = 0
  BY DEF Bytes
<1>3. Oled!Arguments(33) = 2 /\ Oled!Arguments(34) = 2
  BY <1>2, ArgumentFacts
<1>4. s \in Registers /\ Missing(s) = IF Missing(r) = 0 THEN Oled!Arguments(b) ELSE Missing(r) - 1
  BY <1>1, MissingStep
<1> HIDE DEF b, s
<1>5. Nearer(r, n, s)
  <2>1. Oled!Arguments(b) = IF n \in {1, 4} THEN 2 ELSE 0
    BY <1>1, <1>3
  <2> QED
    BY <1>4, <2>1 DEF Nearer
<1>6. ASSUME r.open = Due[n - 1] PROVE Along(r, n, s)
  <2>1. CASE n = 1
    <3>0. r.open = <<>>
      BY <1>6, <2>1, DueFacts
    <3>1. FedFirst(r, b, s)
      BY <1>1, <3>0, First, Zenon DEF s
    <3>2. s.open = Due[1]
      BY <1>1, <1>3, <2>1, <3>1, DueFacts DEF FedFirst
    <3> QED
      BY <2>1, <3>2 DEF Along
  <2>2. CASE n = 2
    <3>1. r.open = <<33>>
      BY <1>6, <2>2, DueFacts
    <3>2. FedSecond(r, 33, b, s)
      BY <1>1, <1>2, <1>3, <3>1, Second DEF s
    <3>3. s.open = Due[2]
      BY <1>1, <1>3, <2>2, <3>2, DueFacts DEF FedSecond
    <3> QED
      BY <2>2, <3>3 DEF Along
  <2>3. CASE n = 3
    <3>1. r.open = <<33, 0>>
      BY <1>6, <2>3, DueFacts
    <3>2. FedThird(r, 33, 0, b, s)
      BY <1>1, <1>2, <3>1, Third DEF s
    <3>3. s.open = <<>> /\ s.cols = <<0 % 128, (WIDTH - 1) % 128>>
      BY <1>1, <2>3, <3>2 DEF FedThird
    <3>4. s.cols = <<0, WIDTH - 1>>
      BY <1>2, <3>3, PayloadFacts
    <3> QED
      BY <2>3, <3>3, <3>4, DueFacts DEF Along
  <2>4. CASE n = 4
    <3>1. r.open = <<>>
      BY <1>6, <2>4, DueFacts
    <3>2. FedFirst(r, b, s)
      BY <1>1, <3>1, First, Zenon DEF s
    <3>3. s.open = Due[4] /\ s.cols = r.cols
      BY <1>1, <1>3, <2>4, <3>2, DueFacts DEF FedFirst
    <3> QED
      BY <2>4, <3>3 DEF Along
  <2>5. CASE n = 5
    <3>1. r.open = <<34>>
      BY <1>6, <2>5, DueFacts
    <3>2. FedSecond(r, 34, b, s)
      BY <1>1, <1>2, <1>3, <3>1, Second DEF s
    <3>3. s.open = Due[5] /\ s.cols = r.cols
      BY <1>1, <1>3, <2>5, <3>2, DueFacts DEF FedSecond
    <3> QED
      BY <2>5, <3>3 DEF Along
  <2>6. CASE n = 6
    <3>1. r.open = <<34, 0>>
      BY <1>6, <2>6, DueFacts
    <3>2. FedThird(r, 34, 0, b, s)
      BY <1>1, <1>2, <3>1, Third DEF s
    <3>3. s.open = <<>> /\ s.cols = r.cols /\ s.pages = <<0 % 8, (Oled!PAGES - 1) % 8>>
      BY <1>1, <2>6, <3>2 DEF FedThird
    <3>4. s.pages = <<0, Oled!PAGES - 1>>
      BY <1>2, <3>3, PayloadFacts
    <3> QED
      BY <2>6, <3>3, <3>4, DueFacts DEF Along
  <2> QED
    BY <2>1, <2>2, <2>3, <2>4, <2>5, <2>6
<1>7. Along(r, n, s)
  BY <1>6 DEF Along
<1> QED
  BY <1>4, <1>5, <1>7 DEF s, b

\* A show that goes through undisturbed leaves nothing open.
LEMMA ShowEnds ==
  ASSUME NEW r \in Registers
  PROVE  LET s == Oled!Commands(r, Oled!Payload) IN s \in Registers /\ s.open = <<>>
<1> DEFINE b == Oled!Payload
<1>1. PICK g \in [0 .. Len(b) -> Registers] :
           /\ g[0] = r
           /\ \A k \in 1 .. Len(b) : g[k] = Oled!Command(g[k - 1], b[k])
           /\ Oled!Commands(r, b) = g[Len(b)]
  BY PayloadFacts, CommandsRun
<1>2. Len(b) = 6
  BY PayloadFacts
<1> HIDE DEF b
<1>3. \A k \in 0 .. 6 : g[k] \in Registers /\ Missing(g[k]) \in 0 .. 6
  BY <1>1, <1>2, MissingFacts
<1>4. \A k \in 1 .. 6 : Nearer(g[k - 1], k, g[k])
  <2>1. ASSUME NEW k \in 1 .. 6 PROVE Nearer(g[k - 1], k, g[k])
    <3>1. g[k] = Oled!Command(g[k - 1], b[k]) /\ g[k - 1] \in Registers
      BY <1>1, <1>2
    <3> QED
      BY <3>1, ShowStep DEF b
  <2> QED
    BY <2>1
<1>5. Nearer(g[0], 1, g[1]) /\ Nearer(g[1], 2, g[2]) /\ Nearer(g[2], 3, g[3])
  <2>1. Nearer(g[1 - 1], 1, g[1]) /\ Nearer(g[2 - 1], 2, g[2]) /\ Nearer(g[3 - 1], 3, g[3])
    BY <1>4
  <2> QED
    BY <2>1
<1>6. Nearer(g[3], 4, g[4]) /\ Nearer(g[4], 5, g[5]) /\ Nearer(g[5], 6, g[6])
  <2>1. Nearer(g[4 - 1], 4, g[4]) /\ Nearer(g[5 - 1], 5, g[5]) /\ Nearer(g[6 - 1], 6, g[6])
    BY <1>4
  <2> QED
    BY <2>1
<1>7. Missing(g[3]) <= 3
  BY <1>3, <1>5 DEF Nearer
<1>8. Missing(g[6]) = 0
  BY <1>3, <1>6, <1>7 DEF Nearer
<1> QED
  BY <1>1, <1>2, <1>3, <1>8, MissingFacts DEF b

-----------------------------------------------------------------------------
(* Shows of the loop and of requests on the bus.                           *)

\* A show that no other, and no transaction lost or cut in two, has disturbed,
\* nor the one before it.
Undisturbed == shown > 0 /\ (calm = 2 \/ (calm = 1 /\ ~broken))

OledTypes ==
  /\ regs \in Registers /\ halved \in BOOLEAN /\ broken \in BOOLEAN
  /\ shown \in 0 .. 6 /\ calm \in 0 .. 2 /\ losses \in 0 .. MaxLosses
  /\ drawing \in 0 .. MaxDrawings /\ glass \in Oled!Garbled .. MaxDrawings
  /\ halved => broken /\ calm = 0

\* As long as all transactions were whole the loop's show is followed from its
\* start or, interrupted, not at all.
Followed == ~broken => Missing(regs) \in {0, Owed[shown]}

\* A show that begins anywhere in a command ends with none open: the command
\* needs no more bytes than the show still has.
Rejoined == calm > 0 => Missing(regs) <= IF shown = 0 THEN 0 ELSE 6 - shown

Exact ==
  Undisturbed =>
    /\ regs.open = Due[shown]
    /\ shown >= 3 => regs.cols = <<0, WIDTH - 1>>
    /\ shown = 6 => regs.pages = <<0, Oled!PAGES - 1>>

OledInv == OledTypes /\ Followed /\ Rejoined /\ Exact

LEMMA OledConstants ==
  MaxDrawings \in Nat /\ MaxLosses \in Nat /\ Scrambled \in SUBSET Registers
BY PartsAssumption, RegistersFact DEF Oled!DisplayAssumption

LEMMA OledInit == Oled!Init => OledInv
<1> SUFFICES ASSUME Oled!Init PROVE OledInv
  OBVIOUS
<1>1. regs \in Registers /\ regs.open = <<>>
  BY InitEnds DEF Oled!Init
<1>2. Missing(regs) = 0
  BY <1>1, MissingFacts
<1>3. OledTypes
  <2>1. halved \in BOOLEAN /\ ~halved /\ broken \in BOOLEAN
    BY DEF Oled!Init
  <2>2. shown = 0 /\ calm = 0 /\ losses = 0 /\ drawing = 0 /\ glass = Oled!Garbled
    BY DEF Oled!Init
  <2> QED
    BY <1>1, <2>1, <2>2, OledConstants DEF OledTypes, Oled!Garbled
<1>4. shown = 0 /\ calm = 0
  BY DEF Oled!Init
<1>5. Followed /\ Rejoined /\ Exact
  BY <1>2, <1>4 DEF Followed, Rejoined, Exact, Undisturbed
<1> QED
  BY <1>3, <1>5 DEF OledInv

\* The picture on the glass is one that was drawn.
LEMMA FilledFacts ==
  \A r : \A p \in 0 .. MaxDrawings : Oled!Filled(r, p) \in Oled!Garbled .. MaxDrawings
BY OledConstants DEF Oled!Filled, Oled!Garbled

LEMMA FollowingFacts ==
  shown \in 0 .. 6 => Oled!Following = IF shown = 6 THEN 0 ELSE shown + 1
<1> SUFFICES ASSUME shown \in 0 .. 6 PROVE Oled!Following = IF shown = 6 THEN 0 ELSE shown + 1
  OBVIOUS
<1>1. Oled!Following = (shown + 1) % 7
  BY PayloadFacts DEF Oled!Following
<1>2. 7 % 7 = 0 /\ \A n \in 0 .. 6 : n % 7 = n
  OBVIOUS
<1> QED
  BY <1>1, <1>2

\* A byte of the loop's show.
LEMMA WriteStep == OledInv /\ Oled!Write => OledInv'
<1> SUFFICES ASSUME OledInv, Oled!Write PROVE OledInv'
  OBVIOUS
<1>1. /\ shown \in 0 .. 5 /\ shown' = shown + 1 /\ shown + 1 \in 1 .. 6
      /\ calm' = IF shown = 0 /\ calm < 2 THEN calm + 1 ELSE calm
      /\ regs' = Oled!Command(regs, Oled!Payload[shown + 1])
  <2>1. Len(Oled!Payload) = 6 /\ shown \in 0 .. 6
    BY PayloadFacts DEF OledInv, OledTypes
  <2> QED
    BY <2>1, FollowingFacts DEF Oled!Write
<1>2. UNCHANGED <<losses, drawing, glass, halved, broken>> /\ ~halved
  BY DEF Oled!Write
<1>3. /\ regs' \in Registers
      /\ Nearer(regs, shown + 1, regs') /\ Along(regs, shown + 1, regs')
  BY <1>1, ShowStep DEF OledInv, OledTypes
<1>4. Missing(regs) \in 0 .. 6
  BY MissingFacts DEF OledInv, OledTypes
<1>5. OledTypes'
  BY <1>1, <1>2, <1>3 DEF OledInv, OledTypes
<1>6. Followed'
  <2>1. ASSUME ~broken PROVE Missing(regs') \in {0, Owed[shown + 1]}
    <3>1. Missing(regs) \in {0, Owed[shown]}
      BY <2>1 DEF OledInv, Followed
    <3>2. shown \in {0, 1, 2, 3, 4, 5}
      BY <1>1
    <3> QED
      BY <1>3, <3>1, <3>2, OwedFacts DEF Nearer
  <2> QED
    BY <1>1, <1>2, <2>1 DEF Followed
<1>7. Rejoined'
  <2>1. ASSUME calm' > 0 PROVE Missing(regs') <= 6 - (shown + 1)
    <3>1. shown # 0 => Missing(regs) <= 6 - shown
      BY <1>1, <2>1 DEF OledInv, Rejoined
    <3>2. shown \in {0, 1, 2, 3, 4, 5}
      BY <1>1
    <3> QED
      BY <1>3, <1>4, <3>1, <3>2 DEF Nearer
  <2> QED
    BY <1>1, <2>1 DEF Rejoined
<1>8. Exact'
  <2> SUFFICES ASSUME Undisturbed' PROVE Exact'
    BY DEF Exact
  <2>1. regs.open = Due[shown] /\ (shown >= 3 => regs.cols = <<0, WIDTH - 1>>)
    <3>1. CASE shown = 0
      <4>1. ~broken \/ calm > 0
        BY <1>1, <1>2, <3>1 DEF Undisturbed, OledInv, OledTypes
      <4>2. Missing(regs) = 0
        BY <1>4, <3>1, <4>1, OwedFacts DEF OledInv, Followed, Rejoined
      <4> QED
        BY <3>1, <4>2, MissingFacts, DueFacts DEF OledInv, OledTypes
    <3>2. CASE shown # 0
      <4>1. Undisturbed
        BY <1>1, <1>2, <3>2 DEF Undisturbed
      <4> QED
        BY <4>1 DEF OledInv, Exact
    <3> QED
      BY <3>1, <3>2
  <2>2. /\ regs'.open = Due[shown + 1]
        /\ shown + 1 \in 4 .. 6 => regs'.cols = regs.cols
        /\ shown + 1 = 3 => regs'.cols = <<0, WIDTH - 1>>
        /\ shown + 1 = 6 => regs'.pages = <<0, Oled!PAGES - 1>>
    <3>1. (shown + 1) - 1 = shown
      BY <1>1
    <3> QED
      BY <1>3, <2>1, <3>1 DEF Along
  <2>3. /\ shown + 1 >= 3 => regs'.cols = <<0, WIDTH - 1>>
    <3>1. shown + 1 >= 3 => shown + 1 = 3 \/ (shown >= 3 /\ shown + 1 \in 4 .. 6)
      BY <1>1
    <3> QED
      BY <2>1, <2>2, <3>1
  <2> QED
    BY <1>1, <2>2, <2>3 DEF Exact
<1> QED
  BY <1>5, <1>6, <1>7, <1>8 DEF OledInv

\* Every step keeps the account of the bus.
LEMMA OledStep == OledInv /\ [Oled!Next]_(Oled!vars) => OledInv'
<1> SUFFICES ASSUME OledInv, [Oled!Next]_(Oled!vars) PROVE OledInv'
  OBVIOUS
<1>1. CASE Oled!Draw
  BY <1>1, OledConstants
  DEF Oled!Draw, OledInv, OledTypes, Followed, Rejoined, Exact, Undisturbed
<1>2. CASE Oled!Write
  BY <1>2, WriteStep
<1>3. CASE Oled!TransactionLost
  <2>1. shown' \in 0 .. 6
    BY <1>3, FollowingFacts DEF Oled!TransactionLost, OledInv, OledTypes
  <2>2. losses' \in 0 .. MaxLosses /\ calm' = 0
    BY <1>3, OledConstants DEF Oled!TransactionLost, OledInv, OledTypes
  <2>5. broken' \in BOOLEAN /\ broken' /\ halved' \in BOOLEAN /\ ~halved'
    BY <1>3 DEF Oled!TransactionLost, OledInv, OledTypes
  <2>3. glass' \in Oled!Garbled .. MaxDrawings
    <3>1. glass' = glass \/ glass' = Oled!Garbled
      BY <1>3 DEF Oled!TransactionLost
    <3>2. glass \in Oled!Garbled .. MaxDrawings
      BY DEF OledInv, OledTypes
    <3> QED
      BY <3>1, <3>2, OledConstants DEF Oled!Garbled
  <2>4. UNCHANGED <<regs, drawing>>
    BY <1>3 DEF Oled!TransactionLost
  <2> QED
    BY <2>1, <2>2, <2>3, <2>4, <2>5
    DEF OledInv, OledTypes, Followed, Rejoined, Exact, Undisturbed
<1>4. CASE Oled!Flush
  <2>1. shown = 6 /\ shown' = 0
    BY <1>4, PayloadFacts, FollowingFacts DEF Oled!Flush, OledInv, OledTypes
  <2>2. UNCHANGED <<regs, drawing, halved, losses, broken, calm>>
    BY <1>4 DEF Oled!Flush
  <2>3. glass' \in Oled!Garbled .. MaxDrawings
    BY <1>4, FilledFacts DEF Oled!Flush, OledInv, OledTypes
  <2>4. Missing(regs) \in 0 .. 6
    BY MissingFacts DEF OledInv, OledTypes
  <2> QED
    BY <2>1, <2>2, <2>3, <2>4, OwedFacts
    DEF OledInv, OledTypes, Followed, Rejoined, Exact, Undisturbed
<1>5. CASE Oled!Interrupt
  <2>1. /\ drawing' \in 0 .. MaxDrawings /\ UNCHANGED <<shown, halved, losses, broken>> /\ ~halved
        /\ calm' = IF shown > 0 THEN 0 ELSE calm
        /\ regs' = Oled!Commands(regs, Oled!Payload)
    BY <1>5, OledConstants DEF Oled!Interrupt, OledInv, OledTypes
  <2>2. regs' \in Registers /\ Missing(regs') = 0
    BY <2>1, ShowEnds DEF OledInv, OledTypes, Missing
  <2>3. glass' \in Oled!Garbled .. MaxDrawings
    BY <1>5, <2>1, FilledFacts DEF Oled!Interrupt
  <2> QED
    BY <2>1, <2>2, <2>3
    DEF OledInv, OledTypes, Followed, Rejoined, Exact, Undisturbed
<1>6. CASE Oled!InterruptInside
  <2>1. /\ drawing' \in 0 .. MaxDrawings /\ glass' \in Oled!Garbled .. MaxDrawings
        /\ regs' \in Registers
    BY <1>6, OledConstants DEF Oled!InterruptInside, OledInv, OledTypes, Oled!Garbled
  <2>2. halved' = TRUE /\ broken' = TRUE /\ calm' = 0 /\ UNCHANGED <<shown, losses>>
    BY <1>6 DEF Oled!InterruptInside
  <2> QED
    BY <2>1, <2>2 DEF OledInv, OledTypes, Followed, Rejoined, Exact, Undisturbed
<1>7. CASE Oled!Resume
  <2>1. broken /\ calm = 0 /\ UNCHANGED <<drawing, losses, broken, calm>>
    BY <1>7 DEF Oled!Resume, OledInv, OledTypes
  <2>4. halved' \in BOOLEAN /\ ~halved'
    BY <1>7 DEF Oled!Resume
  <2>2. glass' \in Oled!Garbled .. MaxDrawings /\ regs' \in Registers
    BY <1>7, OledConstants DEF Oled!Resume, OledInv, OledTypes, Oled!Garbled
  <2>3. shown' \in 0 .. 6
    BY <1>7, FollowingFacts DEF Oled!Resume, OledInv, OledTypes
  <2> QED
    BY <2>1, <2>2, <2>3, <2>4 DEF OledInv, OledTypes, Followed, Rejoined, Exact, Undisturbed
<1>8. CASE UNCHANGED Oled!vars
  BY <1>8 DEF Oled!vars, OledInv, OledTypes, Followed, Rejoined, Exact, Undisturbed
<1> QED
  BY <1>1, <1>2, <1>3, <1>4, <1>5, <1>6, <1>7, <1>8 DEF Oled!Next

LEMMA OledAlways == BoardSpec => []OledInv
<1>1. BoardInit => OledInv
  BY DevicesStart, OledInit
<1>2. OledInv /\ [BoardNext]_boardVars => OledInv'
  BY DeviceSteps, OledStep
<1> QED
  BY <1>1, <1>2, PTL DEF BoardSpec

\* However many shows fall into each other between transactions, the display
\* waits for a command between two calls; whatever a transaction lost or cut in
\* two has left it in, it does again when one show has gone through.
THEOREM ShowsStayInStep == BoardSpec => []InStep
<1>1. OledInv => InStep
  <2> SUFFICES ASSUME OledInv, shown = 0, calm > 0 \/ ~broken PROVE regs.open = <<>>
    BY DEF InStep, Oled!InStep
  <2>1. regs \in Registers /\ Missing(regs) \in 0 .. 6
    BY MissingFacts DEF OledInv, OledTypes
  <2>2. Missing(regs) = 0
    BY <2>1, OwedFacts DEF OledInv, Followed, Rejoined
  <2> QED
    BY <2>1, <2>2, MissingFacts
<1> QED
  BY <1>1, OledAlways, PTL

\* A show that nothing disturbs puts its picture into the display's memory,
\* whatever window the shows before it have left; after a transaction lost or
\* cut in two the second does, if the addressing mode is left.
THEOREM ShowsHeal == BoardSpec => ShowHeals
<1> DEFINE Heals == Oled!Flush /\ regs.mode = 0 /\ (calm = 2 \/ (calm = 1 /\ ~broken))
                      => glass' = drawing
<1>1. OledInv => [Heals]_(Oled!vars)
  <2> SUFFICES ASSUME OledInv, Oled!Flush, regs.mode = 0, calm = 2 \/ (calm = 1 /\ ~broken)
               PROVE  glass' = drawing
    OBVIOUS
  <2>1. shown = 6 /\ glass' = Oled!Filled(regs, drawing)
    BY PayloadFacts DEF Oled!Flush
  <2>2. Oled!Whole(regs)
    BY <2>1 DEF OledInv, Exact, Undisturbed, Oled!Whole
  <2> QED
    BY <2>1, <2>2 DEF Oled!Filled
<1> QED
  BY <1>1, OledAlways, PTL DEF ShowHeals, Oled!ShowHeals

-----------------------------------------------------------------------------
(* The matrix: the bits on their way from put_pixel to the diodes.         *)

Bit == 0 .. 1

\* The words in the queue, 24 bits of a pixel and zeros.
Words == {w \in Seq(Bit) : Len(w) = Ws!GRB + BYTE}

Off(n) == n * Ws!GRB

LEMMA WireFacts ==
  /\ BYTE \in Nat \ {0} /\ Ws!GRB \in Nat /\ Ws!GRB >= 3 /\ Ws!GRB = 3 * BYTE
  /\ LATCH \in Nat /\ LATCH > 7 /\ DEPTH \in Nat
  /\ \A c \in Colours : /\ c.r \in [1 .. BYTE -> Bit] /\ c.g \in [1 .. BYTE -> Bit]
                        /\ c.b \in [1 .. BYTE -> Bit]
BY PartsAssumption DEF Ws!WireAssumption, Ws!GRB, Ws!T2, Ws!T3, Bit

LEMMA OffFacts ==
  /\ Off(0) = 0
  /\ \A n \in Nat : Off(n) \in Nat /\ Off(n + 1) = Off(n) + Ws!GRB
  /\ \A n \in Nat : Divides(Ws!GRB, Off(n))
<1>1. Ws!GRB \in Nat \ {0}
  BY WireFacts
<1>2. ASSUME NEW n \in Nat
      PROVE  Off(n) \in Nat /\ Off(n + 1) = Off(n) + Ws!GRB /\ Divides(Ws!GRB, Off(n))
  <2>1. PICK h \in Nat \ {0} : h = Ws!GRB
    BY <1>1
  <2>2. n * h \in Nat /\ (n + 1) * h = n * h + h
    OBVIOUS
  <2>3. Divides(h, n * h)
    BY <2>2, Multiple DEF Divides
  <2> QED
    BY <2>1, <2>2, <2>3 DEF Off
<1> QED
  BY <1>1, <1>2 DEF Off

LEMMA OffMonotone ==
  \A n \in Nat : \A j \in 1 .. n : Off(j - 1) \in Nat /\ Off(j - 1) + Ws!GRB <= Off(n)
<1> SUFFICES ASSUME NEW n \in Nat, NEW j \in 1 .. n
             PROVE  Off(j - 1) \in Nat /\ Off(j - 1) + Ws!GRB <= Off(n)
  OBVIOUS
<1>1. PICK h \in Nat : h = Ws!GRB
  BY WireFacts
<1>2. /\ (n - j) * h >= 0 /\ (j - 1) * h \in Nat
      /\ n * h = ((n - j) * h + (j - 1) * h) + h
  BY <1>1
<1> QED
  BY <1>1, <1>2 DEF Off

\* What has been put, u, is what the diodes have seen, s, the bit on the wire,
\* b, if one is (p is how many are), the rest of the word being shifted out, o,
\* and the pixels of the words in the queue, t, in this order.
AllThere(s, p, o, t, u) == Len(u) = ((Len(s) + p) + Len(o)) + Off(Len(t))
Received(s, u) == \A k \in 1 .. Len(s) : u[k] = s[k]
OnWire(s, p, b, u) == p = 1 => u[Len(s) + 1] = b
InShift(s, p, o, u) == \A k \in 1 .. Len(o) : u[(Len(s) + p) + k] = o[k]
Queued(q, t, u) ==
  \A j \in 1 .. Len(t) : \A k \in 1 .. Ws!GRB : u[(q + Off(j - 1)) + k] = t[j][k]
InQueue(s, p, o, t, u) == Queued((Len(s) + p) + Len(o), t, u)

Stream(s, p, b, o, t, u) ==
  /\ AllThere(s, p, o, t, u) /\ Received(s, u) /\ OnWire(s, p, b, u)
  /\ InShift(s, p, o, u) /\ InQueue(s, p, o, t, u)

StreamTypes(s, p, b, o, t, u) ==
  /\ s \in Seq(Bit) /\ p \in 0 .. 1 /\ b \in Bit /\ o \in Seq(Bit) /\ t \in Seq(Words)
  /\ u \in Seq(Bit)

\* The next word is pulled.
LEMMA Pulled ==
  ASSUME NEW s, NEW p, NEW b, NEW o, NEW t, NEW u, StreamTypes(s, p, b, o, t, u),
         Stream(s, p, b, o, t, u), o = <<>>, t # <<>>,
         NEW v, v = SubSeq(Head(t), 1, Ws!GRB)
  PROVE  /\ v \in Seq(Bit) /\ Len(v) = Ws!GRB
         /\ StreamTypes(s, p, b, v, Tail(t), u) /\ Stream(s, p, b, v, Tail(t), u)
<1>0. /\ s \in Seq(Bit) /\ p \in 0 .. 1 /\ b \in Bit /\ t \in Seq(Words) /\ u \in Seq(Bit)
      /\ Len(s) \in Nat
  BY DEF StreamTypes
<1>1. Head(t) \in Words /\ Head(t) = t[1] /\ Tail(t) \in Seq(Words) /\ Len(t) \in Nat \ {0}
      /\ Len(Tail(t)) = Len(t) - 1 /\ \A j \in 1 .. Len(t) - 1 : Tail(t)[j] = t[j + 1]
  BY <1>0, HeadTailProperties
<1>2. v \in Seq(Bit) /\ Len(v) = Ws!GRB /\ \A k \in 1 .. Ws!GRB : v[k] = t[1][k]
  <2>1. PICK w \in Seq(Bit) : w = Head(t) /\ Len(w) = Ws!GRB + BYTE
    BY <1>1 DEF Words
  <2>2. Ws!GRB \in Nat /\ BYTE \in Nat /\ Ws!GRB <= Len(w)
    BY <2>1, WireFacts
  <2>3. /\ SubSeq(w, 1, Ws!GRB) \in Seq(Bit) /\ Len(SubSeq(w, 1, Ws!GRB)) = Ws!GRB
        /\ \A k \in 1 .. Ws!GRB : SubSeq(w, 1, Ws!GRB)[k] = w[k]
    BY <2>1, <2>2
  <2> QED
    BY <1>1, <2>1, <2>3
<1>3. PICK n \in Nat : n = Len(t) - 1 /\ Len(t) = n + 1 /\ Len(Tail(t)) = n
  <2>1. PICK m \in Nat \ {0} : m = Len(t)
    BY <1>1
  <2>2. m - 1 \in Nat /\ m = (m - 1) + 1
    OBVIOUS
  <2> QED
    BY <1>1, <2>1, <2>2
<1>4. PICK q \in Nat : q = Len(s) + p /\ Len(o) = 0
  <2>1. Len(o) = 0
    OBVIOUS
  <2>2. Len(s) + p \in Nat
    BY <1>0
  <2> QED
    BY <2>1, <2>2
<1>5. /\ Off(n) \in Nat /\ Off(n + 1) = Off(n) + Ws!GRB /\ Off(0) = 0 /\ Ws!GRB \in Nat
      /\ \A j \in Nat : Off(j) \in Nat /\ Off(j + 1) = Off(j) + Ws!GRB
  BY OffFacts, WireFacts
<1>6. Len(u) = (q + Ws!GRB) + Off(n)
  BY <1>3, <1>4, <1>5 DEF Stream, AllThere, Received, OnWire, InShift, InQueue
<1>7. \A j \in 1 .. n + 1 : \A k \in 1 .. Ws!GRB : u[((q + 0) + Off(j - 1)) + k] = t[j][k]
  BY <1>3, <1>4 DEF Stream, InQueue, Queued
<1>8. \A k \in 1 .. Ws!GRB : u[q + k] = v[k]
  <2>1. 1 \in 1 .. n + 1 /\ 1 - 1 = 0 /\ (q + 0) + 0 = q
    OBVIOUS
  <2>2. \A k \in 1 .. Ws!GRB : u[((q + 0) + Off(1 - 1)) + k] = t[1][k]
    BY <1>7, <2>1
  <2>3. (q + 0) + Off(1 - 1) = q
    BY <1>5, <2>1
  <2> QED
    BY <1>2, <2>2, <2>3
<1>9. ASSUME NEW j \in 1 .. n, NEW k \in 1 .. Ws!GRB
      PROVE  u[((q + Ws!GRB) + Off(j - 1)) + k] = Tail(t)[j][k]
  <2>1. j + 1 \in 1 .. n + 1 /\ (j + 1) - 1 = j /\ j - 1 \in Nat /\ (j - 1) + 1 = j
    OBVIOUS
  <2>2. u[((q + 0) + Off(j)) + k] = t[j + 1][k]
    BY <1>7, <2>1
  <2>3. Off(j) = Off(j - 1) + Ws!GRB /\ Off(j - 1) \in Nat
    BY <1>5, <2>1
  <2>4. ((q + 0) + Off(j)) + k = ((q + Ws!GRB) + Off(j - 1)) + k
    <3>1. PICK f \in Nat, h \in Nat : f = Off(j - 1) /\ h = Ws!GRB
      BY <1>5, <2>3
    <3>2. ((q + 0) + (f + h)) + k = ((q + h) + f) + k
      OBVIOUS
    <3> QED
      BY <2>3, <3>1, <3>2
  <2>5. Tail(t)[j] = t[j + 1]
    BY <1>1, <1>3
  <2> QED
    BY <2>2, <2>4, <2>5
<1>10. Received(s, u) /\ OnWire(s, p, b, u)
  BY DEF Stream, AllThere, Received, OnWire, InShift, InQueue
<1>11. StreamTypes(s, p, b, v, Tail(t), u)
  BY <1>0, <1>1, <1>2 DEF StreamTypes
<1>12. Stream(s, p, b, v, Tail(t), u)
  <2>1. AllThere(s, p, v, Tail(t), u)
    BY <1>2, <1>3, <1>4, <1>6, Zenon DEF AllThere
  <2>2. InShift(s, p, v, u)
    BY <1>2, <1>4, <1>8, Zenon DEF InShift
  <2>3. InQueue(s, p, v, Tail(t), u)
    <3>1. Queued(q + Ws!GRB, Tail(t), u)
      BY <1>3, <1>9, Zenon DEF Queued
    <3> QED
      BY <1>2, <1>4, <3>1, Zenon DEF InQueue
  <2> QED
    BY <1>10, <2>1, <2>2, <2>3, Zenon DEF Stream
<1> QED
  BY <1>2, <1>11, <1>12

\* The next bit is shifted out.
LEMMA Shifted ==
  ASSUME NEW s, NEW b, NEW o, NEW t, NEW u, StreamTypes(s, 0, b, o, t, u),
         Stream(s, 0, b, o, t, u), o # <<>>
  PROVE  /\ StreamTypes(s, 1, Head(o), Tail(o), t, u) /\ Stream(s, 1, Head(o), Tail(o), t, u)
         /\ Len(o) \in Nat \ {0} /\ Len(Tail(o)) = Len(o) - 1
<1>0. /\ s \in Seq(Bit) /\ o \in Seq(Bit) /\ t \in Seq(Words) /\ u \in Seq(Bit)
      /\ Len(s) \in Nat
  BY DEF StreamTypes
<1>1. /\ Head(o) \in Bit /\ Head(o) = o[1] /\ Tail(o) \in Seq(Bit) /\ Len(o) \in Nat \ {0}
      /\ Len(Tail(o)) = Len(o) - 1 /\ \A k \in 1 .. Len(o) - 1 : Tail(o)[k] = o[k + 1]
  BY <1>0, HeadTailProperties
<1>2. PICK q \in Nat, n \in Nat : q = Len(s) /\ n = Len(o) - 1 /\ Len(o) = n + 1 /\ Len(Tail(o)) = n
  <2>1. PICK m \in Nat \ {0} : m = Len(o)
    BY <1>1
  <2>2. m - 1 \in Nat /\ m = (m - 1) + 1
    OBVIOUS
  <2> QED
    BY <1>0, <1>1, <2>1, <2>2
<1>3. (q + 0) + (n + 1) = (q + 1) + n /\ q + 0 = q
  OBVIOUS
<1>4. AllThere(s, 1, Tail(o), t, u)
  BY <1>2, <1>3, Zenon DEF Stream, AllThere
<1>5. \A k \in 1 .. n + 1 : u[q + k] = o[k]
  BY <1>2, <1>3, Zenon DEF Stream, InShift
<1>6. OnWire(s, 1, Head(o), u)
  <2>1. 1 \in 1 .. n + 1
    OBVIOUS
  <2> QED
    BY <1>1, <1>2, <1>5, <2>1, Zenon DEF OnWire
<1>7. InShift(s, 1, Tail(o), u)
  <2>1. ASSUME NEW k \in 1 .. n PROVE u[(q + 1) + k] = Tail(o)[k]
    <3>1. k + 1 \in 1 .. n + 1 /\ (q + 1) + k = q + (k + 1)
      OBVIOUS
    <3>2. Tail(o)[k] = o[k + 1]
      BY <1>1, <1>2
    <3> QED
      BY <1>5, <3>1, <3>2
  <2> QED
    BY <1>2, <2>1, Zenon DEF InShift
<1>8. InQueue(s, 1, Tail(o), t, u)
  BY <1>2, <1>3, Zenon DEF Stream, InQueue
<1>9. Received(s, u)
  BY DEF Stream
<1>10. Stream(s, 1, Head(o), Tail(o), t, u)
  BY <1>4, <1>6, <1>7, <1>8, <1>9, Zenon DEF Stream
<1>11. StreamTypes(s, 1, Head(o), Tail(o), t, u)
  BY <1>0, <1>1 DEF StreamTypes
<1> QED
  BY <1>1, <1>10, <1>11

\* The diodes see the bit on the wire.
LEMMA Seen ==
  ASSUME NEW s, NEW b, NEW o, NEW t, NEW u, StreamTypes(s, 1, b, o, t, u),
         Stream(s, 1, b, o, t, u), NEW d \in Bit
  PROVE  /\ StreamTypes(Append(s, b), 0, d, o, t, u) /\ Stream(Append(s, b), 0, d, o, t, u)
         /\ Len(s) \in Nat /\ Len(Append(s, b)) = Len(s) + 1
<1>0. /\ s \in Seq(Bit) /\ b \in Bit /\ o \in Seq(Bit) /\ t \in Seq(Words) /\ u \in Seq(Bit)
      /\ Len(s) \in Nat
  BY DEF StreamTypes
<1> DEFINE a == Append(s, b)
<1>1. /\ a \in Seq(Bit) /\ Len(a) = Len(s) + 1 /\ a[Len(s) + 1] = b
      /\ \A k \in 1 .. Len(s) : a[k] = s[k]
  BY <1>0, AppendProperties
<1> HIDE DEF a
<1>2. PICK q \in Nat : q = Len(s) /\ Len(a) = q + 1
  BY <1>0, <1>1
<1>3. (q + 1) + 0 = q + 1
  OBVIOUS
<1>4. AllThere(a, 0, o, t, u)
  BY <1>2, <1>3, Zenon DEF Stream, AllThere
<1>5. Received(a, u)
  <2>1. ASSUME NEW k \in 1 .. q + 1 PROVE u[k] = a[k]
    <3>1. CASE k = q + 1
      <4>1. u[q + 1] = b
        BY <1>2 DEF Stream, OnWire
      <4> QED
        BY <1>1, <1>2, <3>1, <4>1
    <3>2. CASE k # q + 1
      <4>1. k \in 1 .. q
        BY <3>2
      <4>2. u[k] = s[k]
        BY <1>2, <4>1 DEF Stream, Received
      <4> QED
        BY <1>1, <1>2, <4>1, <4>2
    <3> QED
      BY <3>1, <3>2
  <2> QED
    BY <1>2, <2>1, Zenon DEF Received
<1>6. InShift(a, 0, o, u)
  BY <1>2, <1>3, Zenon DEF Stream, InShift
<1>7. InQueue(a, 0, o, t, u)
  BY <1>2, <1>3, Zenon DEF Stream, InQueue
<1>8. Stream(a, 0, d, o, t, u)
  <2>1. OnWire(a, 0, d, u)
    BY DEF OnWire
  <2> QED
    BY <1>4, <1>5, <1>6, <1>7, <2>1, Zenon DEF Stream
<1>9. StreamTypes(a, 0, d, o, t, u)
  BY <1>0, <1>1 DEF StreamTypes
<1> QED
  BY <1>0, <1>1, <1>8, <1>9 DEF a

\* A pixel is put.
LEMMA Pushed ==
  ASSUME NEW s, NEW p, NEW b, NEW o, NEW t, NEW u, StreamTypes(s, p, b, o, t, u),
         Stream(s, p, b, o, t, u), NEW w \in Words, NEW y \in Seq(Bit),
         Len(y) = Len(u) + Ws!GRB, \A k \in 1 .. Len(u) : y[k] = u[k],
         \A k \in 1 .. Ws!GRB : y[Len(u) + k] = w[k]
  PROVE  StreamTypes(s, p, b, o, Append(t, w), y) /\ Stream(s, p, b, o, Append(t, w), y)
<1>0. /\ s \in Seq(Bit) /\ p \in 0 .. 1 /\ b \in Bit /\ o \in Seq(Bit) /\ t \in Seq(Words)
      /\ u \in Seq(Bit) /\ Len(s) \in Nat /\ Len(o) \in Nat /\ Len(t) \in Nat
  BY DEF StreamTypes
<1>1. /\ Append(t, w) \in Seq(Words) /\ Len(Append(t, w)) = Len(t) + 1
      /\ Append(t, w)[Len(t) + 1] = w
      /\ \A j \in 1 .. Len(t) : Append(t, w)[j] = t[j]
  BY <1>0, AppendProperties
<1>2. PICK q \in Nat, n \in Nat, l \in Nat, f \in Nat, h \in Nat, m \in Nat :
        /\ q = Len(s) + p /\ n = Len(t) /\ l = Len(o) /\ f = Off(n) /\ h = Ws!GRB /\ m = Len(s)
        /\ Off(n + 1) = f + h
  <2>1. Len(s) + p \in Nat
    BY <1>0
  <2>2. Off(Len(t)) \in Nat /\ Off(Len(t) + 1) = Off(Len(t)) + Ws!GRB /\ Ws!GRB \in Nat
    BY <1>0, OffFacts, WireFacts
  <2>3. PICK f \in Nat, h \in Nat : f = Off(Len(t)) /\ h = Ws!GRB
    BY <2>2, Zenon
  <2>4. PICK q \in Nat : q = Len(s) + p
    BY <2>1, Zenon
  <2> QED
    BY <1>0, <2>2, <2>3, <2>4, ZenonT(30)
<1>3. Len(u) = (q + l) + f
  BY <1>2, Zenon DEF Stream, AllThere
<1>4. (q + l) + (f + h) = ((q + l) + f) + h
  OBVIOUS
<1>5. AllThere(s, p, o, Append(t, w), y)
  BY <1>1, <1>2, <1>3, <1>4, Zenon DEF AllThere
<1>b. q = m + p /\ p >= 0
  BY <1>0, <1>2
<1>6. Received(s, y)
  <2>1. \A k \in 1 .. m : k \in 1 .. (q + l) + f
    BY <1>0, <1>b
  <2> QED
    BY <1>2, <1>3, <2>1, Zenon DEF Stream, Received
<1>7. OnWire(s, p, b, y)
  <2>1. p = 1 => m + 1 \in 1 .. (q + l) + f
    BY <1>0, <1>b
  <2> QED
    BY <1>2, <1>3, <2>1, Zenon DEF Stream, OnWire
<1>8. InShift(s, p, o, y)
  <2>1. \A k \in 1 .. l : q + k \in 1 .. (q + l) + f
    OBVIOUS
  <2> QED
    BY <1>2, <1>3, <2>1, Zenon DEF Stream, InShift
<1>9. ASSUME NEW j \in 1 .. n + 1, NEW k \in 1 .. h
      PROVE  y[((q + l) + Off(j - 1)) + k] = Append(t, w)[j][k]
  <2>1. CASE j = n + 1
    <3>1. j - 1 = n
      BY <2>1
    <3>2. y[((q + l) + f) + k] = w[k]
      BY <1>2, <1>3
    <3> QED
      BY <1>1, <1>2, <2>1, <3>1, <3>2, Zenon
  <2>2. CASE j # n + 1
    <3>1. j \in 1 .. n /\ j - 1 \in Nat
      BY <2>2
    <3>2. u[((q + l) + Off(j - 1)) + k] = t[j][k]
      BY <1>2, <3>1, Zenon DEF Stream, InQueue, Queued
    <3>3. ((q + l) + Off(j - 1)) + k \in 1 .. Len(u)
      <4>1. Off(j - 1) + h <= f /\ Off(j - 1) \in Nat
        BY <1>2, <3>1, OffMonotone
      <4> QED
        BY <1>3, <4>1
    <3> QED
      BY <1>1, <1>2, <3>1, <3>2, <3>3, Zenon
  <2> QED
    BY <2>1, <2>2
<1>10. Stream(s, p, b, o, Append(t, w), y)
  <2>1. InQueue(s, p, o, Append(t, w), y)
    BY <1>1, <1>2, <1>9, Zenon DEF InQueue, Queued
  <2> QED
    BY <1>5, <1>6, <1>7, <1>8, <2>1, Zenon DEF Stream
<1>11. StreamTypes(s, p, b, o, Append(t, w), y)
  BY <1>0, <1>1 DEF StreamTypes
<1> QED
  BY <1>10, <1>11

\* Bits the wire carries: from Out on until the diodes have seen the pulse end.
Pending == IF pioPc # "bitloop" \/ pin = 1 THEN 1 ELSE 0

\* A pixel is under way: a part of its bits has been shifted out.
Mid(p, n) == p + n # 0 /\ p + n # Ws!GRB
MidPixel == Mid(Pending, Len(osr))

WsTypes ==
  /\ StreamTypes(seen, Pending, x, osr, tx, put)
  /\ pioPc \in {"bitloop", "branch", "do_one", "do_zero"}
  /\ pin \in Bit /\ delay \in Nat /\ high \in Nat /\ quiet \in Nat /\ quiet <= LATCH
  /\ Len(tx) <= DEPTH /\ Len(osr) <= Ws!GRB

\* The pulse so far, and what the instruction adds, is that of the bit in x.
Phase ==
  /\ pioPc = "branch" => pin = 0 /\ high = 0 /\ delay <= 3
  /\ pioPc \in {"do_one", "do_zero"} =>
       pin = 1 /\ high + delay = 3 /\ delay <= 2 /\ (pioPc = "do_one" <=> x = 1)
  /\ pioPc = "bitloop" /\ pin = 1 => x = 1 /\ high + delay = 6 /\ delay <= 2
  /\ pioPc = "bitloop" /\ pin = 0 => high = 0 /\ delay <= 2

\* Within a pixel the wire is low for seven cycles at most.
Silence ==
  /\ pin = 1 => quiet = 0
  /\ MidPixel /\ pin = 0 => quiet + delay <= IF pioPc = "branch" THEN 7 ELSE 3

\* The program's cycles: nothing is lost between the queue and the diodes.
WsInv ==
  /\ WsTypes /\ Phase /\ Silence
  /\ Stream(seen, Pending, x, osr, tx, put) /\ Divides(Ws!GRB, Len(put))

LEMMA WsStart == Ws!Init => WsInv
<1> SUFFICES ASSUME Ws!Init PROVE WsInv
  OBVIOUS
<1>1. /\ tx = <<>> /\ osr = <<>> /\ pioPc = "bitloop" /\ x = 0 /\ delay = 0 /\ pin = 0
      /\ high = 0 /\ quiet = LATCH /\ seen = <<>> /\ put = <<>>
  BY DEF Ws!Init
<1>2. Pending = 0
  BY <1>1 DEF Pending
<1>3. /\ <<>> \in Seq(Bit) /\ <<>> \in Seq(Words) /\ 0 \in Bit /\ 0 \in 0 .. 1 /\ 0 \in Nat
      /\ Len(<<>>) = 0 /\ 0 <= DEPTH /\ 0 <= Ws!GRB /\ Ws!GRB \in Nat \ {0}
  BY WireFacts DEF Bit
<1>4. WsTypes
  BY <1>1, <1>2, <1>3, WireFacts DEF WsTypes, StreamTypes
<1>5. Phase
  BY <1>1 DEF Phase
<1>6. Silence
  BY <1>1, <1>2, <1>3 DEF Silence, MidPixel, Mid
<1>7. Stream(seen, Pending, x, osr, tx, put)
  BY <1>1, <1>2, OffFacts
  DEF Stream, AllThere, Received, OnWire, InShift, InQueue, Queued
<1>8. Divides(Ws!GRB, Len(put))
  <2>1. Divides(Ws!GRB, Off(0)) /\ Off(0) = 0
    BY OffFacts
  <2> QED
    BY <1>1, <1>3, <2>1
<1> QED
  BY <1>4, <1>5, <1>6, <1>7, <1>8 DEF WsInv

\* The queue after the pull that any cycle may do.
Left == IF Ws!Pulls THEN Tail(tx) ELSE tx

LEMMA LoadedFacts ==
  ASSUME WsInv
  PROVE  /\ StreamTypes(seen, Pending, x, Ws!Loaded, Left, put)
         /\ Stream(seen, Pending, x, Ws!Loaded, Left, put)
         /\ Len(Left) \in Nat /\ Len(Left) <= DEPTH
         /\ Len(osr) \in Nat /\ Len(Ws!Loaded) \in Nat /\ Len(Ws!Loaded) <= Ws!GRB
         /\ Len(Ws!Loaded) = Len(osr) \/ (Len(osr) = 0 /\ Len(Ws!Loaded) = Ws!GRB)
<1>1. StreamTypes(seen, Pending, x, osr, tx, put) /\ Stream(seen, Pending, x, osr, tx, put)
  BY DEF WsInv, WsTypes
<1>2. tx \in Seq(Words) /\ Len(tx) <= DEPTH /\ osr \in Seq(Bit) /\ Len(osr) <= Ws!GRB
  BY DEF WsInv, WsTypes, StreamTypes
<1>3. CASE Ws!Pulls
  <2>1. osr = <<>> /\ tx # <<>> /\ Left = Tail(tx) /\ Ws!Loaded = SubSeq(Head(tx), 1, Ws!GRB)
    BY <1>3 DEF Ws!Pulls, Left, Ws!Loaded
  <2>2. PICK v : v = Ws!Loaded
    OBVIOUS
  <2>3. /\ v \in Seq(Bit) /\ Len(v) = Ws!GRB
        /\ StreamTypes(seen, Pending, x, v, Tail(tx), put)
        /\ Stream(seen, Pending, x, v, Tail(tx), put)
    BY <1>1, <2>1, <2>2, Pulled
  <2>4. Len(Tail(tx)) = Len(tx) - 1 /\ Len(tx) \in Nat \ {0} /\ Len(osr) = 0
    BY <1>2, <2>1, HeadTailProperties
  <2> QED
    BY <1>2, <2>1, <2>2, <2>3, <2>4, WireFacts
<1>4. CASE ~ Ws!Pulls
  <2>1. Left = tx /\ Ws!Loaded = osr
    BY <1>4 DEF Left, Ws!Loaded
  <2> QED
    BY <1>1, <1>2, <2>1
<1> QED
  BY <1>3, <1>4

LEMMA WaitStep == WsInv /\ Ws!Wait => WsInv'
<1> SUFFICES ASSUME WsInv, Ws!Wait PROVE WsInv'
  OBVIOUS
<1>1. /\ delay > 0 /\ delay' = delay - 1 /\ osr' = Ws!Loaded /\ tx' = Left
      /\ pioPc' = pioPc /\ x' = x /\ pin' = pin /\ put' = put
  BY DEF Ws!Wait, Ws!Pull, Left, Ws!Listen
<1>2. /\ pin \in {0, 1} /\ high \in Nat /\ quiet \in Nat /\ quiet <= LATCH /\ delay \in Nat
      /\ pioPc \in {"bitloop", "branch", "do_one", "do_zero"} /\ LATCH \in Nat
  BY WireFacts DEF WsInv, WsTypes, Bit
<1>3. pin = 0 => high = 0
  BY <1>2 DEF WsInv, Phase
<1>4. /\ seen' = seen /\ high' = IF pin = 1 THEN high + 1 ELSE 0
      /\ quiet' = IF pin = 1 THEN 0 ELSE IF quiet < LATCH THEN quiet + 1 ELSE quiet
  BY <1>1, <1>2, <1>3 DEF Ws!Wait, Ws!Listen
<1>5. Pending' = Pending
  BY <1>1 DEF Pending
<1>6. /\ StreamTypes(seen, Pending, x, osr', tx', put) /\ Stream(seen, Pending, x, osr', tx', put)
      /\ Len(tx') <= DEPTH /\ Len(osr') <= Ws!GRB
      /\ Len(osr) \in Nat /\ Len(osr') \in Nat
      /\ Len(osr') = Len(osr) \/ (Len(osr) = 0 /\ Len(osr') = Ws!GRB)
  BY <1>1, LoadedFacts
<1>7. WsTypes'
  <2>1. delay' \in Nat /\ high' \in Nat /\ quiet' \in Nat /\ quiet' <= LATCH
    BY <1>1, <1>2, <1>4
  <2> QED
    BY <1>1, <1>2, <1>4, <1>5, <1>6, <2>1 DEF WsTypes, Bit
<1>8. Phase'
  BY <1>1, <1>2, <1>4 DEF Phase, WsInv
<1>9. Silence'
  <2>1. pin' = 1 => quiet' = 0
    BY <1>1, <1>4
  <2>2. ASSUME MidPixel', pin = 0
        PROVE  quiet' + delay' <= IF pioPc = "branch" THEN 7 ELSE 3
    <3>1. MidPixel
      <4>1. Pending = 0 => Len(osr') = Len(osr)
        BY <1>5, <1>6, <2>2 DEF MidPixel, Mid
      <4>2. Pending = 1 => 1 + Len(osr) # Ws!GRB \/ Len(osr') = Len(osr)
        BY <1>6, WireFacts
      <4>3. Pending \in {0, 1}
        BY DEF Pending
      <4> QED
        BY <1>5, <1>6, <2>2, <4>1, <4>2, <4>3 DEF MidPixel, Mid
    <3>2. quiet + delay <= IF pioPc = "branch" THEN 7 ELSE 3
      BY <2>2, <3>1 DEF WsInv, Silence
    <3> QED
      BY <1>1, <1>2, <1>4, <2>2, <3>2
  <2> QED
    BY <1>1, <2>1, <2>2 DEF Silence
<1>10. Stream(seen, Pending, x, osr, tx, put)' /\ Divides(Ws!GRB, Len(put))'
  BY <1>1, <1>4, <1>5, <1>6 DEF WsInv
<1> QED
  BY <1>7, <1>8, <1>9, <1>10 DEF WsInv

\* Where the processor falls on "bitloop", a bit still on the wire is a one, and
\* the diodes get it.
LEMMA FallsAtBitloop ==
  ASSUME WsInv, Ws!Listen, pioPc = "bitloop", delay = 0, pin' = 0
  PROVE  /\ StreamTypes(seen', 0, x, Ws!Loaded, Left, put')
         /\ Stream(seen', 0, x, Ws!Loaded, Left, put')
         /\ high' = 0 /\ put' = put /\ quiet' \in Nat /\ quiet' <= LATCH
         /\ pin = 1 => quiet' = 1
         /\ pin = 0 => Pending = 0 /\ quiet' <= quiet + 1
<1>1. /\ put' = put /\ high' = 0
      /\ quiet' = IF quiet < LATCH THEN quiet + 1 ELSE quiet
      /\ seen' = IF high > 0
                 THEN Append(seen, CASE high \in 2 .. 4 -> 0 [] high \in 5 .. 7 -> 1 [] OTHER -> 2)
                 ELSE seen
  BY DEF Ws!Listen
<1>2. /\ pin \in {0, 1} /\ quiet \in Nat /\ quiet <= LATCH /\ LATCH \in Nat /\ LATCH > 7
      /\ high \in Nat /\ x \in Bit
  BY WireFacts DEF WsInv, WsTypes, Bit, StreamTypes
<1>3. /\ StreamTypes(seen, Pending, x, Ws!Loaded, Left, put)
      /\ Stream(seen, Pending, x, Ws!Loaded, Left, put)
  BY LoadedFacts
<1>4. CASE pin = 1
  <2>1. Pending = 1 /\ x = 1 /\ high = 6 /\ quiet = 0
    BY <1>2, <1>4 DEF WsInv, Phase, Silence, Pending
  <2>2. seen' = Append(seen, x)
    BY <1>1, <2>1
  <2>3. /\ StreamTypes(Append(seen, x), 0, x, Ws!Loaded, Left, put)
        /\ Stream(Append(seen, x), 0, x, Ws!Loaded, Left, put)
    BY <1>2, <1>3, <2>1, Seen
  <2> QED
    BY <1>1, <1>2, <1>4, <2>1, <2>2, <2>3
<1>5. CASE pin = 0
  <2>1. Pending = 0 /\ high = 0
    BY <1>5 DEF WsInv, Phase, Pending
  <2>2. seen' = seen
    BY <1>1, <2>1
  <2> QED
    BY <1>1, <1>2, <1>3, <1>5, <2>1, <2>2
<1> QED
  BY <1>2, <1>4, <1>5

LEMMA OutStep == WsInv /\ Ws!Out => WsInv'
<1> SUFFICES ASSUME WsInv, Ws!Out PROVE WsInv'
  OBVIOUS
<1>1. /\ delay = 0 /\ pioPc = "bitloop" /\ Ws!Loaded # <<>>
      /\ x' = Head(Ws!Loaded) /\ osr' = Tail(Ws!Loaded) /\ tx' = Left
      /\ pioPc' = "branch" /\ pin' = 0 /\ delay' = 3
      /\ Ws!Listen
  BY DEF Ws!Out, Ws!Pull, Left, Ws!T3
<1>2. /\ StreamTypes(seen', 0, x, Ws!Loaded, Left, put')
      /\ Stream(seen', 0, x, Ws!Loaded, Left, put')
      /\ high' = 0 /\ put' = put /\ quiet' \in Nat /\ quiet' <= LATCH
      /\ pin = 1 => quiet' = 1
      /\ pin = 0 => Pending = 0 /\ quiet' <= quiet + 1
  BY <1>1, FallsAtBitloop
<1>3. /\ StreamTypes(seen', 1, x', osr', tx', put') /\ Stream(seen', 1, x', osr', tx', put')
      /\ Len(Ws!Loaded) \in Nat \ {0} /\ Len(osr') = Len(Ws!Loaded) - 1
  BY <1>1, <1>2, Shifted
<1>4. Pending' = 1
  BY <1>1 DEF Pending
<1>5. /\ Len(tx') <= DEPTH /\ Len(osr) \in Nat /\ Len(Ws!Loaded) <= Ws!GRB
      /\ Len(Ws!Loaded) = Len(osr) \/ (Len(osr) = 0 /\ Len(Ws!Loaded) = Ws!GRB)
  BY <1>1, LoadedFacts
<1>6. Len(osr') \in Nat /\ Len(osr') <= Ws!GRB /\ 1 + Len(osr') = Len(Ws!Loaded)
  BY <1>3, <1>5, WireFacts
<1>7. WsTypes'
  BY <1>1, <1>2, <1>3, <1>4, <1>5, <1>6 DEF WsTypes, Bit
<1>8. Phase'
  BY <1>1, <1>2 DEF Phase
<1>9. Silence'
  <2>1. ASSUME MidPixel' PROVE quiet' + delay' <= 7
    <3>1. Len(Ws!Loaded) # Ws!GRB /\ Len(osr) = Len(Ws!Loaded) /\ Len(osr) # 0
      BY <1>3, <1>4, <1>5, <1>6, <2>1 DEF MidPixel, Mid
    <3>2. CASE pin = 0
      <4>1. MidPixel
        BY <1>2, <1>5, <3>1, <3>2 DEF MidPixel, Mid
      <4>2. quiet + delay <= 3 /\ quiet \in Nat
        BY <1>1, <3>2, <4>1 DEF WsInv, Silence, WsTypes
      <4>3. delay = 0 /\ delay' = 3
        BY <1>1
      <4>4. quiet' <= quiet + 1 /\ quiet' \in Nat
        BY <1>2, <3>2
      <4>5. PICK k \in Nat, l \in Nat : k = quiet /\ l = quiet'
        BY <4>2, <4>4, Zenon
      <4>6. k + 0 <= 3 /\ l <= k + 1 => l + 3 <= 7
        OBVIOUS
      <4> QED
        BY <4>2, <4>3, <4>4, <4>5, <4>6, Zenon
    <3>3. CASE pin = 1
      BY <1>1, <1>2, <3>3
    <3> QED
      BY <3>2, <3>3 DEF WsInv, WsTypes, Bit
  <2> QED
    BY <1>1, <2>1 DEF Silence
<1>10. Stream(seen, Pending, x, osr, tx, put)' /\ Divides(Ws!GRB, Len(put))'
  BY <1>2, <1>3, <1>4 DEF WsInv
<1> QED
  BY <1>7, <1>8, <1>9, <1>10 DEF WsInv

LEMMA StallStep == WsInv /\ Ws!Stall => WsInv'
<1> SUFFICES ASSUME WsInv, Ws!Stall PROVE WsInv'
  OBVIOUS
<1>1. /\ delay = 0 /\ pioPc = "bitloop" /\ Ws!Loaded = <<>> /\ pin' = 0
      /\ tx' = tx /\ osr' = osr /\ pioPc' = pioPc /\ x' = x /\ delay' = delay /\ Ws!Listen
  BY DEF Ws!Stall
<1>2. /\ StreamTypes(seen', 0, x, Ws!Loaded, Left, put')
      /\ Stream(seen', 0, x, Ws!Loaded, Left, put')
      /\ high' = 0 /\ put' = put /\ quiet' \in Nat /\ quiet' <= LATCH
  BY <1>1, FallsAtBitloop
<1>3. osr = <<>> /\ Left = tx
  <2>1. Len(Ws!Loaded) = 0
    BY <1>1
  <2>2. ~ Ws!Pulls
    <3>1. SUFFICES ASSUME Ws!Pulls PROVE FALSE
      OBVIOUS
    <3>2. osr = <<>> /\ tx # <<>> /\ Ws!Loaded = SubSeq(Head(tx), 1, Ws!GRB)
      BY <3>1 DEF Ws!Pulls, Ws!Loaded
    <3>3. PICK v : v = Ws!Loaded
      OBVIOUS
    <3>4. Len(v) = Ws!GRB
      BY <3>2, <3>3, Pulled DEF WsInv, WsTypes
    <3> QED
      BY <2>1, <3>3, <3>4, WireFacts
  <2> QED
    BY <1>1, <2>2 DEF Ws!Loaded, Left
<1>4. Pending' = 0 /\ Len(osr') = 0
  BY <1>1, <1>3 DEF Pending
<1>5. StreamTypes(seen', 0, x', osr', tx', put') /\ Stream(seen', 0, x', osr', tx', put')
  BY <1>1, <1>2, <1>3
<1>6. WsTypes'
  <2>1. Len(tx) <= DEPTH /\ 0 <= Ws!GRB
    BY WireFacts DEF WsInv, WsTypes
  <2> QED
    BY <1>1, <1>2, <1>4, <1>5, <2>1 DEF WsTypes, Bit
<1>7. Phase'
  BY <1>1, <1>2 DEF Phase
<1>8. Silence'
  BY <1>1, <1>4 DEF Silence, MidPixel, Mid
<1>9. Stream(seen, Pending, x, osr, tx, put)' /\ Divides(Ws!GRB, Len(put))'
  BY <1>2, <1>4, <1>5 DEF WsInv
<1> QED
  BY <1>6, <1>7, <1>8, <1>9 DEF WsInv

\* A one and the start of any bit: the wire is high.
LEMMA RiseStep == WsInv /\ (Ws!Branch \/ Ws!DoOne) => WsInv'
<1> SUFFICES ASSUME WsInv, Ws!Branch \/ Ws!DoOne PROVE WsInv'
  OBVIOUS
<1>1. /\ delay = 0 /\ pin' = 1 /\ delay' = 2 /\ x' = x /\ osr' = Ws!Loaded /\ tx' = Left
      /\ \/ pioPc = "branch" /\ pioPc' = IF x = 0 THEN "do_zero" ELSE "do_one"
         \/ pioPc = "do_one" /\ pioPc' = "bitloop"
      /\ Ws!Listen
  BY DEF Ws!Branch, Ws!DoOne, Ws!Pull, Left, Ws!T1, Ws!T2
<1>2. put' = put /\ high' = high + 1 /\ quiet' = 0 /\ seen' = seen
  BY <1>1 DEF Ws!Listen
<1>3. high \in Nat /\ x \in {0, 1} /\ LATCH \in Nat
  BY WireFacts DEF WsInv, WsTypes, Bit, StreamTypes
<1>4. Pending' = 1 /\ Pending = 1
  BY <1>1 DEF Pending
<1>5. /\ StreamTypes(seen, 1, x, osr', tx', put) /\ Stream(seen, 1, x, osr', tx', put)
      /\ Len(tx') <= DEPTH /\ Len(osr') <= Ws!GRB
  BY <1>1, <1>4, LoadedFacts
<1>6. WsTypes'
  BY <1>1, <1>2, <1>3, <1>4, <1>5 DEF WsTypes, Bit
<1>7. Phase'
  BY <1>1, <1>2, <1>3 DEF Phase, WsInv
<1>8. Silence'
  BY <1>1, <1>2 DEF Silence
<1>9. Stream(seen, Pending, x, osr, tx, put)' /\ Divides(Ws!GRB, Len(put))'
  BY <1>1, <1>2, <1>4, <1>5 DEF WsInv
<1> QED
  BY <1>6, <1>7, <1>8, <1>9 DEF WsInv

\* The end of a zero: the diodes get it.
LEMMA DoZeroStep == WsInv /\ Ws!DoZero => WsInv'
<1> SUFFICES ASSUME WsInv, Ws!DoZero PROVE WsInv'
  OBVIOUS
<1>1. /\ delay = 0 /\ pioPc = "do_zero" /\ pin' = 0 /\ delay' = 2 /\ x' = x
      /\ osr' = Ws!Loaded /\ tx' = Left /\ pioPc' = "bitloop" /\ Ws!Listen
  BY DEF Ws!DoZero, Ws!Pull, Left, Ws!T2
<1>2. /\ x \in {0, 1} /\ LATCH \in Nat /\ LATCH > 7 /\ pin = 1 /\ high = 3 /\ quiet = 0 /\ x = 0
  BY <1>1, WireFacts DEF WsInv, WsTypes, Bit, StreamTypes, Phase, Silence
<1>3. put' = put /\ high' = 0 /\ quiet' = 1 /\ seen' = Append(seen, x)
  BY <1>1, <1>2 DEF Ws!Listen
<1>4. Pending' = 0 /\ Pending = 1
  BY <1>1 DEF Pending
<1>5. /\ StreamTypes(seen, 1, x, osr', tx', put) /\ Stream(seen, 1, x, osr', tx', put)
      /\ Len(tx') <= DEPTH /\ Len(osr') <= Ws!GRB
  BY <1>1, <1>4, LoadedFacts
<1>6. x \in Bit
  BY <1>2 DEF Bit
<1>7. StreamTypes(seen', 0, x, osr', tx', put) /\ Stream(seen', 0, x, osr', tx', put)
  BY <1>3, <1>5, <1>6, Seen
<1>8. WsTypes'
  BY <1>1, <1>2, <1>3, <1>4, <1>5, <1>7 DEF WsTypes, Bit
<1>9. Phase'
  BY <1>1, <1>2, <1>3 DEF Phase
<1>10. Silence'
  BY <1>1, <1>3 DEF Silence
<1>11. Stream(seen, Pending, x, osr, tx, put)' /\ Divides(Ws!GRB, Len(put))'
  BY <1>1, <1>3, <1>4, <1>7 DEF WsInv
<1> QED
  BY <1>8, <1>9, <1>10, <1>11 DEF WsInv

\* The bits of s, then those of t.
Joins(s, t, m, n) ==
  /\ s \o t \in Seq(Bit) /\ Len(s \o t) = m + n
  /\ \A k \in 1 .. m : (s \o t)[k] = s[k]
  /\ \A k \in 1 .. n : (s \o t)[m + k] = t[k]

LEMMA BitsJoined ==
  ASSUME NEW s \in Seq(Bit), NEW t \in Seq(Bit), NEW m, m = Len(s), NEW n, n = Len(t)
  PROVE  Joins(s, t, m, n)
BY DEF Joins

LEMMA BitsAssociative ==
  ASSUME NEW s \in Seq(Bit), NEW t \in Seq(Bit), NEW u \in Seq(Bit)
  PROVE  (s \o t) \o u = s \o (t \o u)
OBVIOUS

\* A component's bits; those of a pixel; and its word before the shift.
ByteBits == {s \in Seq(Bit) : Len(s) = BYTE}
Pixel(g, r, e) == (g \o r) \o e
Word(z, g, r, e) == ((z \o g) \o r) \o e

LEMMA BitsAfter ==
  ASSUME NEW X, NEW s \in Seq(X), NEW m \in Nat, NEW n \in Nat, Len(s) = m + n
  PROVE  /\ SubSeq(s, m + 1, m + n) \in Seq(X) /\ Len(SubSeq(s, m + 1, m + n)) = n
         /\ \A k \in 1 .. n : SubSeq(s, m + 1, m + n)[k] = s[m + k]
<1>1. SubSeq(s, m + 1, m + n) = [k \in 1 .. n |-> s[m + k]]
  OBVIOUS
<1>2. Len(SubSeq(s, m + 1, m + n)) = n
  BY <1>1
<1>3. SubSeq(s, m + 1, m + n) \in Seq(X)
  OBVIOUS
<1> QED
  BY <1>1, <1>2, <1>3, Zenon

LEMMA WordFacts ==
  ASSUME NEW g \in ByteBits, NEW r \in ByteBits, NEW e \in ByteBits, NEW z \in ByteBits,
         NEW u \in Seq(Bit)
  PROVE  /\ Pixel(g, r, e) \in Seq(Bit) /\ Len(Pixel(g, r, e)) = Ws!GRB
         /\ Word(u, g, r, e) = u \o Pixel(g, r, e)
         /\ SubSeq(Word(z, g, r, e), BYTE + 1, Len(Word(z, g, r, e))) = Pixel(g, r, e)
<1>0. /\ g \in Seq(Bit) /\ r \in Seq(Bit) /\ e \in Seq(Bit) /\ z \in Seq(Bit)
      /\ Len(g) = BYTE /\ Len(r) = BYTE /\ Len(e) = BYTE /\ Len(z) = BYTE /\ BYTE \in Nat
      /\ (BYTE + BYTE) + BYTE = Ws!GRB /\ Ws!GRB \in Nat
  BY WireFacts DEF ByteBits
<1>1. g \o r \in Seq(Bit) /\ Len(g \o r) = BYTE + BYTE
  BY <1>0, BitsJoined DEF Joins
<1> DEFINE p == Pixel(g, r, e)  a == Word(z, g, r, e)
<1>2. p \in Seq(Bit) /\ Len(p) = Ws!GRB
  <2>1. Joins(g \o r, e, BYTE + BYTE, BYTE)
    BY <1>0, <1>1, BitsJoined, Zenon
  <2> QED
    BY <1>0, <2>1, Zenon DEF Joins, Pixel
<1>3. ASSUME NEW v \in Seq(Bit) PROVE Word(v, g, r, e) = v \o p
  <2>1. (v \o g) \o r = v \o (g \o r)
    BY <1>0, BitsAssociative
  <2>2. g \o r \in Seq(Bit) /\ e \in Seq(Bit)
    BY <1>0, <1>1, Zenon
  <2>3. (v \o (g \o r)) \o e = v \o ((g \o r) \o e)
    BY ONLY v \in Seq(Bit), <2>2, BitsAssociative, Zenon
  <2> QED
    BY <2>1, <2>3, Zenon DEF Word, Pixel
<1> HIDE DEF p, a
<1>4. a = z \o p
  BY <1>0, <1>3, Zenon DEF a
<1>5. /\ a \in Seq(Bit) /\ Len(a) = BYTE + Ws!GRB
      /\ \A k \in 1 .. Ws!GRB : a[BYTE + k] = p[k]
  <2>1. Joins(z, p, BYTE, Ws!GRB)
    BY <1>0, <1>2, BitsJoined, Zenon
  <2> QED
    BY <1>4, <2>1, Zenon DEF Joins
<1>6. SubSeq(a, BYTE + 1, Len(a)) = p
  <2> DEFINE v == SubSeq(a, BYTE + 1, BYTE + Ws!GRB)
  <2>1. v \in Seq(Bit) /\ Len(v) = Ws!GRB /\ \A k \in 1 .. Ws!GRB : v[k] = a[BYTE + k]
    BY <1>0, <1>5, BitsAfter
  <2> HIDE DEF v
  <2>2. \A k \in 1 .. Ws!GRB : v[k] = p[k]
    BY <1>5, <2>1, Zenon
  <2>3. v = p
    BY <1>2, <2>1, <2>2, SeqEqual, Zenon
  <2> QED
    BY <1>5, <2>3, Zenon DEF v
<1> QED
  BY <1>2, <1>3, <1>6, Zenon DEF p, a

\* The word put holds the 24 bits of its pixel, and zeros; those it holds are the
\* bits added to the history.
LEMMA PixelFacts ==
  ASSUME NEW c \in Colours, NEW u \in Seq(Bit)
  PROVE  \E w \in Words, y \in Seq(Bit) :
           /\ w = Ws!ShiftedLeft(Ws!urgb_u32(c)) /\ y = u \o c.g \o c.r \o c.b
           /\ Len(u) \in Nat /\ Len(y) = Len(u) + Ws!GRB
           /\ \A k \in 1 .. Len(u) : y[k] = u[k]
           /\ \A k \in 1 .. Ws!GRB : y[Len(u) + k] = w[k]
<1> DEFINE r == c.r  g == c.g  e == c.b  z == [k \in 1 .. BYTE |-> 0]
           p == Pixel(g, r, e)  a == Word(z, g, r, e)
<1>1. \A f \in [1 .. BYTE -> Bit] : f \in ByteBits
  BY WireFacts DEF ByteBits
<1>2. r \in [1 .. BYTE -> Bit] /\ g \in [1 .. BYTE -> Bit] /\ e \in [1 .. BYTE -> Bit]
  BY WireFacts
<1>3. z \in [1 .. BYTE -> Bit]
  BY DEF Bit
<1>4. u \o c.g \o c.r \o c.b = Word(u, g, r, e)
  BY DEF Word
<1>5. Ws!urgb_u32(c) = a
  BY DEF Ws!urgb_u32, Word
<1>6. Ws!ShiftedLeft(a) = SubSeq(a, BYTE + 1, Len(a)) \o z
  BY DEF Ws!ShiftedLeft
<1> HIDE DEF r, g, e, z
<1>7. r \in ByteBits /\ g \in ByteBits /\ e \in ByteBits /\ z \in ByteBits
  BY <1>1, <1>2, <1>3, Zenon
<1>8. /\ p \in Seq(Bit) /\ Len(p) = Ws!GRB /\ Word(u, g, r, e) = u \o p
      /\ SubSeq(a, BYTE + 1, Len(a)) = p
  BY <1>7, WordFacts
<1> HIDE DEF p, a
<1>9. Ws!ShiftedLeft(Ws!urgb_u32(c)) = p \o z
  BY <1>5, <1>6, <1>8, Zenon
<1>10. /\ p \o z \in Seq(Bit) /\ Len(p \o z) = Ws!GRB + BYTE
       /\ \A k \in 1 .. Ws!GRB : (p \o z)[k] = p[k]
  <2>1. Len(z) = BYTE /\ z \in Seq(Bit)
    BY <1>7 DEF ByteBits
  <2>2. Joins(p, z, Ws!GRB, BYTE)
    BY <1>8, <2>1, BitsJoined, Zenon
  <2> QED
    BY <2>2, Zenon DEF Joins
<1>11. /\ u \o p \in Seq(Bit) /\ Len(u) \in Nat /\ Len(u \o p) = Len(u) + Ws!GRB
       /\ \A k \in 1 .. Len(u) : (u \o p)[k] = u[k]
       /\ \A k \in 1 .. Ws!GRB : (u \o p)[Len(u) + k] = p[k]
  <2>1. Joins(u, p, Len(u), Ws!GRB)
    BY <1>8, BitsJoined, Zenon
  <2>2. Len(u) \in Nat
    OBVIOUS
  <2> QED
    BY <2>1, <2>2, Zenon DEF Joins
<1>12. p \o z \in Words
  BY <1>10 DEF Words
<1>13. \A k \in 1 .. Ws!GRB : (u \o p)[Len(u) + k] = (p \o z)[k]
  BY <1>10, <1>11, Zenon
<1>14. u \o c.g \o c.r \o c.b = u \o p
  BY <1>4, <1>8, Zenon
<1> QED
  BY <1>9, <1>11, <1>12, <1>13, <1>14, Zenon

LEMMA PutStep == WsInv /\ Ws!put_pixel => WsInv'
<1> SUFFICES ASSUME WsInv, Ws!put_pixel PROVE WsInv'
  OBVIOUS
<1>1. PICK c \in Colours : /\ tx' = Append(tx, Ws!ShiftedLeft(Ws!urgb_u32(c)))
                           /\ put' = put \o c.g \o c.r \o c.b
  BY DEF Ws!put_pixel
<1>2. /\ Len(tx) < DEPTH /\ osr' = osr /\ pioPc' = pioPc /\ x' = x /\ delay' = delay /\ pin' = pin
      /\ high' = high /\ quiet' = quiet /\ seen' = seen
  BY DEF Ws!put_pixel
<1>3. /\ StreamTypes(seen, Pending, x, osr, tx, put) /\ Stream(seen, Pending, x, osr, tx, put)
      /\ tx \in Seq(Words) /\ put \in Seq(Bit)
  BY DEF WsInv, WsTypes, StreamTypes
<1>4. PICK w \in Words, y \in Seq(Bit) :
        /\ w = Ws!ShiftedLeft(Ws!urgb_u32(c)) /\ y = put \o c.g \o c.r \o c.b
        /\ Len(put) \in Nat /\ Len(y) = Len(put) + Ws!GRB
        /\ \A k \in 1 .. Len(put) : y[k] = put[k]
        /\ \A k \in 1 .. Ws!GRB : y[Len(put) + k] = w[k]
  BY <1>3, PixelFacts
<1>5. Pending' = Pending
  BY <1>2 DEF Pending
<1>6. /\ StreamTypes(seen, Pending, x, osr, Append(tx, w), y)
      /\ Stream(seen, Pending, x, osr, Append(tx, w), y)
  BY <1>3, <1>4, Pushed
<1>7. Len(tx') <= DEPTH
  <2>1. Len(Append(tx, w)) = Len(tx) + 1 /\ Len(tx) \in Nat
    BY <1>3, AppendProperties
  <2> QED
    BY <1>1, <1>2, <1>4, <2>1, WireFacts
<1>8. WsTypes'
  BY <1>1, <1>2, <1>4, <1>5, <1>6, <1>7 DEF WsTypes, WsInv
<1>9. Phase' /\ Silence'
  BY <1>2, <1>5 DEF WsInv, Phase, Silence, MidPixel
<1>10. Stream(seen, Pending, x, osr, tx, put)'
  BY <1>1, <1>2, <1>4, <1>5, <1>6
<1>11. Divides(Ws!GRB, Len(put'))
  <2>1. Divides(Ws!GRB, Ws!GRB) /\ Divides(Ws!GRB, Len(put)) /\ Ws!GRB \in Nat \ {0}
    <3>1. Divides(Ws!GRB, Off(1)) /\ Off(1) = Off(0) + Ws!GRB /\ Off(0) = 0
      <4>1. 0 \in Nat /\ 0 + 1 = 1 /\ 1 \in Nat
        OBVIOUS
      <4> QED
        BY <4>1, OffFacts
    <3> QED
      BY <3>1, WireFacts DEF WsInv
  <2> QED
    BY <1>1, <1>4, <2>1, MultipleSum
<1> QED
  BY <1>8, <1>9, <1>10, <1>11 DEF WsInv

\* Every cycle keeps the account of the bits.
LEMMA WsStep == WsInv /\ [Ws!Next]_(Ws!vars) => WsInv'
<1>1. ASSUME WsInv, UNCHANGED Ws!vars PROVE WsInv'
  BY <1>1
  DEF Ws!vars, WsInv, WsTypes, Phase, Silence, MidPixel, Pending
<1> QED
  BY <1>1, PutStep, WaitStep, OutStep, StallStep, RiseStep, DoZeroStep DEF Ws!Next

LEMMA WsAlways == BoardSpec => []WsInv
<1>1. BoardInit => WsInv
  BY DevicesStart, WsStart
<1>2. WsInv /\ [BoardNext]_boardVars => WsInv'
  BY DeviceSteps, WsStep
<1> QED
  BY <1>1, <1>2, PTL DEF BoardSpec

\* A silence long enough to end a picture falls between two pixels.
LEMMA SilenceEndsPixel == WsInv /\ quiet = LATCH => Divides(Ws!GRB, Len(seen))
<1> SUFFICES ASSUME WsInv, quiet = LATCH PROVE Divides(Ws!GRB, Len(seen))
  OBVIOUS
<1>1. /\ Pending \in 0 .. 1 /\ Len(osr) \in Nat /\ Len(seen) \in Nat /\ Len(tx) \in Nat
      /\ Len(put) \in Nat /\ pin \in {0, 1} /\ delay \in Nat
  BY DEF WsInv, WsTypes, StreamTypes, Bit
<1>2. LATCH > 7 /\ LATCH \in Nat /\ Ws!GRB \in Nat \ {0}
  BY WireFacts
<1>3. ~ MidPixel
  <2>1. pin = 0
    BY <1>1, <1>2 DEF WsInv, Silence
  <2>2. MidPixel => quiet + delay <= 7
    BY <2>1, <1>1 DEF WsInv, Silence, WsTypes
  <2> QED
    BY <1>1, <1>2, <2>2
<1>4. Divides(Ws!GRB, Off(Len(tx))) /\ Off(Len(tx)) \in Nat /\ Divides(Ws!GRB, Len(put))
  BY <1>1, OffFacts DEF WsInv
<1>5. Len(put) = (Len(seen) + Pending + Len(osr)) + Off(Len(tx))
  BY DEF WsInv, Stream, AllThere
<1>6. PICK n \in Int : n = Len(put) - Off(Len(tx)) /\ Divides(Ws!GRB, n)
  BY <1>1, <1>2, <1>4, MultipleSum
<1>7. CASE Pending + Len(osr) = 0
  <2>1. n = Len(seen)
    <3>1. PICK a \in Int, b \in Int, c \in Int, d \in Int, f \in Int :
            a = Len(put) /\ b = Len(seen) /\ c = Pending /\ d = Len(osr) /\ f = Off(Len(tx))
      BY <1>1, <1>4
    <3> QED
      BY <1>5, <1>6, <1>7, <3>1, SMTT(30)
  <2> QED
    BY <1>6, <2>1
<1>8. CASE Pending + Len(osr) = Ws!GRB
  <2>1. Len(seen) = n - Ws!GRB
    BY <1>1, <1>2, <1>4, <1>5, <1>6, <1>8, SMTT(30)
  <2>2. Divides(Ws!GRB, Ws!GRB)
    <3>1. 0 \in Nat /\ 0 + 1 = 1 /\ 1 \in Nat
      OBVIOUS
    <3>2. Divides(Ws!GRB, Off(1)) /\ Off(1) = Off(0) + Ws!GRB /\ Off(0) = 0
      BY <3>1, OffFacts
    <3> QED
      BY <1>2, <3>2
  <2> QED
    BY <1>2, <1>6, <2>1, <2>2, MultipleSum
<1> QED
  BY <1>3, <1>7, <1>8 DEF MidPixel, Mid

LEMMA SeenIsPrefix == WsInv => Ws!IsPrefix(seen, put)
<1> SUFFICES ASSUME WsInv PROVE Ws!IsPrefix(seen, put)
  OBVIOUS
<1>1. PICK m \in Nat, n \in Nat : m = Len(seen) /\ Len(put) = m + n
  <2>1. /\ Pending \in Nat /\ Len(osr) \in Nat /\ Len(seen) \in Nat /\ Off(Len(tx)) \in Nat
        /\ Len(put) = ((Len(seen) + Pending) + Len(osr)) + Off(Len(tx))
    <3>1. /\ osr \in Seq(Bit) /\ seen \in Seq(Bit) /\ tx \in Seq(Words)
          /\ Len(put) = ((Len(seen) + Pending) + Len(osr)) + Off(Len(tx))
      BY Zenon DEF WsInv, WsTypes, StreamTypes, Stream, AllThere
    <3>2. Pending \in Nat /\ Len(osr) \in Nat /\ Len(seen) \in Nat /\ Len(tx) \in Nat
      BY <3>1 DEF Pending
    <3> QED
      BY <3>1, <3>2, OffFacts, Zenon
  <2>2. PICK m \in Nat, k \in Nat, l \in Nat, h \in Nat :
          m = Len(seen) /\ k = Pending /\ l = Len(osr) /\ h = Off(Len(tx))
    BY <2>1, Zenon
  <2>3. PICK n \in Nat : ((m + k) + l) + h = m + n
    OBVIOUS
  <2> QED
    BY <2>1, <2>2, <2>3, Zenon
<1>2. seen \in Seq(Bit) /\ put \in Seq(Bit) /\ \A k \in 1 .. m : put[k] = seen[k]
  BY <1>1 DEF WsInv, WsTypes, StreamTypes, Stream, Received
<1>3. /\ SubSeq(put, 1, m) \in Seq(Bit) /\ Len(SubSeq(put, 1, m)) = m
      /\ \A k \in 1 .. m : SubSeq(put, 1, m)[k] = put[k]
  BY <1>1, <1>2
<1>4. SubSeq(put, 1, m) = seen
  BY <1>1, <1>2, <1>3, SeqEqual
<1>5. SubSeq(seen, 1, m) = seen
  BY <1>1, <1>2, SubSeqFull
<1>6. Len(seen) <= Len(put)
  BY <1>1
<1> QED
  BY <1>1, <1>4, <1>5, <1>6 DEF Ws!IsPrefix

\* For every order of pixels put and cycles run, the diodes have received a prefix
\* of the bits put, and no silence that ends a picture falls into a pixel.
THEOREM BitsGetThere == BoardSpec => []BitsArrive
<1>1. WsInv => BitsArrive
  BY SilenceEndsPixel, SeenIsPrefix DEF BitsArrive, Ws!BitsArrive, Divides
<1> QED
  BY <1>1, WsAlways, PTL

-----------------------------------------------------------------------------
(* The accounts imply the types the modules state.                         *)

LEMMA OledTyped == OledInv => Oled!TypeOK
<1> SUFFICES ASSUME OledInv PROVE Oled!TypeOK
  OBVIOUS
<1>1. regs \in Oled!Registers
  BY RegistersFact DEF OledInv, OledTypes
<1>2. /\ glass \in Oled!Garbled .. MaxDrawings /\ drawing \in 0 .. MaxDrawings
      /\ losses \in 0 .. MaxLosses /\ calm \in 0 .. 2 /\ shown \in 0 .. 6
      /\ halved \in BOOLEAN /\ broken \in BOOLEAN
  BY Zenon DEF OledInv, OledTypes
<1>3. Len(Oled!Payload) = 6
  BY PayloadFacts
<1> QED
  BY <1>1, <1>2, <1>3, Zenon DEF Oled!TypeOK

LEMMA WsTyped == WsInv => Ws!TypeOK
<1> SUFFICES ASSUME WsInv PROVE Ws!TypeOK
  OBVIOUS
<1>1. WsTypes /\ Phase
  BY DEF WsInv
<1>2. /\ tx \in Seq(Words) /\ osr \in Seq(Bit) /\ x \in Bit /\ seen \in Seq(Bit)
      /\ put \in Seq(Bit) /\ Len(tx) <= DEPTH /\ Len(osr) <= Ws!GRB /\ pin \in Bit
      /\ pioPc \in {"bitloop", "branch", "do_one", "do_zero"}
      /\ delay \in Nat /\ high \in Nat /\ quiet \in Nat /\ quiet <= LATCH
  BY <1>1, Zenon DEF WsTypes, StreamTypes
<1>3. tx \in Seq(Seq(0 .. 1))
  <2>1. Words \subseteq Seq(0 .. 1)
    BY DEF Words, Bit
  <2> QED
    BY <1>2, <2>1, SeqMonotonic, Zenon
<1>4. seen \in Seq(0 .. 2)
  <2>1. Bit \subseteq 0 .. 2
    BY DEF Bit
  <2> QED
    BY <1>2, <2>1, SeqMonotonic, Zenon
<1>5. osr \in Ws!Bits(Ws!GRB)
  <2>1. Len(osr) \in 0 .. Ws!GRB /\ osr \in [1 .. Len(osr) -> 0 .. 1]
    BY <1>2, WireFacts DEF Bit
  <2> QED
    BY <2>1, Zenon DEF Ws!Bits
<1>6. delay \in 0 .. Ws!T3 - 1 /\ high \in 0 .. Ws!T1 + Ws!T2
  BY <1>1, <1>2 DEF Phase, Bit, Ws!T1, Ws!T2, Ws!T3
<1>7. quiet \in 0 .. LATCH
  BY <1>2, WireFacts
<1> QED
  BY <1>2, <1>3, <1>4, <1>5, <1>6, <1>7, Zenon DEF Ws!TypeOK, Bit
=============================================================================
