---------------------------- MODULE ParserProofs ----------------------------
(***************************************************************************)
(* The parsers of addresses and prefixes, for texts of every length: the   *)
(* scanning loops take exactly the grammar of TextGrammar and give the     *)
(* values it gives.  Nothing here is about a program that calls them.      *)
(***************************************************************************)
EXTENDS TextCalls, FiniteSetTheorems, SequenceTheorems, TLAPS

\* The lemmas about prefixes and ranges in the two widths of the library.
S4 == INSTANCE SpanProofs WITH ByteBits <- 8, AddrLen <- 4
S6 == INSTANCE SpanProofs WITH ByteBits <- 8, AddrLen <- 16

----------------------------------------------------------------------------
(* Loops and tokens.                                                       *)

\* What starts a loop and what every round makes of it are of one type.
LEMMA LoopType ==
  ASSUME NEW n \in Nat, NEW D, NEW f, f[0] \in D,
         \A k \in 1 .. n : f[k - 1] \in D => f[k] \in D
  PROVE  \A k \in 0 .. n : f[k] \in D
<1> DEFINE S == {k \in 0 .. n : f[k] \in D}
<1>1. 0 \in S /\ \A k \in 1 .. n : k - 1 \in S => k \in S
  OBVIOUS
<1>2. 0 .. n \subseteq S
  <2> HIDE DEF S
  <2> QED BY <1>1, S4!RoundByRound
<1> QED BY <1>2

\* A loop whose rounds are given as a function has a result.
IsStep(step, n, D) == step \in [(1 .. n) \X D -> D]

LEMMA LoopResult ==
  ASSUME NEW n \in Nat, NEW D, NEW first \in D, NEW step, IsStep(step, n, D)
  PROVE  \E f : S4!IsLoop(f, n, D, first, step)
<1>1. S4!IsLoop(S4!Loop(n, D, first, step), n, D, first, step)
  BY S4!LoopExists DEF IsStep
<1> QED BY <1>1

\* The digits of a token: quotients of its value, the last one zero.
LEMMA QuotientsAre ==
  ASSUME NEW x, x.v \in Nat, x.w \in Nat
  PROVE  /\ Quotients(x) = [k \in 0 .. x.w |-> Quotients(x)[k]]
         /\ \A k \in 0 .. x.w : Quotients(x)[k] \in Nat
         /\ Quotients(x)[0] = x.v
         /\ \A k \in 1 .. x.w : Quotients(x)[k] = Quotients(x)[k - 1] \div 16
<1> DEFINE n == x.w
           step == [e \in (1 .. n) \X Nat |-> e[2] \div 16]
           IsIt(f) == f = [k \in 0 .. n |-> IF k = 0 THEN x.v ELSE f[k - 1] \div 16]
<1>1. IsStep(step, n, Nat) /\ n \in Nat /\ x.v \in Nat
  BY DEF IsStep
<1>2. PICK f : S4!IsLoop(f, n, Nat, x.v, step)
  <2> HIDE DEF step, n
  <2> QED BY <1>1, LoopResult
<1>3. IsIt(f)
  <2>1. /\ f \in [0 .. n -> Nat]
        /\ f[0] = x.v
        /\ \A k \in 1 .. n : f[k] = step[<<k, f[k - 1]>>]
    BY <1>2 DEF S4!IsLoop
  <2>2. \A k \in 1 .. n : f[k - 1] \in Nat
    BY <2>1
  <2>3. \A k \in 1 .. n : f[k] = f[k - 1] \div 16
    BY <2>1, <2>2
  <2> HIDE DEF step
  <2> QED BY <2>1, <2>3
<1>4. IsIt(Quotients(x))
  <2> HIDE DEF step
  <2> QED BY <1>3 DEF Quotients
<1>5. \A k \in 1 .. n : Quotients(x)[k] = Quotients(x)[k - 1] \div 16
  <2> HIDE DEF step
  <2> QED BY <1>4
<1>6. Quotients(x)[0] = x.v /\ Quotients(x) = [k \in 0 .. x.w |-> Quotients(x)[k]]
  <2> HIDE DEF step
  <2> QED BY <1>4
<1>7. \A k \in 0 .. n : Quotients(x)[k] \in Nat
  <2>1. \A k \in 1 .. n : Quotients(x)[k - 1] \in Nat => Quotients(x)[k] \in Nat
    BY <1>5
  <2> QED BY <1>6, <2>1, LoopType
<1> HIDE DEF n, step
<1> QED BY <1>5, <1>6, <1>7 DEF n

LEMMA NibbleIs ==
  ASSUME NEW x \in Token, NEW k \in 0 .. x.w
  PROVE  Nibble(x, k) \in 0 .. 15
<1>1. x.v \in Nat /\ x.w \in Nat
  BY DEF Token
<1>2. Quotients(x)[k] \in Nat
  BY <1>1, QuotientsAre
<1> QED BY <1>2 DEF Nibble

\* The decimal value of a token grows digit by digit from the left.
LEMMA DecValueIs ==
  ASSUME NEW x \in Token
  PROVE  \E f : /\ f[0] = 0
                /\ \A n \in 0 .. x.w : f[n] \in Nat
                /\ \A n \in 1 .. x.w : f[n] = f[n - 1] * 10 + Nibble(x, x.w - n)
                /\ DecValue(x) = f[x.w]
<1> DEFINE w == x.w
           step == [e \in (1 .. w) \X Nat |-> e[2] * 10 + Nibble(x, w - e[1])]
           IsIt(f) == f = [n \in 0 .. w |-> IF n = 0 THEN 0
                                            ELSE f[n - 1] * 10 + Nibble(x, w - n)]
           value == CHOOSE f : IsIt(f)
<1>1. w \in Nat /\ 0 \in Nat /\ \A n \in 1 .. w : Nibble(x, w - n) \in Nat
  <2>1. w \in Nat
    BY DEF Token
  <2>2. \A n \in 1 .. w : w - n \in 0 .. w
    BY <2>1
  <2>3. \A n \in 1 .. w : Nibble(x, w - n) \in 0 .. 15
    BY <2>2, NibbleIs
  <2> QED BY <2>1, <2>3
<1>2. IsStep(step, w, Nat)
  <2>1. \A e \in (1 .. w) \X Nat : e[2] * 10 + Nibble(x, w - e[1]) \in Nat
    BY <1>1
  <2> QED BY <2>1 DEF IsStep
<1>3. PICK f : S4!IsLoop(f, w, Nat, 0, step)
  <2> HIDE DEF step, w
  <2> QED BY <1>1, <1>2, LoopResult
<1>4. IsIt(f)
  <2>1. /\ f \in [0 .. w -> Nat]
        /\ f[0] = 0
        /\ \A k \in 1 .. w : f[k] = step[<<k, f[k - 1]>>]
    BY <1>3 DEF S4!IsLoop
  <2>2. \A k \in 1 .. w : f[k - 1] \in Nat
    BY <1>1, <2>1
  <2>3. \A k \in 1 .. w : f[k] = f[k - 1] * 10 + Nibble(x, w - k)
    BY <2>1, <2>2
  <2> HIDE DEF step
  <2> QED BY <2>1, <2>3
<1>5. IsIt(value)
  <2> HIDE DEF IsIt
  <2> QED BY <1>4
<1>6. DecValue(x) = value[w]
  BY DEF DecValue
<1> HIDE DEF value
<1>7. value[0] = 0 /\ \A n \in 1 .. w : value[n] = value[n - 1] * 10 + Nibble(x, w - n)
  <2> HIDE DEF step
  <2> QED BY <1>1, <1>5
<1>8. \A n \in 0 .. w : value[n] \in Nat
  <2>1. \A n \in 1 .. w : value[n - 1] \in Nat => value[n] \in Nat
    BY <1>1, <1>7
  <2>2. value[0] \in Nat
    BY <1>7
  <2> HIDE DEF w
  <2> QED BY ONLY <1>1, <2>1, <2>2, LoopType
<1> QED BY ONLY <1>6, <1>7, <1>8

LEMMA DecValueIsNat ==
  ASSUME NEW x \in Token
  PROVE  DecValue(x) \in Nat
<1>1. x.w \in 0 .. x.w
  BY DEF Token
<1> QED BY <1>1, DecValueIs

\* An octet has at most three characters.
LEMMA OctetIs ==
  ASSUME NEW x \in Token, IsOctet(x)
  PROVE  DecValue(x) \in 0 .. 255 /\ x.w \in 1 .. 3
<1>1. x.w \in Nat \ {0} /\ DecValue(x) \in Nat /\ DecValue(x) <= 255
  BY DecValueIsNat DEF Token, IsOctet
<1>2. PICK f : /\ f[0] = 0
               /\ \A n \in 0 .. x.w : f[n] \in Nat
               /\ \A n \in 1 .. x.w : f[n] = f[n - 1] * 10 + Nibble(x, x.w - n)
               /\ DecValue(x) = f[x.w]
  BY DecValueIs
<1>3. SUFFICES ASSUME x.w >= 4 PROVE FALSE
  BY <1>1
<1>4. \A k \in 0 .. x.w - 1 : Nibble(x, k) \in 0 .. 15
  BY <1>1, NibbleIs
<1>5. Nibble(x, x.w - 1) >= 1
  <2>1. Nibble(x, x.w - 1) # 0
    BY <1>1, <1>3 DEF IsOctet, LeadingZero
  <2> QED BY <1>1, <1>4, <2>1
<1>6. \A n \in 1 .. x.w : f[n] >= f[n - 1] * 10 /\ f[n] \in Nat /\ f[n - 1] \in Nat
  <2> TAKE n \in 1 .. x.w
  <2>1. Nibble(x, x.w - n) \in Nat
    <3>1. x.w - n \in 0 .. x.w - 1
      BY <1>1
    <3>2. Nibble(x, x.w - n) \in 0 .. 15
      BY <1>4, <3>1
    <3> QED BY <3>2
  <2>2. f[n] \in Nat /\ f[n - 1] \in Nat
    BY <1>1, <1>2
  <2>3. f[n] = f[n - 1] * 10 + Nibble(x, x.w - n)
    BY <1>2
  <2> QED BY <2>1, <2>2, <2>3
<1>7. f[4] >= 1000
  <2>1. f[1] = f[0] * 10 + Nibble(x, x.w - 1)
    BY <1>2, <1>1
  <2>2. f[1] >= 1
    BY <2>1, <1>2, <1>5, <1>4, <1>1
  <2>3. f[2] >= f[1] * 10 /\ f[3] >= f[2] * 10 /\ f[4] >= f[3] * 10
    BY <1>3, <1>1, <1>6
  <2>4. f[1] \in Nat /\ f[2] \in Nat /\ f[3] \in Nat /\ f[4] \in Nat
    BY <1>3, <1>1, <1>2
  <2> QED BY <2>2, <2>3, <2>4
<1> DEFINE S == {n \in Nat : n >= 4 => f[n] >= 1000}
<1>8. 0 \in S /\ \A n \in 1 .. x.w : n - 1 \in S => n \in S
  <2>1. ASSUME NEW n \in 1 .. x.w, n - 1 \in S
        PROVE  n \in S
    <3>1. CASE n < 4
      BY <3>1
    <3>2. CASE n = 4
      BY <3>2, <1>7
    <3>3. CASE n > 4
      <4>1. f[n - 1] >= 1000
        BY <2>1, <3>3
      <4> QED BY <4>1, <1>6, <3>3
    <3> QED BY <3>1, <3>2, <3>3
  <2> QED BY <2>1
<1>9. x.w \in S
  <2>1. 0 .. x.w \subseteq S /\ x.w \in 0 .. x.w
    <3> HIDE DEF S
    <3> QED BY <1>1, <1>8, S4!RoundByRound
  <2> QED BY <2>1
<1> QED BY <1>1, <1>2, <1>3, <1>9

\* A run of at most four digits is a 16-bit number.
Word == {n \in Nat : n \div 256 \in 0 .. 255}

LEMMA TokenIs ==
  ASSUME NEW x \in Token
  PROVE  /\ x.c \in Kinds /\ x.v \in Nat /\ x.w \in Nat \ {0}
         /\ Quotients(x)[x.w] = 0
         /\ x.c # "hex" => x.v = 0 /\ x.w = 1
<1>1. /\ x \in [c : Kinds, v : Nat, w : Nat \ {0}]
      /\ Quotients(x)[x.w] = 0
      /\ x.c # "hex" => x = Char(x.c)
  BY Zenon DEF Token
<1>2. \A c : Char(c).v = 0 /\ Char(c).w = 1
  BY DEF Char
<1>3. x.c # "hex" => x.v = 0 /\ x.w = 1
  BY <1>1, <1>2, Zenon
<1>4. x.c \in Kinds /\ x.v \in Nat /\ x.w \in Nat \ {0}
  BY <1>1
<1> QED BY <1>1, <1>3, <1>4

LEMMA Sixteenth ==
  ASSUME NEW a \in Nat, NEW b \in Nat, b = a \div 16, NEW m \in Nat, b <= m
  PROVE  a <= 16 * m + 15
OBVIOUS

LEMMA ByteShift ==
  ASSUME NEW a \in Nat
  PROVE  a \div 256 = (a \div 16) \div 16
OBVIOUS

LEMMA GroupIs ==
  ASSUME NEW x \in Token, IsGroup(x)
  PROVE  x.v \in Word /\ x.w \in 1 .. 4
<1>1. x.v \in Nat /\ x.w \in Nat \ {0} /\ x.w <= 4 /\ Quotients(x)[x.w] = 0
  BY TokenIs DEF IsGroup
<1>2. PICK v, w, q : v = x.v /\ w = x.w /\ q = Quotients(x)
  OBVIOUS
<1>3. v \in Nat /\ w \in {1, 2, 3, 4} /\ q[w] = 0
  BY <1>1, <1>2
<1>4. /\ q[0] = v
      /\ \A k \in 0 .. w : q[k] \in Nat
      /\ \A k \in 1 .. w : q[k] = q[k - 1] \div 16
  BY <1>1, <1>2, QuotientsAre
<1>5. w >= 4 => q[3] <= 15
  <2>1. w = 4 => q[4] = q[3] \div 16 /\ q[4] \in Nat /\ q[3] \in Nat /\ q[4] = 0
    BY <1>3, <1>4
  <2>2. w = 4 => q[3] <= 16 * 0 + 15
    BY <2>1, Sixteenth
  <2> QED BY <1>3, <2>2
<1>6. w >= 3 => q[2] \in 0 .. 255
  <2>1. w >= 3 => q[3] = q[2] \div 16 /\ q[2] \in Nat /\ q[3] \in Nat /\ q[3] <= 15
    BY <1>3, <1>4, <1>5
  <2>2. w >= 3 => q[2] <= 16 * 15 + 15
    BY <2>1, Sixteenth
  <2> QED BY <1>3, <2>1, <2>2
<1>7. v \div 256 \in 0 .. 255
  <2>1. CASE w = 1
    <3>1. q[1] = v \div 16 /\ q[1] = 0
      BY <2>1, <1>3, <1>4
    <3> QED BY <3>1, <1>3, ByteShift
  <2>2. CASE w # 1
    <3>1. q[1] = v \div 16 /\ q[2] = q[1] \div 16
      BY <2>2, <1>3, <1>4
    <3>2. q[2] = v \div 256
      BY <3>1, <1>3, ByteShift
    <3>3. CASE w = 2
      BY <3>2, <3>3, <1>3
    <3>4. CASE w # 2
      <4>1. q[2] \in 0 .. 255
        BY <2>2, <3>4, <1>3, <1>6
      <4> QED BY <3>2, <4>1
    <3> QED BY <3>3, <3>4
  <2> QED BY <2>1, <2>2
<1>8. x.v \in Word
  BY <1>2, <1>3, <1>7 DEF Word
<1>9. x.w \in 1 .. 4
  BY <1>1
<1> QED BY <1>8, <1>9

----------------------------------------------------------------------------
(* Texts.                                                                  *)

LEMMA Widths == 8 \in Nat \ {0} /\ 4 \in Nat \ {0} /\ 16 \in Nat \ {0}
OBVIOUS

LEMMA LeastElement ==
  ASSUME NEW T, T \subseteq Nat, T # {}
  PROVE  \E p \in T : \A k \in T : p <= k
BY Widths, S4!LeastElement, Zenon

\* The greatest element of a nonempty set of positions.
LEMMA GreatestPosition ==
  ASSUME NEW n \in Nat, NEW T, T \subseteq 1 .. n, T # {}
  PROVE  \E p \in T : \A k \in T : p >= k
<1> DEFINE S == {n - p : p \in T}
<1>1. S \subseteq Nat /\ S # {}
  <2>1. \A p \in T : p \in 1 .. n /\ n - p \in Nat
    OBVIOUS
  <2>2. \E p \in T : n - p \in S
    OBVIOUS
  <2> QED BY <2>1, <2>2
<1>2. PICK d \in S : \A y \in S : d <= y
  <2> HIDE DEF S
  <2> QED BY <1>1, LeastElement
<1>3. PICK p \in T : d = n - p
  OBVIOUS
<1>4. ASSUME NEW k \in T PROVE p >= k
  <2>1. n - k \in S
    OBVIOUS
  <2>2. n - p <= n - k
    BY <1>2, <1>3, <2>1
  <2>3. p \in Int /\ k \in Int
    BY <1>3
  <2> QED BY <2>2, <2>3
<1> QED BY <1>3, <1>4

LEMMA GreatestIsMax ==
  ASSUME NEW n \in Nat, NEW T, T \subseteq 1 .. n, T # {}
  PROVE  Max(T) \in T /\ \A k \in T : Max(T) >= k
<1>1. PICK p \in T : \A k \in T : p >= k
  BY GreatestPosition
<1> QED BY <1>1 DEF Max

LEMMA LeastIsMin ==
  ASSUME NEW n \in Nat, NEW T, T \subseteq 1 .. n, T # {}
  PROVE  Min(T) \in T /\ \A k \in T : Min(T) <= k
<1>1. T \subseteq Nat
  OBVIOUS
<1>2. PICK p \in T : \A k \in T : p <= k
  BY <1>1, LeastElement
<1> QED BY <1>2 DEF Min

LEMMA TextIs ==
  ASSUME NEW t \in Seq(Token)
  PROVE  /\ Len(t) \in Nat
         /\ DOMAIN t = 1 .. Len(t)
         /\ \A p \in 1 .. Len(t) : t[p] \in Token
OBVIOUS

\* A position without the character, or the last one of it.
LEMMA LastPosIs ==
  ASSUME NEW t, Len(t) \in Nat, NEW c
  PROVE  /\ LastPos(t, c) \in 0 .. Len(t)
         /\ LastPos(t, c) > 0 => t[LastPos(t, c)].c = c
         /\ \A p \in 1 .. Len(t) : p > LastPos(t, c) => t[p].c # c
<1> DEFINE I == {i \in 1 .. Len(t) : t[i].c = c}
<1>1. LastPos(t, c) = IF I # {} THEN Max(I) ELSE 0
  BY DEF LastPos, SelectLastInSeq
<1>2. CASE I = {}
  <2>1. LastPos(t, c) = 0
    BY <1>1, <1>2
  <2>2. \A p \in 1 .. Len(t) : t[p].c # c
    BY <1>2
  <2> QED BY <2>1, <2>2
<1>3. CASE I # {}
  <2>1. I \subseteq 1 .. Len(t)
    OBVIOUS
  <2>2. Max(I) \in I /\ \A k \in I : Max(I) >= k
    <3> HIDE DEF I
    <3> QED BY <1>3, <2>1, GreatestIsMax
  <2>3. LastPos(t, c) = Max(I)
    BY <1>1, <1>3
  <2> PICK m : m = Max(I)
    OBVIOUS
  <2>4. m \in 1 .. Len(t) /\ t[m].c = c
    BY <2>2
  <2>5. \A p \in 1 .. Len(t) : p > m => t[p].c # c
    BY <2>2, <2>4
  <2> QED BY <2>3, <2>4, <2>5
<1> QED BY <1>2, <1>3

\* The parts of a text on either side of a position.
LEMMA PartsAre ==
  ASSUME NEW t \in Seq(Token), NEW p \in 1 .. Len(t)
  PROVE  /\ Before(t, p) \in Seq(Token)
         /\ Len(Before(t, p)) = p - 1
         /\ \A k \in 1 .. p - 1 : Before(t, p)[k] = t[k]
         /\ After(t, p) \in Seq(Token)
         /\ Len(After(t, p)) = Len(t) - p
         /\ \A k \in 1 .. Len(t) - p : After(t, p)[k] = t[p + k]
<1>1. Before(t, p) \in Seq(Token) /\ After(t, p) \in Seq(Token)
  BY DEF Before, After
<1>2. Len(Before(t, p)) = p - 1 /\ Len(After(t, p)) = Len(t) - p
  BY DEF Before, After
<1>3. \A k \in 1 .. p - 1 : Before(t, p)[k] = t[k]
  BY DEF Before
<1>4. \A k \in 1 .. Len(t) - p : After(t, p)[k] = t[p + k]
  BY DEF After
<1> QED BY <1>1, <1>2, <1>3, <1>4

LEMMA NothingBefore ==
  ASSUME NEW t \in Seq(Token)
  PROVE  Before(t, 0) = <<>> /\ After(t, 0) = t
<1>1. After(t, 0) = t
  BY DEF After
<1>2. Before(t, 0) \in Seq(Token) /\ Len(Before(t, 0)) = 0
  BY DEF Before
<1> QED BY <1>1, <1>2

LEMMA BeforeIsText ==
  ASSUME NEW t \in Seq(Token), NEW p \in 0 .. Len(t)
  PROVE  Before(t, p) \in Seq(Token) /\ After(t, p) \in Seq(Token)
BY PartsAre, NothingBefore DEF Before, After

\* The text up to its first nul.
\* The tokens the formatters write.
LEMMA CharIsToken ==
  ASSUME NEW c \in Kinds
  PROVE  Char(c) \in Token /\ Char(c).c = c
<1>1. /\ Char(c) = [c |-> c, v |-> 0, w |-> 1]
      /\ Char(c) \in [c : Kinds, v : Nat, w : Nat \ {0}]
      /\ Char(c).v = 0 /\ Char(c).w = 1 /\ Char(c).c = c
  BY DEF Char
<1> PICK x : x = Char(c)
  OBVIOUS
<1>2. Quotients(x)[0] = 0 /\ Quotients(x)[1] = Quotients(x)[0] \div 16
  <2>1. x.v \in Nat /\ x.w \in Nat /\ 1 \in 1 .. x.w
    BY <1>1
  <2> QED BY <1>1, <2>1, QuotientsAre
<1>3. Quotients(x)[x.w] = 0
  BY <1>1, <1>2
<1> QED BY <1>1, <1>3 DEF Token

----------------------------------------------------------------------------
(* The loop over the octets.                                               *)

OctetScan == [p : Nat \ {0}, octets : Seq(0 .. 255), bad : BOOLEAN]
StartOfOctets == [p |-> 1, octets |-> <<>>, bad |-> FALSE]

\* An octet at the position, room for it, and a dot behind it unless it is last.
OctetFits(t, s) ==
  /\ IsOctet(t[s.p])
  /\ Len(s.octets) < 4
  /\ s.p + 1 <= Len(t) => t[s.p + 1].c = "." /\ s.p + 1 # Len(t)

\* One pass takes the octet that fits and gives up on any other.
LEMMA OctetPass ==
  ASSUME NEW t \in Seq(Token), NEW s \in OctetScan, ~ScanEnds(t, s)
  PROVE  /\ OctetIteration(t, s) \in OctetScan
         /\ OctetIteration(t, s).bad = ~OctetFits(t, s)
         /\ OctetFits(t, s) => /\ OctetIteration(t, s).p = s.p + 2
                               /\ OctetIteration(t, s).octets =
                                    Append(s.octets, DecValue(t[s.p]))
<1>1. s.p \in 1 .. Len(t) /\ s.octets \in Seq(0 .. 255) /\ s.bad = FALSE
      /\ Len(s.octets) \in Nat /\ Len(t) \in Nat /\ DOMAIN t = 1 .. Len(t)
      /\ t[s.p] \in Token
  BY DEF ScanEnds, OctetScan
<1>2. PICK d : d = DecValue(t[s.p])
  OBVIOUS
<1>3. IsOctet(t[s.p]) => d \in 0 .. 255
  BY <1>1, <1>2, OctetIs
<1>4. s.p + 1 <= Len(t) => (IsChar(t, s.p + 1, ".") <=> t[s.p + 1].c = ".")
  BY <1>1 DEF IsChar
<1> DEFINE ok == [s EXCEPT !.octets = Append(@, d), !.p = s.p + 1 + 1]
           no == [s EXCEPT !.bad = TRUE]
<1>5. OctetIteration(t, s) = IF OctetFits(t, s) THEN ok ELSE no
  BY <1>1, <1>2, <1>4 DEF OctetIteration, OctetFits, Reject
<1>6. no \in OctetScan /\ no.bad = TRUE
  BY DEF OctetScan
<1>7. ASSUME d \in 0 .. 255
      PROVE  /\ ok \in OctetScan /\ ok.bad = FALSE /\ ok.p = s.p + 2
             /\ ok.octets = Append(s.octets, d)
  <2>1. Append(s.octets, d) \in Seq(0 .. 255) /\ s.p + 1 + 1 \in Nat \ {0}
        /\ s.p + 1 + 1 = s.p + 2
    BY <1>1, <1>7
  <2>2. PICK o : o = Append(s.octets, d)
    OBVIOUS
  <2>3. ok = [s EXCEPT !.octets = o, !.p = s.p + 2]
    BY <2>1, <2>2
  <2> HIDE DEF ok
  <2> QED BY <1>1, <2>1, <2>2, <2>3 DEF OctetScan
<1> HIDE DEF ok, no
<1>8. CASE OctetFits(t, s)
  <2>1. d \in 0 .. 255
    BY <1>3, <1>8 DEF OctetFits
  <2> QED BY <1>2, <1>5, <1>7, <1>8, <2>1
<1>9. CASE ~OctetFits(t, s)
  BY <1>5, <1>6, <1>9
<1> QED BY <1>8, <1>9

\* The passes as a sequence of scans.
LEMMA OctetPasses ==
  ASSUME NEW t \in Seq(Token)
  PROVE  \E f : /\ f[0] = StartOfOctets
                /\ \A n \in 0 .. Len(t) : f[n] \in OctetScan
                /\ \A n \in 1 .. Len(t) :
                     f[n] = IF ScanEnds(t, f[n - 1]) THEN f[n - 1]
                            ELSE OctetIteration(t, f[n - 1])
                /\ Passes(t, StartOfOctets, OctetIteration) = f[Len(t)]
<1> DEFINE w == Len(t)
           Pass(s) == IF ScanEnds(t, s) THEN s ELSE OctetIteration(t, s)
           step == [e \in (1 .. w) \X OctetScan |-> Pass(e[2])]
           IsIt(f) == f = [n \in 0 .. w |-> IF n = 0 THEN StartOfOctets ELSE Pass(f[n - 1])]
           after == CHOOSE f : IsIt(f)
<1>1. w \in Nat
  OBVIOUS
<1>2. StartOfOctets \in OctetScan
  <2>1. <<>> \in Seq(0 .. 255)
    OBVIOUS
  <2> QED BY <2>1 DEF StartOfOctets, OctetScan
<1>3. \A s \in OctetScan : Pass(s) \in OctetScan
  BY OctetPass
<1>4. Passes(t, StartOfOctets, OctetIteration) = after[w]
  BY DEF Passes
<1> HIDE DEF Pass, w
<1>5. IsStep(step, w, OctetScan)
  BY <1>3 DEF IsStep
<1>6. PICK f : S4!IsLoop(f, w, OctetScan, StartOfOctets, step)
  <2> HIDE DEF step
  <2> QED BY <1>1, <1>2, <1>5, LoopResult
<1>7. IsIt(f)
  <2>1. /\ f \in [0 .. w -> OctetScan]
        /\ f[0] = StartOfOctets
        /\ \A k \in 1 .. w : f[k] = step[<<k, f[k - 1]>>]
    BY <1>6 DEF S4!IsLoop
  <2>2. \A k \in 1 .. w : f[k - 1] \in OctetScan
    BY <1>1, <2>1
  <2>3. \A k \in 1 .. w : f[k] = Pass(f[k - 1])
    BY <2>1, <2>2
  <2> HIDE DEF step
  <2> QED BY <2>1, <2>3
<1>8. IsIt(after)
  <2> HIDE DEF IsIt
  <2> QED BY <1>7
<1> HIDE DEF after, step
<1>9. after[0] = StartOfOctets /\ \A n \in 1 .. w : after[n] = Pass(after[n - 1])
  BY <1>1, <1>8
<1>10. \A n \in 0 .. w : after[n] \in OctetScan
  <2>1. \A n \in 1 .. w : after[n - 1] \in OctetScan => after[n] \in OctetScan
    BY <1>3, <1>9
  <2>2. after[0] \in OctetScan
    BY <1>2, <1>9
  <2> QED BY ONLY <1>1, <2>1, <2>2, LoopType
<1> QED BY ONLY <1>4, <1>9, <1>10 DEF Pass, w

\* What has been read when a scan has come this far.
OctetsSoFar(t, s) ==
  /\ s.p = 2 * Len(s.octets) + 1
  /\ 2 * Len(s.octets) <= Len(t) + 1
  /\ Len(s.octets) > 0 => 2 * Len(s.octets) # Len(t)
  /\ Len(s.octets) <= 4
  /\ \A i \in 1 .. Len(s.octets) :
       /\ IsOctet(t[2 * i - 1])
       /\ s.octets[i] = DecValue(t[2 * i - 1])
       /\ 2 * i <= Len(t) => t[2 * i].c = "."

LEMMA OctetsGrow ==
  ASSUME NEW t \in Seq(Token), NEW s \in OctetScan, ~ScanEnds(t, s),
         OctetsSoFar(t, s), OctetFits(t, s)
  PROVE  OctetsSoFar(t, OctetIteration(t, s))
<1>1. PICK r : r = OctetIteration(t, s)
  OBVIOUS
<1>2. PICK m, o, d, p, n : /\ m = Len(s.octets) /\ o = s.octets /\ d = DecValue(t[p])
                           /\ p = s.p /\ n = Len(t)
  OBVIOUS
<1>3. /\ m \in Nat /\ n \in Nat /\ p = 2 * m + 1 /\ p <= n /\ m < 4
      /\ o \in Seq(0 .. 255) /\ Len(o) = m
  BY <1>2 DEF OctetsSoFar, ScanEnds, OctetScan, OctetFits
<1>4. r.p = p + 2 /\ r.octets = Append(o, d)
  BY <1>1, <1>2, OctetPass
<1>5. d \in 0 .. 255
  <2>1. t[p] \in Token /\ IsOctet(t[p])
    BY <1>2, <1>3 DEF OctetFits
  <2> QED BY <1>2, <2>1, OctetIs
<1>6. /\ Len(r.octets) = m + 1 /\ r.octets[m + 1] = d
      /\ \A i \in 1 .. m : r.octets[i] = o[i]
  BY <1>3, <1>4, <1>5
<1>7. \A i \in 1 .. m : /\ IsOctet(t[2 * i - 1])
                        /\ o[i] = DecValue(t[2 * i - 1])
                        /\ 2 * i <= n => t[2 * i].c = "."
  BY <1>2 DEF OctetsSoFar
<1>8. /\ IsOctet(t[p]) /\ (p + 1 <= n => t[p + 1].c = "." /\ p + 1 # n)
  BY <1>2 DEF OctetFits
<1>9. p = 2 * (m + 1) - 1 /\ p + 1 = 2 * (m + 1) /\ p + 2 = 2 * (m + 1) + 1
  BY <1>3
<1>10. ASSUME NEW i \in 1 .. m + 1
       PROVE  /\ IsOctet(t[2 * i - 1])
              /\ r.octets[i] = DecValue(t[2 * i - 1])
              /\ 2 * i <= n => t[2 * i].c = "."
  <2>1. CASE i = m + 1
    BY <2>1, <1>2, <1>3, <1>6, <1>8, <1>9
  <2>2. CASE i # m + 1
    <3>1. i \in 1 .. m
      BY <2>2, <1>3
    <3> QED BY <3>1, <1>6, <1>7
  <2> QED BY <2>1, <2>2
<1>11. /\ r.p = 2 * (m + 1) + 1 /\ 2 * (m + 1) <= n + 1 /\ 2 * (m + 1) # n /\ m + 1 <= 4
  BY <1>3, <1>4, <1>8, <1>9
<1>12. OctetsSoFar(t, r)
  BY <1>2, <1>6, <1>10, <1>11 DEF OctetsSoFar
<1> QED BY <1>1, <1>12

LEMMA QuadIs ==
  ASSUME NEW t \in Seq(Token)
  PROVE  IsDottedQuad(t) <=>
           /\ Len(t) = 7
           /\ \A i \in 1 .. 4 : IsOctet(t[2 * i - 1])
           /\ \A i \in 1 .. 3 : t[2 * i].c = "."
<1>1. IsDottedQuad(t) <=>
        /\ Len(t) = 7
        /\ \A p \in 1 .. 7 : IF p % 2 = 1 THEN IsOctet(t[p]) ELSE t[p].c = "."
  <2>1. Len(t) = 7 => t # <<>> /\ DOMAIN t = 1 .. 7 /\ Len(t) % 2 = 1
    OBVIOUS
  <2> QED BY <2>1 DEF IsDottedQuad, IsListOf
<1>2. (\A p \in 1 .. 7 : IF p % 2 = 1 THEN IsOctet(t[p]) ELSE t[p].c = ".") <=>
        /\ \A i \in 1 .. 4 : IsOctet(t[2 * i - 1])
        /\ \A i \in 1 .. 3 : t[2 * i].c = "."
  <2>1. \A i \in 1 .. 4 : 2 * i - 1 \in 1 .. 7 /\ (2 * i - 1) % 2 = 1
    OBVIOUS
  <2>2. \A i \in 1 .. 3 : 2 * i \in 1 .. 7 /\ (2 * i) % 2 # 1
    OBVIOUS
  <2>3. \A p \in 1 .. 7 : p \in {1, 2, 3, 4, 5, 6, 7}
    OBVIOUS
  <2>4. /\ 2 * 1 - 1 = 1 /\ 2 * 2 - 1 = 3 /\ 2 * 3 - 1 = 5 /\ 2 * 4 - 1 = 7
        /\ 2 * 1 = 2 /\ 2 * 2 = 4 /\ 2 * 3 = 6
    OBVIOUS
  <2> QED BY <2>1, <2>2, <2>3, <2>4
<1> QED BY <1>1, <1>2

\* The loop reads the four octets of a dotted quad, and nothing else.
LEMMA OctetsScanned ==
  ASSUME NEW t \in Seq(Token)
  PROVE  /\ ~IsDottedQuad(t) => ScanOctets(t) = <<>>
         /\ IsDottedQuad(t) => /\ ScanOctets(t) \in Seq(0 .. 255)
                               /\ Len(ScanOctets(t)) = 4
                               /\ \A i \in 1 .. 4 : ScanOctets(t)[i] = DecValue(t[2 * i - 1])
<1>1. PICK f : /\ f[0] = StartOfOctets
               /\ \A n \in 0 .. Len(t) : f[n] \in OctetScan
               /\ \A n \in 1 .. Len(t) :
                    f[n] = IF ScanEnds(t, f[n - 1]) THEN f[n - 1]
                           ELSE OctetIteration(t, f[n - 1])
               /\ Passes(t, StartOfOctets, OctetIteration) = f[Len(t)]
  BY OctetPasses
<1>2. PICK w, s : w = Len(t) /\ s = f[w]
  OBVIOUS
<1>3. w \in Nat /\ s \in OctetScan
  BY <1>1, <1>2
<1> DEFINE Good(r, n) == /\ ScanEnds(t, r) \/ r.p > n
                         /\ ~r.bad => OctetsSoFar(t, r)
                         /\ IsDottedQuad(t) => ~r.bad
           S == {n \in 0 .. w : Good(f[n], n)}
<1>4. 0 \in S
  <2>1. f[0].p = 1 /\ f[0].octets = <<>> /\ f[0].bad = FALSE /\ Len(<<>>) = 0
    BY <1>1 DEF StartOfOctets
  <2>2. OctetsSoFar(t, f[0])
    BY <2>1, <1>2, <1>3 DEF OctetsSoFar
  <2> QED BY <2>1, <2>2, <1>3
<1>5. ASSUME NEW n \in 1 .. w, n - 1 \in S
      PROVE  n \in S
  <2>1. PICK r, e : r = f[n - 1] /\ e = f[n]
    OBVIOUS
  <2>2. r \in OctetScan /\ Good(r, n - 1) /\ n \in 0 .. w /\ n - 1 \in 0 .. w
    BY <2>1, <1>1, <1>2, <1>3, <1>5
  <2>3. e = IF ScanEnds(t, r) THEN r ELSE OctetIteration(t, r)
    BY <2>1, <1>1, <1>2
  <2>4. CASE ScanEnds(t, r)
    <3>1. Good(r, n)
      BY <2>2, <2>4
    <3> HIDE DEF Good
    <3> QED BY <2>1, <2>2, <2>3, <2>4, <3>1
  <2>5. CASE ~ScanEnds(t, r)
    <3>1. e = OctetIteration(t, r) /\ e.bad = ~OctetFits(t, r) /\ r.bad = FALSE
          /\ (OctetFits(t, r) => e.p = r.p + 2) /\ r.p \in Nat
      BY <2>2, <2>3, <2>5, OctetPass DEF ScanEnds, OctetScan
    <3>2. ScanEnds(t, e) \/ e.p > n
      <4>1. ~OctetFits(t, r) => ScanEnds(t, e)
        BY <3>1 DEF ScanEnds
      <4>2. r.p > n - 1
        BY <2>2, <2>5
      <4> QED BY <3>1, <4>1, <4>2
    <3>3. ~e.bad => OctetsSoFar(t, e)
      BY <2>2, <2>5, <3>1, OctetsGrow
    <3>4. IsDottedQuad(t) => OctetFits(t, r)
      <4> SUFFICES ASSUME IsDottedQuad(t) PROVE OctetFits(t, r)
        OBVIOUS
      <4>1. Len(t) = 7 /\ (\A i \in 1 .. 4 : IsOctet(t[2 * i - 1]))
            /\ (\A i \in 1 .. 3 : t[2 * i].c = ".")
        BY QuadIs
      <4>2. PICK m : m = Len(r.octets)
        OBVIOUS
      <4>3. m \in Nat /\ r.p = 2 * m + 1 /\ r.p <= 7
        BY <2>2, <2>5, <3>1, <4>1, <4>2 DEF OctetsSoFar, ScanEnds, OctetScan
      <4>4. r.p = 2 * (m + 1) - 1 /\ r.p + 1 = 2 * (m + 1) /\ m + 1 \in 1 .. 4
        BY <4>3
      <4>5. r.p + 1 <= 7 => m + 1 \in 1 .. 3 /\ r.p + 1 # 7
        BY <4>3, <4>4
      <4>6. IsOctet(t[r.p])
        BY ONLY <4>1, <4>4
      <4>7. r.p + 1 <= 7 => t[r.p + 1].c = "." /\ r.p + 1 # 7
        BY ONLY <4>1, <4>4, <4>5
      <4>8. Len(r.octets) < 4
        BY ONLY <4>2, <4>3, <4>4
      <4> QED BY ONLY <4>1, <4>6, <4>7, <4>8 DEF OctetFits
    <3>5. Good(e, n)
      BY <3>1, <3>2, <3>3, <3>4
    <3> HIDE DEF Good
    <3> QED BY <2>1, <2>2, <3>5
  <2> QED BY <2>4, <2>5
<1>6. Good(s, w)
  <2>1. 0 .. w \subseteq S
    <3> HIDE DEF S
    <3>1. w \in Nat
      BY <1>3
    <3> QED BY ONLY <3>1, <1>4, <1>5, S4!RoundByRound
  <2> HIDE DEF Good
  <2> QED BY <1>2, <1>3, <2>1
<1>7. ScanOctets(t) = IF s.bad \/ Len(s.octets) # 4 THEN <<>> ELSE s.octets
  BY <1>1, <1>2 DEF ScanOctets, StartOfOctets
<1>8. ScanEnds(t, s)
  BY <1>2, <1>3, <1>6 DEF ScanEnds, OctetScan
<1>9. PICK m, o : m = Len(o) /\ o = s.octets
  OBVIOUS
<1>10. o \in Seq(0 .. 255) /\ m \in Nat /\ s.p \in Nat
  BY <1>3, <1>9 DEF OctetScan
<1>11. ~s.bad => /\ s.p = 2 * m + 1 /\ s.p > w /\ 2 * m <= w + 1 /\ m <= 4
                 /\ (m > 0 => 2 * m # w)
                 /\ \A i \in 1 .. m : /\ IsOctet(t[2 * i - 1])
                                      /\ o[i] = DecValue(t[2 * i - 1])
                                      /\ 2 * i <= Len(t) => t[2 * i].c = "."
  BY <1>2, <1>6, <1>8, <1>9 DEF OctetsSoFar, ScanEnds
<1>12. CASE s.bad \/ m # 4
  <2>1. ScanOctets(t) = <<>>
    BY <1>7, <1>9, <1>12
  <2>2. ~IsDottedQuad(t)
    <3> SUFFICES ASSUME IsDottedQuad(t) PROVE FALSE
      OBVIOUS
    <3>1. ~s.bad /\ Len(t) = 7
      BY <1>6, QuadIs
    <3> QED BY <3>1, <1>2, <1>10, <1>11, <1>12
  <2> QED BY <2>1, <2>2
<1>13. CASE ~s.bad /\ m = 4
  <2>1. ScanOctets(t) = o
    BY <1>7, <1>9, <1>13
  <2>2. w = 7
    BY <1>3, <1>11, <1>13
  <2>3. IsDottedQuad(t)
    <3>1. \A i \in 1 .. 4 : IsOctet(t[2 * i - 1])
      BY <1>11, <1>13
    <3>2. \A i \in 1 .. 3 : t[2 * i].c = "."
      <4>1. \A i \in 1 .. 3 : i \in 1 .. m /\ 2 * i <= Len(t)
        <5>1. m = 4 /\ Len(t) = 7
          BY <2>2, <1>2, <1>13
        <5> QED BY ONLY <5>1
      <4> QED BY <1>11, <1>13, <4>1
    <3> QED BY <2>2, <1>2, <3>1, <3>2, QuadIs
  <2>4. \A i \in 1 .. 4 : o[i] = DecValue(t[2 * i - 1])
    BY <1>11, <1>13
  <2> QED BY <2>1, <2>3, <2>4, <1>9, <1>10, <1>13
<1> QED BY <1>12, <1>13

----------------------------------------------------------------------------
(* The loops over the groups.  The two paths of the parser differ in how   *)
(* many groups there is room for and in what follows the text: in the      *)
(* mixed path a colon does, the one in front of the dotted tail.           *)

GroupScan == [p : Nat \ {0}, cc : BOOLEAN, before : Seq(Word), after : Seq(Word),
              bad : BOOLEAN]

\* A :: begins here; virt says that a colon follows the text.
AtGap(t, p, virt) == /\ p \in 1 .. Len(t)
                     /\ t[p].c = ":"
                     /\ IF p = Len(t) THEN virt ELSE t[p + 1].c = ":"

\* A group is here, with room for it, and a colon behind it unless it is last.
GroupFits(t, s, virt, max) ==
  /\ ~AtGap(t, s.p, virt)
  /\ IsGroup(t[s.p])
  /\ s.p < Len(t) => t[s.p + 1].c = ":"
  /\ Len(IF s.cc THEN s.after ELSE s.before) < max

\* Where the scan goes on behind a group at p, and behind a :: at p.
Behind(t, p, virt) == IF p = Len(t) \/ AtGap(t, p + 1, virt) THEN p + 1 ELSE p + 2
BehindGap(t, p) == IF p < Len(t) THEN p + 2 ELSE p + 1

\* One pass, in both paths.
GroupIteration(t, s, virt, max) ==
  IF AtGap(t, s.p, virt)
    THEN IF s.cc THEN [s EXCEPT !.bad = TRUE]
         ELSE [s EXCEPT !.cc = TRUE, !.p = BehindGap(t, s.p)]
  ELSE IF ~GroupFits(t, s, virt, max) THEN [s EXCEPT !.bad = TRUE]
  ELSE IF s.cc THEN [s EXCEPT !.after = Append(@, t[s.p].v), !.p = Behind(t, s.p, virt)]
  ELSE [s EXCEPT !.before = Append(@, t[s.p].v), !.p = Behind(t, s.p, virt)]

LEMMA PureIsGroupIteration ==
  ASSUME NEW t \in Seq(Token), NEW s \in GroupScan, ~ScanEnds(t, s)
  PROVE  PureIteration(t, s) = GroupIteration(t, s, FALSE, 8)
<1>1. s.p \in 1 .. Len(t) /\ Len(t) \in Nat /\ DOMAIN t = 1 .. Len(t)
  BY DEF ScanEnds, GroupScan
<1>2. PICK p, n : p = s.p /\ n = Len(t)
  OBVIOUS
<1>3. p \in 1 .. n /\ n \in Nat /\ DOMAIN t = 1 .. n
  BY <1>1, <1>2
<1>4. \A c : /\ IsChar(t, p, c) <=> t[p].c = c
             /\ IsChar(t, p + 1, c) <=> p < n /\ t[p + 1].c = c
             /\ IsChar(t, p + 1 + 1, c) <=> p + 1 < n /\ t[p + 1 + 1].c = c
  BY <1>3 DEF IsChar
<1>5. p + 1 + 1 = p + 2 /\ (p + 1 > n <=> p = n) /\ (p < n <=> p # n)
  BY <1>3
<1>10. Len(IF s.cc THEN s.after ELSE s.before) >= 8 <=>
         ~(Len(IF s.cc THEN s.after ELSE s.before) < 8)
  <2>1. Len(s.before) \in Nat /\ Len(s.after) \in Nat
    BY DEF GroupScan
  <2> QED BY <2>1
<1>6. AtGap(t, p, FALSE) <=> IsChar(t, p, ":") /\ IsChar(t, p + 1, ":")
  BY <1>2, <1>3, <1>4, <1>5 DEF AtGap
<1>7. p < n /\ t[p + 1].c = ":" => (AtGap(t, p + 1, FALSE) <=> IsChar(t, p + 1 + 1, ":"))
  BY <1>2, <1>3, <1>4, <1>5 DEF AtGap
<1>8. CASE AtGap(t, p, FALSE)
  <2>1. p < n
    BY <1>8, <1>6, <1>4
  <2> QED BY <1>2, <1>6, <1>8, <2>1 DEF PureIteration, GroupIteration, Compress, Reject, BehindGap
<1>9. CASE ~AtGap(t, p, FALSE)
  <2>1. CASE ~IsGroup(t[p])
    BY <1>2, <1>6, <1>9, <2>1 DEF PureIteration, GroupIteration, Reject, GroupFits
  <2>2. CASE IsGroup(t[p]) /\ p = n
    <3>1. Behind(t, p, FALSE) = p + 1 /\ p + 1 > n /\ ~(p < n)
      BY <1>2, <1>3, <2>2 DEF Behind
    <3> QED BY <1>2, <1>6, <1>9, <1>10, <2>2, <3>1
            DEF PureIteration, GroupIteration, Reject, GroupFits, AddGroup
  <2>3. CASE IsGroup(t[p]) /\ p < n /\ t[p + 1].c # ":"
    BY <1>2, <1>3, <1>4, <1>5, <1>6, <1>9, <2>3
       DEF PureIteration, GroupIteration, Reject, GroupFits
  <2>4. CASE IsGroup(t[p]) /\ p < n /\ t[p + 1].c = ":"
    <3>1. /\ IsChar(t, p + 1, ":") /\ ~(p + 1 > n)
          /\ Behind(t, p, FALSE) = IF IsChar(t, p + 1 + 1, ":") THEN p + 1 ELSE p + 1 + 1
      BY <1>2, <1>3, <1>4, <1>5, <1>7, <2>4 DEF Behind
    <3> QED BY <1>2, <1>6, <1>9, <1>10, <2>4, <3>1
            DEF PureIteration, GroupIteration, Reject, GroupFits, AddGroup
  <2> QED BY <1>3, <1>5, <2>1, <2>2, <2>3, <2>4
<1> QED BY <1>8, <1>9

LEMMA MixedIsGroupIteration ==
  ASSUME NEW t \in Seq(Token), NEW s \in GroupScan, ~ScanEnds(t, s)
  PROVE  MixedIteration(t, s) = GroupIteration(t, s, TRUE, 6)
<1>1. s.p \in 1 .. Len(t) /\ Len(t) \in Nat /\ DOMAIN t = 1 .. Len(t)
  BY DEF ScanEnds, GroupScan
<1>2. PICK p, n : p = s.p /\ n = Len(t)
  OBVIOUS
<1>3. p \in 1 .. n /\ n \in Nat /\ DOMAIN t = 1 .. n
  BY <1>1, <1>2
<1>4. \A c : /\ IsChar(t, p, c) <=> t[p].c = c
             /\ IsChar(t, p + 1, c) <=> p < n /\ t[p + 1].c = c
             /\ IsChar(t, p + 1 + 1, c) <=> p + 1 < n /\ t[p + 1 + 1].c = c
  BY <1>3 DEF IsChar
<1>5. p + 1 + 1 = p + 2 /\ (p + 1 > n <=> p = n) /\ (p < n <=> p # n)
  BY <1>3
<1>10. Len(IF s.cc THEN s.after ELSE s.before) >= 6 <=>
         ~(Len(IF s.cc THEN s.after ELSE s.before) < 6)
  <2>1. Len(s.before) \in Nat /\ Len(s.after) \in Nat
    BY DEF GroupScan
  <2> QED BY <2>1
<1>6. AtGap(t, p, TRUE) <=>
        IsChar(t, p, ":") /\ (IsChar(t, p + 1, ":") \/ p + 1 > n)
  BY <1>2, <1>3, <1>4, <1>5 DEF AtGap
<1>7. p < n /\ t[p + 1].c = ":" =>
        (AtGap(t, p + 1, TRUE) <=> IsChar(t, p + 1 + 1, ":") \/ p + 1 = n)
  BY <1>2, <1>3, <1>4, <1>5 DEF AtGap
<1>8. CASE AtGap(t, p, TRUE)
  <2>1. CASE p < n
    <3>1. IsChar(t, p, ":") /\ IsChar(t, p + 1, ":")
      BY <1>3, <1>5, <1>6, <1>8, <2>1
    <3> QED BY <1>2, <1>8, <2>1, <3>1
            DEF MixedIteration, GroupIteration, Compress, Reject, BehindGap
  <2>2. CASE p = n
    <3>1. IsChar(t, p, ":") /\ ~IsChar(t, p + 1, ":") /\ p + 1 > n /\ ~(p < n)
      BY <1>3, <1>4, <1>5, <1>6, <1>8, <2>2
    <3> QED BY <1>2, <1>8, <2>2, <3>1
            DEF MixedIteration, GroupIteration, Compress, Reject, BehindGap
  <2> QED BY <1>3, <1>5, <2>1, <2>2
<1>9. CASE ~AtGap(t, p, TRUE)
  <2>0. ~(IsChar(t, p, ":") /\ IsChar(t, p + 1, ":")) /\ ~(IsChar(t, p, ":") /\ p + 1 > n)
    BY <1>6, <1>9
  <2>1. CASE ~IsGroup(t[p])
    BY <1>2, <1>9, <2>0, <2>1 DEF MixedIteration, GroupIteration, Reject, GroupFits
  <2>2. CASE IsGroup(t[p]) /\ p = n
    <3>1. Behind(t, p, TRUE) = p + 1 /\ p + 1 > n /\ ~(p < n)
      BY <1>2, <1>3, <2>2 DEF Behind
    <3> QED BY <1>2, <1>9, <1>10, <2>0, <2>2, <3>1
            DEF MixedIteration, GroupIteration, Reject, GroupFits, AddGroup
  <2>3. CASE IsGroup(t[p]) /\ p < n /\ t[p + 1].c # ":"
    BY <1>2, <1>3, <1>4, <1>5, <1>9, <2>0, <2>3
       DEF MixedIteration, GroupIteration, Reject, GroupFits
  <2>4. CASE IsGroup(t[p]) /\ p < n /\ t[p + 1].c = ":"
    <3>1. /\ IsChar(t, p + 1, ":") /\ ~(p + 1 > n)
          /\ Behind(t, p, TRUE) = IF IsChar(t, p + 1 + 1, ":") \/ p + 1 = n
                                    THEN p + 1 ELSE p + 1 + 1
      BY <1>2, <1>3, <1>4, <1>5, <1>7, <2>4 DEF Behind
    <3> QED BY <1>2, <1>9, <1>10, <2>0, <2>4, <3>1
            DEF MixedIteration, GroupIteration, Reject, GroupFits, AddGroup
  <2> QED BY <1>3, <1>5, <2>1, <2>2, <2>3, <2>4
<1> QED BY <1>8, <1>9

\* What a pass makes of a scan.
LEMMA GroupPass ==
  ASSUME NEW t \in Seq(Token), NEW s \in GroupScan, ~ScanEnds(t, s),
         NEW virt \in BOOLEAN, NEW max \in Nat,
         NEW r, r = GroupIteration(t, s, virt, max)
  PROVE  /\ r \in GroupScan
         /\ r.bad <=> IF AtGap(t, s.p, virt) THEN s.cc ELSE ~GroupFits(t, s, virt, max)
         /\ ~r.bad /\ AtGap(t, s.p, virt) =>
              /\ r.cc /\ r.p = BehindGap(t, s.p)
              /\ r.before = s.before /\ r.after = s.after
         /\ ~r.bad /\ ~AtGap(t, s.p, virt) =>
              /\ r.cc = s.cc /\ r.p = Behind(t, s.p, virt)
              /\ r.before = IF s.cc THEN s.before ELSE Append(s.before, t[s.p].v)
              /\ r.after = IF s.cc THEN Append(s.after, t[s.p].v) ELSE s.after
         /\ ~r.bad => r.p > s.p
<1>1. /\ s.p \in 1 .. Len(t) /\ s.p \in Nat /\ s.bad = FALSE /\ s.cc \in BOOLEAN
      /\ s.before \in Seq(Word) /\ s.after \in Seq(Word)
      /\ Len(t) \in Nat /\ t[s.p] \in Token
      /\ s = [p |-> s.p, cc |-> s.cc, before |-> s.before, after |-> s.after, bad |-> s.bad]
  BY DEF ScanEnds, GroupScan
<1>2. PICK v, p, b, a, next, over : /\ v = t[s.p].v /\ p = s.p /\ b = s.before /\ a = s.after
                                    /\ next = Behind(t, s.p, virt) /\ over = BehindGap(t, s.p)
  OBVIOUS
<1>3. next \in {p + 1, p + 2} /\ over \in {p + 1, p + 2} /\ p \in Nat
  BY <1>1, <1>2 DEF Behind, BehindGap
<1>4. next \in Nat \ {0} /\ over \in Nat \ {0} /\ next > p /\ over > p
  BY <1>3
<1>5. CASE AtGap(t, s.p, virt)
  <2>1. CASE s.cc
    <3>1. r = [s EXCEPT !.bad = TRUE]
      BY <1>5, <2>1 DEF GroupIteration
    <3> QED BY <1>1, <1>5, <2>1, <3>1 DEF GroupScan
  <2>2. CASE ~s.cc
    <3>1. r = [s EXCEPT !.cc = TRUE, !.p = over]
      BY <1>2, <1>5, <2>2 DEF GroupIteration
    <3> QED BY <1>1, <1>2, <1>4, <1>5, <2>2, <3>1 DEF GroupScan
  <2> QED BY <2>1, <2>2
<1>6. CASE ~AtGap(t, s.p, virt) /\ ~GroupFits(t, s, virt, max)
  <2>1. r = [s EXCEPT !.bad = TRUE]
    BY <1>6 DEF GroupIteration
  <2> QED BY <1>1, <1>6, <2>1 DEF GroupScan
<1>7. CASE ~AtGap(t, s.p, virt) /\ GroupFits(t, s, virt, max)
  <2>1. v \in Word
    BY <1>1, <1>2, <1>7, GroupIs DEF GroupFits
  <2>2. Append(b, v) \in Seq(Word) /\ Append(a, v) \in Seq(Word)
    BY <1>1, <1>2, <2>1
  <2>3. PICK bv, av : bv = Append(b, v) /\ av = Append(a, v)
    OBVIOUS
  <2>4. CASE s.cc
    <3>1. r = [s EXCEPT !.after = av, !.p = next]
      BY <1>2, <1>7, <2>3, <2>4 DEF GroupIteration
    <3> QED BY <1>1, <1>2, <1>4, <1>7, <2>2, <2>3, <2>4, <3>1 DEF GroupScan
  <2>5. CASE ~s.cc
    <3>1. r = [s EXCEPT !.before = bv, !.p = next]
      BY <1>2, <1>7, <2>3, <2>5 DEF GroupIteration
    <3> QED BY <1>1, <1>2, <1>4, <1>7, <2>2, <2>3, <2>5, <3>1 DEF GroupScan
  <2> QED BY <2>4, <2>5
<1> QED BY <1>5, <1>6, <1>7

LEMMA ScanStarts == StartOfScan \in GroupScan
<1>1. <<>> \in Seq(Word)
  OBVIOUS
<1> QED BY <1>1 DEF StartOfScan, GroupScan

\* The scans of all the passes, one after the other.
IsTrail(f, t, virt, max) ==
  /\ f[0] = StartOfScan
  /\ \A n \in 0 .. Len(t) : f[n] \in GroupScan
  /\ \A n \in 1 .. Len(t) :
       f[n] = IF ScanEnds(t, f[n - 1]) THEN f[n - 1]
              ELSE GroupIteration(t, f[n - 1], virt, max)

LEMMA PurePasses ==
  ASSUME NEW t \in Seq(Token)
  PROVE  \E f : IsTrail(f, t, FALSE, 8) /\ ScanPure(t) = f[Len(t)]
<1> DEFINE w == Len(t)
           Pass(s) == IF ScanEnds(t, s) THEN s ELSE PureIteration(t, s)
           step == [e \in (1 .. w) \X GroupScan |-> Pass(e[2])]
           IsIt(f) == f = [n \in 0 .. w |-> IF n = 0 THEN StartOfScan ELSE Pass(f[n - 1])]
           after == CHOOSE f : IsIt(f)
<1>1. w \in Nat
  OBVIOUS
<1>2. StartOfScan \in GroupScan
  BY ScanStarts
<1>3. \A s \in GroupScan :
        Pass(s) = IF ScanEnds(t, s) THEN s ELSE GroupIteration(t, s, FALSE, 8)
  BY PureIsGroupIteration
<1>4. \A s \in GroupScan : Pass(s) \in GroupScan
  <2>1. 8 \in Nat /\ FALSE \in BOOLEAN
    OBVIOUS
  <2>2. ASSUME NEW s \in GroupScan PROVE Pass(s) \in GroupScan
    <3>1. CASE ScanEnds(t, s)
      BY <3>1
    <3>2. CASE ~ScanEnds(t, s)
      <4>1. GroupIteration(t, s, FALSE, 8) \in GroupScan
        BY <2>1, <3>2, GroupPass
      <4>2. Pass(s) = GroupIteration(t, s, FALSE, 8)
        BY <1>3, <3>2
      <4> HIDE DEF Pass
      <4> QED BY <4>1, <4>2
    <3> QED BY <3>1, <3>2
  <2> QED BY <2>2
<1>5. ScanPure(t) = after[w]
  BY DEF ScanPure, Passes
<1> HIDE DEF Pass, w
<1>6. IsStep(step, w, GroupScan)
  BY <1>4 DEF IsStep
<1>7. PICK f : S4!IsLoop(f, w, GroupScan, StartOfScan, step)
  <2> HIDE DEF step
  <2> QED BY <1>1, <1>2, <1>6, LoopResult
<1>8. IsIt(f)
  <2>1. /\ f \in [0 .. w -> GroupScan]
        /\ f[0] = StartOfScan
        /\ \A k \in 1 .. w : f[k] = step[<<k, f[k - 1]>>]
    BY <1>7 DEF S4!IsLoop
  <2>2. \A k \in 1 .. w : f[k - 1] \in GroupScan
    BY <1>1, <2>1
  <2>3. \A k \in 1 .. w : f[k] = Pass(f[k - 1])
    BY <2>1, <2>2
  <2> HIDE DEF step
  <2> QED BY <2>1, <2>3
<1>9. IsIt(after)
  <2> HIDE DEF IsIt
  <2> QED BY <1>8
<1> HIDE DEF after, step
<1>10. after[0] = StartOfScan /\ \A n \in 1 .. w : after[n] = Pass(after[n - 1])
  BY <1>1, <1>9
<1>11. \A n \in 0 .. w : after[n] \in GroupScan
  <2>1. \A n \in 1 .. w : after[n - 1] \in GroupScan => after[n] \in GroupScan
    BY <1>4, <1>10
  <2>2. after[0] \in GroupScan
    BY <1>2, <1>10
  <2> QED BY ONLY <1>1, <2>1, <2>2, LoopType
<1>12. \A n \in 1 .. w : after[n] = IF ScanEnds(t, after[n - 1]) THEN after[n - 1]
                          ELSE GroupIteration(t, after[n - 1], FALSE, 8)
  <2>1. \A n \in 1 .. w : after[n - 1] \in GroupScan
    BY <1>1, <1>11
  <2> QED BY <1>3, <1>10, <2>1
<1>13. IsTrail(after, t, FALSE, 8)
  BY <1>10, <1>11, <1>12 DEF IsTrail, w
<1> QED BY <1>5, <1>13 DEF w

LEMMA MixedPasses ==
  ASSUME NEW t \in Seq(Token)
  PROVE  \E f : IsTrail(f, t, TRUE, 6) /\ ScanMixed(t) = f[Len(t)]
<1> DEFINE w == Len(t)
           Pass(s) == IF ScanEnds(t, s) THEN s ELSE MixedIteration(t, s)
           step == [e \in (1 .. w) \X GroupScan |-> Pass(e[2])]
           IsIt(f) == f = [n \in 0 .. w |-> IF n = 0 THEN StartOfScan ELSE Pass(f[n - 1])]
           after == CHOOSE f : IsIt(f)
<1>1. w \in Nat
  OBVIOUS
<1>2. StartOfScan \in GroupScan
  BY ScanStarts
<1>3. \A s \in GroupScan :
        Pass(s) = IF ScanEnds(t, s) THEN s ELSE GroupIteration(t, s, TRUE, 6)
  BY MixedIsGroupIteration
<1>4. \A s \in GroupScan : Pass(s) \in GroupScan
  <2>1. 6 \in Nat /\ TRUE \in BOOLEAN
    OBVIOUS
  <2>2. ASSUME NEW s \in GroupScan PROVE Pass(s) \in GroupScan
    <3>1. CASE ScanEnds(t, s)
      BY <3>1
    <3>2. CASE ~ScanEnds(t, s)
      <4>1. GroupIteration(t, s, TRUE, 6) \in GroupScan
        BY <2>1, <3>2, GroupPass
      <4>2. Pass(s) = GroupIteration(t, s, TRUE, 6)
        BY <1>3, <3>2
      <4> HIDE DEF Pass
      <4> QED BY <4>1, <4>2
    <3> QED BY <3>1, <3>2
  <2> QED BY <2>2
<1>5. ScanMixed(t) = after[w]
  BY DEF ScanMixed, Passes
<1> HIDE DEF Pass, w
<1>6. IsStep(step, w, GroupScan)
  BY <1>4 DEF IsStep
<1>7. PICK f : S4!IsLoop(f, w, GroupScan, StartOfScan, step)
  <2> HIDE DEF step
  <2> QED BY <1>1, <1>2, <1>6, LoopResult
<1>8. IsIt(f)
  <2>1. /\ f \in [0 .. w -> GroupScan]
        /\ f[0] = StartOfScan
        /\ \A k \in 1 .. w : f[k] = step[<<k, f[k - 1]>>]
    BY <1>7 DEF S4!IsLoop
  <2>2. \A k \in 1 .. w : f[k - 1] \in GroupScan
    BY <1>1, <2>1
  <2>3. \A k \in 1 .. w : f[k] = Pass(f[k - 1])
    BY <2>1, <2>2
  <2> HIDE DEF step
  <2> QED BY <2>1, <2>3
<1>9. IsIt(after)
  <2> HIDE DEF IsIt
  <2> QED BY <1>8
<1> HIDE DEF after, step
<1>10. after[0] = StartOfScan /\ \A n \in 1 .. w : after[n] = Pass(after[n - 1])
  BY <1>1, <1>9
<1>11. \A n \in 0 .. w : after[n] \in GroupScan
  <2>1. \A n \in 1 .. w : after[n - 1] \in GroupScan => after[n] \in GroupScan
    BY <1>4, <1>10
  <2>2. after[0] \in GroupScan
    BY <1>2, <1>10
  <2> QED BY ONLY <1>1, <2>1, <2>2, LoopType
<1>12. \A n \in 1 .. w : after[n] = IF ScanEnds(t, after[n - 1]) THEN after[n - 1]
                          ELSE GroupIteration(t, after[n - 1], TRUE, 6)
  <2>1. \A n \in 1 .. w : after[n - 1] \in GroupScan
    BY <1>1, <1>11
  <2> QED BY <1>3, <1>10, <2>1
<1>13. IsTrail(after, t, TRUE, 6)
  BY <1>10, <1>11, <1>12 DEF IsTrail, w
<1> QED BY <1>5, <1>13 DEF w

\* The groups gs have been read from behind position b, with their colons, and
\* the scan is at p: at the next item, at a :: or at the end.
ListRead(t, b, gs, p, virt) ==
  /\ p \in {b + 2 * Len(gs), b + 2 * Len(gs) + 1}
  /\ p <= Len(t) + 1
  /\ p = b + 2 * Len(gs) => p = Len(t) + 1 \/ (Len(gs) > 0 /\ AtGap(t, p, virt))
  /\ p = b + 2 * Len(gs) + 1 /\ Len(gs) > 0 =>
       (p <= Len(t) => t[p].c # ":") /\ (virt => p <= Len(t))
  /\ \A i \in 1 .. Len(gs) : /\ IsGroup(t[b + 2 * i - 1])
                             /\ gs[i] = t[b + 2 * i - 1].v
                             /\ b + 2 * i < p => t[b + 2 * i].c = ":"

LEMMA ListGrows ==
  ASSUME NEW t \in Seq(Token), NEW b \in Nat, NEW gs \in Seq(Word), NEW virt \in BOOLEAN,
         NEW p \in 1 .. Len(t), ListRead(t, b, gs, p, virt), ~AtGap(t, p, virt),
         IsGroup(t[p]), p < Len(t) => t[p + 1].c = ":"
  PROVE  ListRead(t, b, Append(gs, t[p].v), Behind(t, p, virt), virt)
<1>1. PICK n, m, next, v, hs : /\ n = Len(t) /\ m = Len(gs) /\ next = Behind(t, p, virt)
                               /\ v = t[p].v /\ hs = Append(gs, v)
  OBVIOUS
<1>2. n \in Nat /\ m \in Nat /\ p \in 1 .. n /\ b \in Nat
  BY <1>1
<1>3. p = b + 2 * m + 1
  BY <1>1, <1>2 DEF ListRead
<1>4. v \in Word
  <2>1. t[p] \in Token
    OBVIOUS
  <2> QED BY <2>1, <1>1, GroupIs
<1>5. hs \in Seq(Word) /\ Len(hs) = m + 1 /\ hs[m + 1] = v /\ \A i \in 1 .. m : hs[i] = gs[i]
  BY <1>1, <1>2, <1>4
<1>6. b + 2 * (m + 1) = p + 1 /\ b + 2 * (m + 1) + 1 = p + 2 /\ b + 2 * (m + 1) - 1 = p
  BY <1>2, <1>3
<1>7. \A i \in 1 .. m : /\ IsGroup(t[b + 2 * i - 1])
                        /\ gs[i] = t[b + 2 * i - 1].v
                        /\ b + 2 * i < p => t[b + 2 * i].c = ":"
  BY <1>1 DEF ListRead
<1>8. \A i \in 1 .. m : b + 2 * i < p
  BY <1>2, <1>3
<1>9. \/ next = p + 1 /\ (p = n \/ AtGap(t, p + 1, virt))
      \/ next = p + 2 /\ p # n /\ ~AtGap(t, p + 1, virt)
  BY <1>1 DEF Behind
<1>10. ASSUME NEW i \in 1 .. m + 1
       PROVE  /\ IsGroup(t[b + 2 * i - 1])
              /\ hs[i] = t[b + 2 * i - 1].v
              /\ b + 2 * i < next => t[b + 2 * i].c = ":"
  <2>1. CASE i = m + 1
    <3>1. b + 2 * i = p + 1 /\ b + 2 * i - 1 = p
      BY <2>1, <1>6
    <3>2. p + 1 < next => p < n
      BY <1>2, <1>9
    <3> QED BY <3>1, <3>2, <2>1, <1>1, <1>5
  <2>2. CASE i # m + 1
    <3>1. i \in 1 .. m
      BY <2>2, <1>2
    <3> QED BY <3>1, <1>5, <1>7, <1>8
  <2> QED BY <2>1, <2>2
<1>11. next \in {p + 1, p + 2} /\ next <= n + 1
  BY <1>2, <1>9
<1>12. next = p + 1 => next = n + 1 \/ (m + 1 > 0 /\ AtGap(t, next, virt))
  BY <1>2, <1>9
<1>13. next = p + 2 => (next <= n => t[next].c # ":") /\ (virt => next <= n)
  <2> SUFFICES ASSUME next = p + 2
               PROVE  (p + 2 <= n => t[p + 2].c # ":") /\ (virt => p + 2 <= n)
    BY <1>2
  <2>1. p < n /\ ~AtGap(t, p + 1, virt) /\ t[p + 1].c = ":"
    BY <1>1, <1>2, <1>9
  <2>2. IF p + 1 = n THEN ~virt ELSE t[p + 1 + 1].c # ":"
    BY <1>1, <1>2, <2>1 DEF AtGap
  <2>3. p + 1 + 1 = p + 2 /\ (p + 1 # n => p + 2 <= n) /\ (p + 1 = n => ~(p + 2 <= n))
    BY <1>2, <2>1
  <2> QED BY <2>2, <2>3
<1>14. ListRead(t, b, hs, next, virt)
  BY <1>1, <1>5, <1>6, <1>10, <1>11, <1>12, <1>13 DEF ListRead
<1> QED BY <1>1, <1>14

\* Groups and colons in turn from behind position b up to e.
IsList(t, b, e) ==
  \A j \in b + 1 .. e : IF (j - b) % 2 = 1 THEN IsGroup(t[j]) ELSE t[j].c = ":"

LEMMA ReadIsList ==
  ASSUME NEW t \in Seq(Token), NEW b \in Nat, NEW gs \in Seq(Word), NEW virt \in BOOLEAN,
         NEW p \in Nat, ListRead(t, b, gs, p, virt)
  PROVE  IsList(t, b, p - 1)
<1> SUFFICES ASSUME NEW j \in b + 1 .. p - 1
             PROVE  IF (j - b) % 2 = 1 THEN IsGroup(t[j]) ELSE t[j].c = ":"
  BY DEF IsList
<1>1. PICK m : m = Len(gs)
  OBVIOUS
<1>2. m \in Nat /\ p \in {b + 2 * m, b + 2 * m + 1}
  BY <1>1 DEF ListRead
<1>3. \A i \in 1 .. m : /\ IsGroup(t[b + 2 * i - 1])
                        /\ b + 2 * i < p => t[b + 2 * i].c = ":"
  BY <1>1 DEF ListRead
<1>4. PICK d : d = j - b
  OBVIOUS
<1>5. d \in 1 .. 2 * m /\ j = b + d
  BY <1>2, <1>4
<1>6. CASE d % 2 = 1
  <2>1. PICK i : i = (d + 1) \div 2
    OBVIOUS
  <2>2. i \in 1 .. m /\ d = 2 * i - 1
    BY <1>2, <1>5, <1>6, <2>1
  <2>3. j = b + 2 * i - 1
    BY <1>5, <2>2
  <2> QED BY <1>3, <1>4, <1>6, <2>2, <2>3
<1>7. CASE d % 2 # 1
  <2>1. PICK i : i = d \div 2
    OBVIOUS
  <2>2. i \in 1 .. m /\ d = 2 * i
    BY <1>2, <1>5, <1>7, <2>1
  <2>3. j = b + 2 * i /\ j < p
    BY <1>2, <1>5, <2>2
  <2> QED BY <1>3, <1>4, <1>7, <2>2, <2>3
<1> QED BY <1>6, <1>7

\* A group is not a colon.
LEMMA GroupIsNoColon ==
  ASSUME NEW x, IsGroup(x)
  PROVE  x.c # ":"
BY DEF IsGroup

\* A text laid out in groups and colons, with a :: at g, or without one where g
\* is the position behind its end.  In the pure path a single colon may end it.
IsLaid(t, g, virt, max) ==
  /\ g \in 1 .. Len(t) + 1
  /\ IsList(t, 0, g - 1)
  /\ IF g = Len(t) + 1
       THEN /\ g \div 2 = max
            /\ virt => Len(t) % 2 = 1
       ELSE /\ AtGap(t, g, virt)
            /\ g = 1 \/ g % 2 = 0
            /\ IsList(t, g + 1, Len(t))
            /\ g \div 2 + (Len(t) - g) \div 2 < max
            /\ virt => Len(t) <= g + 1 \/ (Len(t) - g - 1) % 2 = 1

\* A scan does not pass a ::.
LEMMA NotPast ==
  ASSUME NEW t \in Seq(Token), NEW virt \in BOOLEAN, NEW max \in Nat,
         NEW g, IsLaid(t, g, virt, max),
         NEW gs \in Seq(Word), NEW p \in Nat \ {0}, ListRead(t, 0, gs, p, virt)
  PROVE  p <= g
<1>1. PICK n, m : n = Len(t) /\ m = Len(gs)
  OBVIOUS
<1>2. /\ n \in Nat /\ m \in Nat /\ g \in 1 .. n + 1 /\ p \in {2 * m, 2 * m + 1} /\ p <= n + 1
      /\ p = 2 * m + 1 /\ m > 0 => (p <= n => t[p].c # ":") /\ (virt => p <= n)
  BY <1>1 DEF ListRead, IsLaid
<1> SUFFICES ASSUME g < p PROVE FALSE
  BY <1>2
<1>3. g # n + 1
  BY <1>2
<1>4. AtGap(t, g, virt) /\ (g = 1 \/ g % 2 = 0)
  BY <1>1, <1>3 DEF IsLaid
<1>5. t[g].c = ":" /\ g \in 1 .. n /\ (IF g = n THEN virt ELSE t[g + 1].c = ":")
  BY <1>1, <1>4 DEF AtGap
<1>6. \A j \in 1 .. p - 1 : j % 2 = 1 => IsGroup(t[j])
  <2>1. IsList(t, 0, p - 1)
    BY ReadIsList
  <2>2. \A j \in 1 .. p - 1 : j \in 0 + 1 .. p - 1 /\ j - 0 = j
    OBVIOUS
  <2> QED BY <2>1, <2>2 DEF IsList
<1>7. CASE g = 1
  <2>1. IsGroup(t[1])
    <3>1. 1 \in 1 .. p - 1 /\ 1 % 2 = 1
      BY <1>7
    <3> QED BY ONLY <1>6, <3>1
  <2> QED BY <2>1, <1>5, <1>7, GroupIsNoColon
<1>8. CASE g # 1 /\ g + 1 < p
  <2>1. (g + 1) % 2 = 1 /\ g + 1 \in 1 .. p - 1 /\ g # n
    BY <1>2, <1>4, <1>8
  <2> QED BY <2>1, <1>5, <1>6, GroupIsNoColon
<1>9. CASE g # 1 /\ g + 1 = p
  <2>1. p % 2 = 1
    BY <1>2, <1>4, <1>9
  <2>2. p = 2 * m + 1 /\ m > 0
    BY <2>1, <1>2, <1>9
  <2> QED BY <2>2, <1>2, <1>5, <1>9
<1> QED BY <1>2, <1>7, <1>8, <1>9

\* There is no other :: in front of it.
LEMMA NoGapBefore ==
  ASSUME NEW t \in Seq(Token), NEW virt \in BOOLEAN, NEW max \in Nat,
         NEW g, IsLaid(t, g, virt, max), NEW h, AtGap(t, h, virt), h <= g
  PROVE  h = g
<1>1. PICK n : n = Len(t)
  OBVIOUS
<1>2. n \in Nat /\ g \in 1 .. n + 1 /\ h \in 1 .. n
      /\ t[h].c = ":" /\ (IF h = n THEN virt ELSE t[h + 1].c = ":")
  BY <1>1 DEF IsLaid, AtGap
<1> SUFFICES ASSUME h < g PROVE FALSE
  BY <1>2
<1>3. \A j \in 1 .. g - 1 : j % 2 = 1 => t[j].c # ":"
  <2>1. \A j \in 1 .. g - 1 : j \in 0 + 1 .. g - 1 /\ j - 0 = j
    BY <1>2
  <2>2. \A j \in 1 .. g - 1 : j % 2 = 1 => IsGroup(t[j])
    BY <2>1 DEF IsLaid, IsList
  <2> QED BY <2>2, GroupIsNoColon
<1>4. h % 2 = 0
  BY <1>2, <1>3
<1>5. h + 1 = g
  <2> SUFFICES ASSUME h + 1 < g PROVE FALSE
    BY <1>2
  <2>1. (h + 1) % 2 = 1 /\ h + 1 \in 1 .. g - 1 /\ h # n
    BY <1>2, <1>4
  <2> QED BY <2>1, <1>2, <1>3
<1>6. g % 2 = 1 /\ g # 1
  BY <1>2, <1>4, <1>5
<1>7. g = n + 1 /\ h = n
  BY <1>1, <1>2, <1>5, <1>6 DEF IsLaid
<1>8. n % 2 = 1
  BY <1>1, <1>2, <1>7 DEF IsLaid
<1> QED BY <1>2, <1>4, <1>7, <1>8

\* Where the :: was that a scan has met.
GapOf(s) == IF Len(s.before) = 0 THEN 1 ELSE 2 * Len(s.before)

\* What a scan has read when it has come this far.
Reading(t, s, virt) ==
  /\ s.cc = FALSE => /\ s.after = <<>>
                     /\ ListRead(t, 0, s.before, s.p, virt)
  /\ s.cc = TRUE => /\ GapOf(s) < s.p
                    /\ AtGap(t, GapOf(s), virt)
                    /\ ListRead(t, 0, s.before, GapOf(s), virt)
                    /\ ListRead(t, GapOf(s) + 1, s.after, s.p, virt)

\* A :: is where GapOf looks for it.
LEMMA GapFound ==
  ASSUME NEW t \in Seq(Token), NEW virt \in BOOLEAN, NEW gs \in Seq(Word), NEW p \in Nat \ {0},
         ListRead(t, 0, gs, p, virt), AtGap(t, p, virt)
  PROVE  p = IF Len(gs) = 0 THEN 1 ELSE 2 * Len(gs)
<1>1. PICK n, m : n = Len(t) /\ m = Len(gs)
  OBVIOUS
<1>2. /\ n \in Nat /\ m \in Nat /\ p \in {2 * m, 2 * m + 1}
      /\ p = 2 * m + 1 /\ m > 0 => (p <= n => t[p].c # ":")
  BY <1>1 DEF ListRead
<1>3. p \in 1 .. n /\ t[p].c = ":"
  BY <1>1 DEF AtGap
<1> QED BY <1>1, <1>2, <1>3

LEMMA ReadingGrows ==
  ASSUME NEW t \in Seq(Token), NEW s \in GroupScan, ~ScanEnds(t, s),
         NEW virt \in BOOLEAN, NEW max \in Nat, Reading(t, s, virt),
         NEW r, r = GroupIteration(t, s, virt, max), ~r.bad
  PROVE  Reading(t, r, virt)
<1>1. /\ s.p \in 1 .. Len(t) /\ Len(t) \in Nat /\ s.cc \in BOOLEAN
      /\ s.before \in Seq(Word) /\ s.after \in Seq(Word)
  BY DEF ScanEnds, GroupScan
<1>2. /\ r \in GroupScan
      /\ IF AtGap(t, s.p, virt) THEN ~s.cc ELSE GroupFits(t, s, virt, max)
      /\ AtGap(t, s.p, virt) =>
              /\ r.cc /\ r.p = BehindGap(t, s.p)
              /\ r.before = s.before /\ r.after = s.after
      /\ ~AtGap(t, s.p, virt) =>
              /\ r.cc = s.cc /\ r.p = Behind(t, s.p, virt)
              /\ r.before = IF s.cc THEN s.before ELSE Append(s.before, t[s.p].v)
              /\ r.after = IF s.cc THEN Append(s.after, t[s.p].v) ELSE s.after
      /\ r.p > s.p
  BY GroupPass
<1>3. r.cc \in BOOLEAN
  BY <1>2 DEF GroupScan
<1>4. PICK p, n : p = s.p /\ n = Len(t)
  OBVIOUS
<1>5. CASE AtGap(t, p, virt)
  <2>1. s.cc = FALSE /\ r.cc = TRUE /\ r.p = BehindGap(t, p) /\ r.before = s.before
        /\ r.after = s.after
    BY <1>1, <1>2, <1>3, <1>4, <1>5
  <2>2. s.after = <<>> /\ ListRead(t, 0, s.before, p, virt)
    BY <1>4, <2>1 DEF Reading
  <2>3. p = GapOf(r) /\ p \in 1 .. n
    <3>1. p \in Nat \ {0}
      BY <1>1, <1>4
    <3>2. p = IF Len(s.before) = 0 THEN 1 ELSE 2 * Len(s.before)
      BY <1>1, <1>5, <2>2, <3>1, GapFound
    <3> QED BY <1>1, <1>4, <2>1, <3>2 DEF GapOf
  <2>4. BehindGap(t, p) = IF p < n THEN p + 2 ELSE p + 1
    BY <1>4 DEF BehindGap
  <2>5. Len(<<>>) = 0
    OBVIOUS
  <2>6. ListRead(t, p + 1, <<>>, BehindGap(t, p), virt)
    BY <1>1, <1>4, <2>3, <2>4, <2>5 DEF ListRead
  <2>7. p < r.p
    BY <1>2, <1>4
  <2> QED BY <1>5, <2>1, <2>2, <2>3, <2>6, <2>7 DEF Reading
<1>6. CASE ~AtGap(t, p, virt) /\ s.cc = FALSE
  <2>1. r.cc = FALSE /\ r.p = Behind(t, p, virt) /\ r.before = Append(s.before, t[p].v)
        /\ r.after = s.after
    BY <1>2, <1>4, <1>6
  <2>2. s.after = <<>> /\ ListRead(t, 0, s.before, p, virt)
    BY <1>4, <1>6 DEF Reading
  <2>3. IsGroup(t[p]) /\ (p < Len(t) => t[p + 1].c = ":") /\ p \in 1 .. Len(t)
    BY <1>1, <1>2, <1>4, <1>6 DEF GroupFits
  <2>4. ListRead(t, 0, Append(s.before, t[p].v), Behind(t, p, virt), virt)
    BY <1>1, <1>6, <2>2, <2>3, ListGrows
  <2> QED BY <2>1, <2>2, <2>4 DEF Reading
<1>7. CASE ~AtGap(t, p, virt) /\ s.cc = TRUE
  <2>1. r.cc = TRUE /\ r.p = Behind(t, p, virt) /\ r.before = s.before
        /\ r.after = Append(s.after, t[p].v)
    BY <1>2, <1>4, <1>7
  <2>2. PICK g : g = GapOf(s)
    OBVIOUS
  <2>3. /\ g < p /\ AtGap(t, g, virt) /\ ListRead(t, 0, s.before, g, virt)
        /\ ListRead(t, g + 1, s.after, p, virt)
    BY <1>4, <1>7, <2>2 DEF Reading
  <2>4. IsGroup(t[p]) /\ (p < Len(t) => t[p + 1].c = ":") /\ p \in 1 .. Len(t)
    BY <1>1, <1>2, <1>4, <1>7 DEF GroupFits
  <2>5. g + 1 \in Nat
    BY <2>3 DEF AtGap
  <2>6. ListRead(t, g + 1, Append(s.after, t[p].v), Behind(t, p, virt), virt)
    BY <1>1, <1>7, <2>3, <2>4, <2>5, ListGrows
  <2>7. g = GapOf(r) /\ g < r.p
    <3>1. g < p /\ p < r.p /\ g \in Int /\ p \in Int /\ r.p \in Int
      BY <1>1, <1>2, <1>4, <2>3, <2>5 DEF GroupScan, AtGap
    <3> QED BY <2>1, <2>2, <3>1 DEF GapOf
  <2> QED BY <2>1, <2>3, <2>6, <2>7 DEF Reading
<1> QED BY <1>1, <1>4, <1>5, <1>6, <1>7

\* In a text that is laid out no pass gives up.
LEMMA LaidFits ==
  ASSUME NEW t \in Seq(Token), NEW s \in GroupScan, ~ScanEnds(t, s),
         NEW virt \in BOOLEAN, NEW max \in Nat, Reading(t, s, virt),
         NEW g, IsLaid(t, g, virt, max)
  PROVE  IF AtGap(t, s.p, virt) THEN ~s.cc ELSE GroupFits(t, s, virt, max)
<1>1. PICK p, n : p = s.p /\ n = Len(t)
  OBVIOUS
<1>2. /\ p \in 1 .. n /\ n \in Nat /\ s.cc \in BOOLEAN
      /\ s.before \in Seq(Word) /\ s.after \in Seq(Word) /\ p \in Nat \ {0}
      /\ g \in 1 .. n + 1
  BY <1>1 DEF ScanEnds, GroupScan, IsLaid
<1>3. CASE s.cc = FALSE
  <2>1. ListRead(t, 0, s.before, p, virt)
    BY <1>1, <1>3 DEF Reading
  <2>2. p <= g
    BY <1>2, <2>1, NotPast
  <2> SUFFICES ASSUME ~AtGap(t, p, virt) PROVE GroupFits(t, s, virt, max)
    BY <1>1, <1>3
  <2>3. PICK m : m = Len(s.before)
    OBVIOUS
  <2>4. m \in Nat /\ p = 2 * m + 1
    BY <1>1, <1>2, <2>1, <2>3 DEF ListRead
  <2>5. p # g
    BY <1>1, <1>2 DEF IsLaid
  <2>6. \A j \in 1 .. g - 1 : IF j % 2 = 1 THEN IsGroup(t[j]) ELSE t[j].c = ":"
    <3>1. \A j \in 1 .. g - 1 : j \in 0 + 1 .. g - 1 /\ j - 0 = j
      BY <1>2
    <3> QED BY <3>1 DEF IsLaid, IsList
  <2>7. IsGroup(t[p])
    <3>1. p % 2 = 1 /\ p \in 1 .. g - 1
      BY <1>2, <2>2, <2>4, <2>5
    <3> QED BY <2>6, <3>1
  <2>8. p < n => t[p + 1].c = ":"
    <3> SUFFICES ASSUME p < n PROVE t[p + 1].c = ":"
      OBVIOUS
    <3>1. CASE p + 1 < g
      <4>1. (p + 1) % 2 # 1 /\ p + 1 \in 1 .. g - 1
        BY <1>2, <2>4, <3>1
      <4> QED BY <2>6, <4>1
    <3>2. CASE p + 1 = g
      <4>1. AtGap(t, p + 1, virt)
        BY <1>1, <1>2, <3>2 DEF IsLaid
      <4> QED BY <4>1 DEF AtGap
    <3> QED BY <1>2, <2>2, <2>5, <3>1, <3>2
  <2>9. m < max
    <3>1. g \div 2 <= max /\ max \in Int
      <4>1. g = n + 1 => g \div 2 = max
        BY <1>1 DEF IsLaid
      <4>2. g # n + 1 => g \div 2 + (n - g) \div 2 < max
        BY <1>1 DEF IsLaid
      <4> QED BY <1>2, <4>1, <4>2
    <3>2. m + 1 <= g \div 2
      BY <1>2, <2>2, <2>4, <2>5
    <3> QED BY <1>2, <2>4, <3>1, <3>2
  <2> QED BY <1>1, <1>3, <2>3, <2>7, <2>8, <2>9 DEF GroupFits
<1>4. CASE s.cc = TRUE
  <2>1. PICK h, k : h = GapOf(s) /\ k = Len(s.after)
    OBVIOUS
  <2>2. /\ h < p /\ AtGap(t, h, virt) /\ ListRead(t, 0, s.before, h, virt)
        /\ ListRead(t, h + 1, s.after, p, virt)
    BY <1>1, <1>4, <2>1 DEF Reading
  <2>3. h = g /\ h \in 1 .. n
    <3>1. h \in 1 .. n /\ h \in Nat \ {0}
      BY <1>1, <1>2, <2>2 DEF AtGap
    <3>2. h <= g
      BY <1>2, <2>2, <3>1, NotPast
    <3> QED BY <2>2, <3>1, <3>2, NoGapBefore
  <2>4. \A j \in 1 .. n - g - 1 : IF j % 2 = 1 THEN IsGroup(t[g + 1 + j]) ELSE t[g + 1 + j].c = ":"
    <3>1. \A j \in 1 .. n - g - 1 : g + 1 + j \in g + 1 + 1 .. n /\ (g + 1 + j) - (g + 1) = j
      BY <1>2
    <3>2. IsList(t, g + 1, n)
      BY <1>1, <1>2, <2>3 DEF IsLaid
    <3> QED BY <3>1, <3>2 DEF IsList
  <2>5. /\ g \div 2 + (n - g) \div 2 < max
        /\ virt => n <= g + 1 \/ (n - g - 1) % 2 = 1
    BY <1>1, <1>2, <2>3 DEF IsLaid
  <2>6. /\ k \in Nat /\ p \in {g + 1 + 2 * k, g + 1 + 2 * k + 1}
        /\ p = g + 1 + 2 * k => k > 0 /\ AtGap(t, p, virt)
    <3>1. ListRead(t, g + 1, s.after, p, virt) /\ k \in Nat
      BY <1>2, <2>1, <2>2, <2>3
    <3>2. p # n + 1
      BY <1>2
    <3> QED BY <1>1, <2>1, <3>1, <3>2 DEF ListRead
  <2>7. p = g + 1 + 2 * k + 1
    <3> SUFFICES ASSUME p = g + 1 + 2 * k PROVE FALSE
      BY <2>6
    <3>1. k > 0 /\ (IF p = n THEN virt ELSE t[p + 1].c = ":")
      BY <1>1, <2>6 DEF AtGap
    <3>2. CASE p = n
      BY <1>2, <2>3, <2>5, <2>6, <3>1, <3>2
    <3>3. CASE p # n
      <4>1. p + 1 = g + 1 + (2 * k + 1) /\ 2 * k + 1 \in 1 .. n - g - 1 /\ (2 * k + 1) % 2 = 1
        BY <1>2, <2>3, <2>6, <3>3
      <4>2. IsGroup(t[p + 1])
        BY <2>4, <4>1
      <4> QED BY <3>1, <3>3, <4>2, GroupIsNoColon
    <3> QED BY <3>2, <3>3
  <2>8. IsGroup(t[p])
    <3>1. p = g + 1 + (2 * k + 1) /\ 2 * k + 1 \in 1 .. n - g - 1 /\ (2 * k + 1) % 2 = 1
      BY <1>2, <2>3, <2>6, <2>7
    <3> QED BY <2>4, <3>1
  <2>9. ~AtGap(t, p, virt)
    BY <2>8, GroupIsNoColon DEF AtGap
  <2>10. p < n => t[p + 1].c = ":"
    <3> SUFFICES ASSUME p < n PROVE t[p + 1].c = ":"
      OBVIOUS
    <3>1. /\ p + 1 = g + 1 + (2 * k + 2) /\ 2 * k + 2 \in 1 .. n - g - 1
          /\ (2 * k + 2) % 2 # 1
      BY <1>2, <2>3, <2>6, <2>7
    <3> QED BY <2>4, <3>1
  <2>11. k < max
    <3>1. k + 1 <= (n - g) \div 2 /\ g \div 2 \in Nat
      BY <1>2, <2>3, <2>6, <2>7
    <3> QED BY <1>2, <2>3, <2>5, <2>6, <3>1
  <2> QED BY <1>1, <1>4, <2>1, <2>8, <2>9, <2>10, <2>11 DEF GroupFits
<1> QED BY <1>2, <1>3, <1>4

\* A scan that was not given up has read the whole text.
LEMMA ScanReads ==
  ASSUME NEW t \in Seq(Token), NEW virt \in BOOLEAN, NEW max \in Nat \ {0},
         NEW f, IsTrail(f, t, virt, max), NEW s, s = f[Len(t)]
  PROVE  /\ s \in GroupScan
         /\ ~s.bad => Reading(t, s, virt) /\ s.p = Len(t) + 1
         /\ \A g : IsLaid(t, g, virt, max) => ~s.bad
<1>1. PICK w : w = Len(t)
  OBVIOUS
<1>2. /\ f[0] = StartOfScan
      /\ \A n \in 0 .. w : f[n] \in GroupScan
      /\ \A n \in 1 .. w :
           f[n] = IF ScanEnds(t, f[n - 1]) THEN f[n - 1]
                  ELSE GroupIteration(t, f[n - 1], virt, max)
      /\ w \in Nat /\ max \in Nat
  BY <1>1 DEF IsTrail
<1> DEFINE Laid == \E g : IsLaid(t, g, virt, max)
           Good(r, n) == /\ ScanEnds(t, r) \/ r.p > n
                         /\ ~r.bad => Reading(t, r, virt)
                         /\ Laid => ~r.bad
           S == {n \in 0 .. w : Good(f[n], n)}
<1>3. 0 \in S
  <2>1. PICK r : r = f[0]
    OBVIOUS
  <2>2. r.p = 1 /\ r.cc = FALSE /\ r.before = <<>> /\ r.after = <<>> /\ r.bad = FALSE
        /\ Len(<<>>) = 0
    BY <1>2, <2>1 DEF StartOfScan
  <2>3. ListRead(t, 0, <<>>, 1, virt)
    BY <1>1, <1>2, <2>2 DEF ListRead
  <2>4. Reading(t, r, virt)
    BY <2>2, <2>3 DEF Reading
  <2>5. Good(r, 0) /\ 0 \in 0 .. w
    BY <1>2, <2>2, <2>4
  <2> HIDE DEF Good
  <2> QED BY <2>1, <2>5
<1>4. ASSUME NEW n \in 1 .. w, n - 1 \in S
      PROVE  n \in S
  <2>1. PICK r, e : r = f[n - 1] /\ e = f[n]
    OBVIOUS
  <2>2. r \in GroupScan /\ Good(r, n - 1) /\ n \in 0 .. w /\ n - 1 \in 0 .. w
    BY <2>1, <1>2, <1>4
  <2>3. e = IF ScanEnds(t, r) THEN r ELSE GroupIteration(t, r, virt, max)
    BY <2>1, <1>2
  <2>4. CASE ScanEnds(t, r)
    <3>1. Good(r, n)
      BY <2>2, <2>4
    <3> HIDE DEF Good
    <3> QED BY <2>1, <2>2, <2>3, <2>4, <3>1
  <2>5. CASE ~ScanEnds(t, r)
    <3>1. /\ e = GroupIteration(t, r, virt, max) /\ e \in GroupScan
          /\ e.bad <=> IF AtGap(t, r.p, virt) THEN r.cc ELSE ~GroupFits(t, r, virt, max)
          /\ ~e.bad => e.p > r.p
      BY <1>2, <2>2, <2>3, <2>5, GroupPass
    <3>2. r.p \in Nat /\ e.p \in Nat /\ ~r.bad /\ Reading(t, r, virt) /\ r.p > n - 1
      BY <2>2, <2>5, <3>1 DEF ScanEnds, GroupScan
    <3>3. ScanEnds(t, e) \/ e.p > n
      <4>1. e.bad => ScanEnds(t, e)
        BY DEF ScanEnds
      <4> QED BY <3>1, <3>2, <4>1
    <3>4. ~e.bad => Reading(t, e, virt)
      BY <1>2, <2>2, <2>5, <3>1, <3>2, ReadingGrows
    <3>5. Laid => ~e.bad
      BY <1>2, <2>2, <2>5, <3>1, <3>2, LaidFits
    <3>6. Good(e, n)
      BY <3>3, <3>4, <3>5
    <3> HIDE DEF Good
    <3> QED BY <2>1, <2>2, <3>6
  <2> QED BY <2>4, <2>5
<1>5. Good(s, w) /\ s \in GroupScan
  <2>1. 0 .. w \subseteq S
    <3> HIDE DEF S
    <3>1. w \in Nat
      BY <1>2
    <3> QED BY ONLY <3>1, <1>3, <1>4, S4!RoundByRound
  <2>2. w \in 0 .. w /\ s = f[w] /\ f[w] \in GroupScan
    BY <1>1, <1>2
  <2>3. w \in S
    <3> HIDE DEF S
    <3> QED BY ONLY <2>1, <2>2
  <2>4. Good(f[w], w)
    <3> HIDE DEF Good
    <3> QED BY ONLY <2>3
  <2> HIDE DEF Good
  <2> QED BY ONLY <2>2, <2>4
<1>6. ~s.bad => Reading(t, s, virt) /\ s.p = w + 1
  <2> SUFFICES ASSUME ~s.bad PROVE Reading(t, s, virt) /\ s.p = w + 1
    OBVIOUS
  <2>1. Reading(t, s, virt) /\ s.p > w /\ s.p \in Nat
    BY <1>1, <1>5 DEF ScanEnds, GroupScan
  <2>2. s.p <= w + 1
    BY <1>1, <1>5, <2>1 DEF Reading, ListRead, GroupScan
  <2> QED BY <1>2, <2>1, <2>2
<1> QED BY <1>1, <1>5, <1>6

\* The groups of a text that is laid out, in front of its :: and behind it.
GroupsBefore(t, g, gs) == /\ Len(gs) = g \div 2
                          /\ \A i \in 1 .. Len(gs) : gs[i] = t[2 * i - 1].v
GroupsAfter(t, g, gs) ==
  IF g = Len(t) + 1 THEN gs = <<>>
  ELSE /\ Len(gs) = (Len(t) - g) \div 2
       /\ \A i \in 1 .. Len(gs) : gs[i] = t[g + 2 * i].v

\* The scan takes a text if and only if it is laid out with as many groups as
\* there have to be, and has read its groups then.
LEMMA GroupsScanned ==
  ASSUME NEW t \in Seq(Token), NEW virt \in BOOLEAN, NEW max \in Nat \ {0},
         NEW f, IsTrail(f, t, virt, max), NEW s, s = f[Len(t)]
  PROVE  /\ s \in GroupScan
         /\ ~s.bad /\ CountFits(s, max) => \E g : IsLaid(t, g, virt, max)
         /\ \A g : IsLaid(t, g, virt, max) =>
              /\ ~s.bad /\ CountFits(s, max)
              /\ GroupsBefore(t, g, s.before) /\ GroupsAfter(t, g, s.after)
<1>1. /\ s \in GroupScan
      /\ ~s.bad => Reading(t, s, virt) /\ s.p = Len(t) + 1
      /\ \A g : IsLaid(t, g, virt, max) => ~s.bad
  BY ScanReads
<1> SUFFICES ASSUME ~s.bad
             PROVE  /\ CountFits(s, max) => \E g : IsLaid(t, g, virt, max)
                    /\ \A g : IsLaid(t, g, virt, max) =>
                         /\ CountFits(s, max)
                         /\ GroupsBefore(t, g, s.before) /\ GroupsAfter(t, g, s.after)
  BY <1>1
<1>2. PICK n, p, m, k, before, after :
        /\ n = Len(t) /\ p = s.p /\ m = Len(before) /\ k = Len(after)
        /\ before = s.before /\ after = s.after
  OBVIOUS
<1>3. /\ n \in Nat /\ p = n + 1 /\ m \in Nat /\ k \in Nat /\ s.cc \in BOOLEAN
      /\ before \in Seq(Word) /\ after \in Seq(Word) /\ max \in Nat \ {0} /\ p \in Nat \ {0}
  BY <1>1, <1>2 DEF GroupScan
<1>4. Reading(t, s, virt)
  BY <1>1
<1>5. CountFits(s, max) <=> IF s.cc THEN m + k < max ELSE m + k = max
  BY <1>2 DEF CountFits
<1>6. CASE s.cc = FALSE
  <2>1. after = <<>> /\ k = 0 /\ ListRead(t, 0, before, p, virt)
    BY <1>2, <1>4, <1>6 DEF Reading
  <2>2. /\ p \in {2 * m, 2 * m + 1}
        /\ p = 2 * m + 1 /\ m > 0 => (virt => p <= n)
        /\ \A i \in 1 .. m : before[i] = t[0 + 2 * i - 1].v
    BY <1>2, <1>3, <2>1 DEF ListRead
  <2>3. \A i \in 1 .. m : before[i] = t[2 * i - 1].v
    <3>1. \A i \in 1 .. m : 0 + 2 * i - 1 = 2 * i - 1
      BY <1>3
    <3> QED BY <2>2, <3>1
  <2>4. m = (n + 1) \div 2
    BY <1>3, <2>2
  <2>5. CountFits(s, max) => IsLaid(t, n + 1, virt, max)
    <3> SUFFICES ASSUME m = max PROVE IsLaid(t, n + 1, virt, max)
      BY <1>3, <1>5, <1>6, <2>1
    <3>1. IsList(t, 0, n + 1 - 1)
      BY <1>3, <2>1, ReadIsList
    <3>2. virt => n % 2 = 1
      BY <1>3, <2>2
    <3> QED BY <1>2, <1>3, <2>4, <3>1, <3>2 DEF IsLaid
  <2>6. ASSUME NEW g, IsLaid(t, g, virt, max)
        PROVE  /\ CountFits(s, max)
               /\ GroupsBefore(t, g, before) /\ GroupsAfter(t, g, after)
    <3>1. p <= g
      BY <1>3, <2>1, <2>6, NotPast
    <3>2. g = n + 1
      BY <1>2, <1>3, <2>6, <3>1 DEF IsLaid
    <3>3. g \div 2 = max
      BY <1>2, <2>6, <3>2 DEF IsLaid
    <3>4. CountFits(s, max)
      BY <1>3, <1>5, <1>6, <2>1, <2>4, <3>2, <3>3
    <3>5. GroupsBefore(t, g, before)
      BY <1>2, <2>3, <2>4, <3>2 DEF GroupsBefore
    <3>6. GroupsAfter(t, g, after)
      BY <1>2, <2>1, <3>2 DEF GroupsAfter
    <3> QED BY <3>4, <3>5, <3>6
  <2> QED BY <1>2, <2>5, <2>6
<1>7. CASE s.cc = TRUE
  <2>1. PICK h : h = GapOf(s)
    OBVIOUS
  <2>2. /\ h < p /\ AtGap(t, h, virt) /\ ListRead(t, 0, before, h, virt)
        /\ ListRead(t, h + 1, after, p, virt)
    BY <1>2, <1>4, <1>7, <2>1 DEF Reading
  <2>3. h \in 1 .. n /\ h \in Nat \ {0} /\ h + 1 \in Nat
    BY <1>2, <1>3, <2>2 DEF AtGap
  <2>4. h = IF m = 0 THEN 1 ELSE 2 * m
    BY <1>2, <2>1 DEF GapOf
  <2>5. /\ p \in {h + 1 + 2 * k, h + 1 + 2 * k + 1}
        /\ p = h + 1 + 2 * k + 1 /\ k > 0 => (virt => p <= n)
        /\ \A i \in 1 .. k : after[i] = t[h + 1 + 2 * i - 1].v
    BY <1>2, <1>3, <2>2 DEF ListRead
  <2>6. k = (n - h) \div 2 /\ m = h \div 2
    <3>1. n - h \in {2 * k, 2 * k + 1}
      <4>1. /\ n \in Nat /\ k \in Nat /\ h \in Nat /\ p = n + 1
            /\ p \in {h + 1 + 2 * k, h + 1 + 2 * k + 1}
        BY <1>3, <2>3, <2>5
      <4> QED BY ONLY <4>1
    <3>2. k = (n - h) \div 2
      BY <1>3, <3>1
    <3>3. m = h \div 2
      BY <1>3, <2>4
    <3> QED BY <3>2, <3>3
  <2>7. \A i \in 1 .. m : before[i] = t[2 * i - 1].v
    <3>1. \A i \in 1 .. m : before[i] = t[0 + 2 * i - 1].v
      BY <1>2, <2>2 DEF ListRead
    <3>2. \A i \in 1 .. m : 0 + 2 * i - 1 = 2 * i - 1
      BY <1>3
    <3> QED BY <3>1, <3>2
  <2>8. \A i \in 1 .. k : after[i] = t[h + 2 * i].v
    <3>1. \A i \in 1 .. k : h + 1 + 2 * i - 1 = h + 2 * i
      BY <1>3, <2>3
    <3> QED BY <2>5, <3>1
  <2>9. CountFits(s, max) => IsLaid(t, h, virt, max)
    <3> SUFFICES ASSUME m + k < max PROVE IsLaid(t, h, virt, max)
      BY <1>5, <1>7
    <3>1. IsList(t, 0, h - 1)
      BY <1>3, <2>2, <2>3, ReadIsList
    <3>2. IsList(t, h + 1, n)
      <4>1. IsList(t, h + 1, p - 1)
        BY <1>3, <2>2, <2>3, ReadIsList
      <4>2. p - 1 = n
        BY <1>3
      <4> QED BY <4>1, <4>2
    <3>3. h = 1 \/ h % 2 = 0
      BY <1>3, <2>3, <2>4
    <3>4. h \in 1 .. n + 1 /\ h # n + 1
      BY <1>3, <2>3
    <3>5. virt => n <= h + 1 \/ (n - h - 1) % 2 = 1
      <4> SUFFICES ASSUME virt, ~(n <= h + 1) PROVE (n - h - 1) % 2 = 1
        BY <1>3
      <4>1. ~(p <= n) /\ n > h + 1
        BY <1>3, <2>3
      <4>2. p = h + 1 + 2 * k /\ k > 0
        BY <1>3, <2>3, <2>5, <4>1
      <4>3. n - h - 1 = 2 * (k - 1) + 1 /\ k - 1 \in Nat
        BY <1>3, <2>3, <4>2
      <4> QED BY <4>3
    <3>6. h \div 2 + (n - h) \div 2 < max
      BY <2>6
    <3> QED BY <1>2, <2>2, <3>1, <3>2, <3>3, <3>4, <3>5, <3>6 DEF IsLaid
  <2>10. ASSUME NEW g, IsLaid(t, g, virt, max)
        PROVE  /\ CountFits(s, max)
               /\ GroupsBefore(t, g, before) /\ GroupsAfter(t, g, after)
    <3>1. h = g
      <4>1. h <= g
        BY <1>3, <2>2, <2>3, <2>10, NotPast
      <4> QED BY <1>3, <2>2, <2>3, <2>10, <4>1, NoGapBefore
    <3>2. g # n + 1
      BY <1>3, <2>3, <3>1
    <3>3. g \div 2 + (n - g) \div 2 < max
      BY <1>2, <2>10, <3>2 DEF IsLaid
    <3>4. CountFits(s, max)
      BY <1>5, <1>7, <2>6, <3>1, <3>3
    <3>5. GroupsBefore(t, g, before)
      BY <1>2, <2>6, <2>7, <3>1 DEF GroupsBefore
    <3>6. GroupsAfter(t, g, after)
      BY <1>2, <2>6, <2>8, <3>1, <3>2 DEF GroupsAfter
    <3> QED BY <3>4, <3>5, <3>6
  <2> QED BY <1>2, <2>9, <2>10
<1> QED BY <1>3, <1>6, <1>7

----------------------------------------------------------------------------
(* The grammar, position by position.                                      *)

LEMMA GroupsAre ==
  ASSUME NEW t \in Seq(Token)
  PROVE  IsGroups(t) <=> (Len(t) = 0 \/ Len(t) % 2 = 1) /\ IsList(t, 0, Len(t))
<1>1. DOMAIN t = 1 .. Len(t) /\ Len(t) \in Nat /\ (t = <<>> <=> Len(t) = 0)
  OBVIOUS
<1>2. IsList(t, 0, Len(t)) <=>
        \A p \in 1 .. Len(t) : IF p % 2 = 1 THEN IsGroup(t[p]) ELSE t[p].c = ":"
  <2>1. 0 + 1 = 1 /\ \A p \in 1 .. Len(t) : p - 0 = p
    BY <1>1
  <2> QED BY <2>1 DEF IsList
<1> QED BY <1>1, <1>2 DEF IsGroups, IsListOf

LEMMA ItemsAre ==
  ASSUME NEW t \in Seq(Token)
  PROVE  /\ Len(Items(t)) = (Len(t) + 1) \div 2
         /\ \A i \in 1 .. (Len(t) + 1) \div 2 : Items(t)[i] = t[2 * i - 1]
<1>1. (Len(t) + 1) \div 2 \in Nat
  OBVIOUS
<1> QED BY <1>1 DEF Items

\* The text in front of a position and the text behind one, as lists.
LEMMA PartsAreLists ==
  ASSUME NEW t \in Seq(Token), NEW p \in 1 .. Len(t)
  PROVE  /\ IsList(Before(t, p), 0, p - 1) <=> IsList(t, 0, p - 1)
         /\ IsList(After(t, p), 0, Len(t) - p) <=> IsList(t, p, Len(t))
<1>1. /\ \A k \in 1 .. p - 1 : Before(t, p)[k] = t[k]
      /\ \A k \in 1 .. Len(t) - p : After(t, p)[k] = t[p + k]
  BY PartsAre, Zenon
<1>2. IsList(Before(t, p), 0, p - 1) <=> IsList(t, 0, p - 1)
  <2>1. \A k \in 0 + 1 .. p - 1 : k \in 1 .. p - 1
    OBVIOUS
  <2> QED BY <1>1, <2>1 DEF IsList
<1>3. PICK a, n : a = After(t, p) /\ n = Len(t)
  OBVIOUS
<1>4. n \in Nat /\ p \in 1 .. n /\ \A k \in 1 .. n - p : a[k] = t[p + k]
  BY <1>1, <1>3, TextIs
<1>5. ASSUME IsList(a, 0, n - p)
      PROVE  IsList(t, p, n)
  <2> SUFFICES ASSUME NEW j \in p + 1 .. n
               PROVE  IF (j - p) % 2 = 1 THEN IsGroup(t[j]) ELSE t[j].c = ":"
    BY DEF IsList
  <2>1. PICK k : k = j - p
    OBVIOUS
  <2>2. k \in 0 + 1 .. n - p /\ p + k = j /\ k - 0 = k /\ k \in 1 .. n - p
    BY <1>4, <2>1
  <2>3. IF (k - 0) % 2 = 1 THEN IsGroup(a[k]) ELSE a[k].c = ":"
    BY <1>5, <2>2 DEF IsList
  <2> QED BY <1>4, <2>1, <2>2, <2>3
<1>6. ASSUME IsList(t, p, n)
      PROVE  IsList(a, 0, n - p)
  <2> SUFFICES ASSUME NEW k \in 0 + 1 .. n - p
               PROVE  IF (k - 0) % 2 = 1 THEN IsGroup(a[k]) ELSE a[k].c = ":"
    BY DEF IsList
  <2>1. PICK j : j = p + k
    OBVIOUS
  <2>2. j \in p + 1 .. n /\ j - p = k /\ k - 0 = k /\ k \in 1 .. n - p
    BY <1>4, <2>1
  <2>3. IF (j - p) % 2 = 1 THEN IsGroup(t[j]) ELSE t[j].c = ":"
    BY <1>6, <2>2 DEF IsList
  <2> QED BY <1>4, <2>1, <2>2, <2>3
<1> QED BY <1>2, <1>3, <1>5, <1>6

\* The places of a :: are those the text is laid out around, a group or the ::
\* itself being last.
LEMMA GapsAre ==
  ASSUME NEW t \in Seq(Token), NEW g
  PROVE  g \in Gaps(t) <=>
           /\ g \in 1 .. Len(t)
           /\ IsLaid(t, g, FALSE, 8)
           /\ Len(t) <= g + 1 \/ (Len(t) - g - 1) % 2 = 1
<1>1. PICK n : n = Len(t)
  OBVIOUS
<1>2. n \in Nat /\ DOMAIN t = 1 .. n
  BY <1>1
<1>3. SUFFICES ASSUME g \in 1 .. n - 1
      PROVE  g \in Gaps(t) <=>
               /\ IsLaid(t, g, FALSE, 8)
               /\ n <= g + 1 \/ (n - g - 1) % 2 = 1
  <2>1. g \in Gaps(t) => g \in 1 .. n - 1
    BY <1>1 DEF Gaps
  <2>2. g \in 1 .. n /\ IsLaid(t, g, FALSE, 8) => g \in 1 .. n - 1
    BY <1>1, <1>2 DEF IsLaid, AtGap
  <2>3. CASE g \in 1 .. n - 1
    <3>1. g \in 1 .. n
      BY <1>2, <2>3
    <3> QED BY <1>1, <2>3, <3>1
  <2>4. CASE g \notin 1 .. n - 1
    BY <1>1, <2>1, <2>2, <2>4
  <2> QED BY <2>3, <2>4
<1>4. /\ g \in 1 .. n /\ g + 1 \in 1 .. n /\ g # n /\ g # n + 1 /\ g \in 1 .. n + 1
      /\ n - (g + 1) = n - g - 1
  BY <1>2, <1>3
<1>5. AtGap(t, g, FALSE) <=> IsChar(t, g, ":") /\ IsChar(t, g + 1, ":")
  BY <1>1, <1>2, <1>4 DEF AtGap, IsChar
<1>6. PICK u, v : u = Before(t, g) /\ v = After(t, g + 1)
  OBVIOUS
<1>7. u \in Seq(Token) /\ v \in Seq(Token) /\ Len(u) = g - 1 /\ Len(v) = n - (g + 1)
  BY <1>1, <1>4, <1>6, PartsAre
<1>8. /\ IsList(u, 0, g - 1) <=> IsList(t, 0, g - 1)
      /\ IsList(v, 0, n - (g + 1)) <=> IsList(t, g + 1, n)
  BY <1>1, <1>4, <1>6, PartsAreLists
<1>9. IsGroups(u) <=> (g = 1 \/ g % 2 = 0) /\ IsList(t, 0, g - 1)
  <2>1. g - 1 = 0 \/ (g - 1) % 2 = 1 <=> g = 1 \/ g % 2 = 0
    BY <1>4
  <2> QED BY <1>7, <1>8, <2>1, GroupsAre
<1>10. IsGroups(v) <=> (n <= g + 1 \/ (n - g - 1) % 2 = 1) /\ IsList(t, g + 1, n)
  <2>1. n - (g + 1) = 0 \/ (n - (g + 1)) % 2 = 1 <=> n <= g + 1 \/ (n - g - 1) % 2 = 1
    BY <1>2, <1>4
  <2> QED BY <1>7, <1>8, <2>1, GroupsAre
<1>11. Len(Items(u)) = g \div 2 /\ Len(Items(v)) = (n - g) \div 2
  <2>1. g - 1 + 1 = g /\ n - (g + 1) + 1 = n - g
    BY <1>2, <1>4
  <2> QED BY <1>7, <2>1, ItemsAre
<1>12. g \in Gaps(t) <=>
         /\ IsChar(t, g, ":") /\ IsChar(t, g + 1, ":")
         /\ IsGroups(u) /\ IsGroups(v)
         /\ Len(Items(u)) + Len(Items(v)) < 8
  BY <1>1, <1>3, <1>6 DEF Gaps
<1>13. IsLaid(t, g, FALSE, 8) <=>
         /\ IsList(t, 0, g - 1) /\ AtGap(t, g, FALSE)
         /\ g = 1 \/ g % 2 = 0
         /\ IsList(t, g + 1, n)
         /\ g \div 2 + (n - g) \div 2 < 8
  BY <1>1, <1>4 DEF IsLaid
<1> QED BY <1>5, <1>9, <1>10, <1>11, <1>12, <1>13

\* There is only one, and none in a text laid out without.
LEMMA OneGap ==
  ASSUME NEW t \in Seq(Token), NEW g, IsLaid(t, g, FALSE, 8), NEW h \in Gaps(t)
  PROVE  h = g
<1>0. g \in 1 .. Len(t) + 1 /\ Len(t) \in Nat
  BY TextIs DEF IsLaid
<1>1. h \in 1 .. Len(t) /\ IsLaid(t, h, FALSE, 8)
  BY GapsAre
<1>2. AtGap(t, h, FALSE)
  <2>1. h # Len(t) + 1
    BY <1>0, <1>1
  <2> QED BY <1>1, <2>1 DEF IsLaid
<1>3. CASE h <= g
  BY <1>2, <1>3, NoGapBefore
<1>4. CASE g <= h
  <2>1. g # Len(t) + 1
    BY <1>0, <1>1, <1>4
  <2>2. AtGap(t, g, FALSE)
    BY <2>1 DEF IsLaid
  <2>3. g = h
    BY <1>1, <1>4, <2>2, NoGapBefore
  <2> QED BY <2>3
<1> QED BY <1>0, <1>1, <1>3, <1>4

\* A hexadecimal text, as the scanner sees it.
LEMMA HexadecimalIs ==
  ASSUME NEW t \in Seq(Token)
  PROVE  IsHexadecimal(t) <=>
           \E g : /\ IsLaid(t, g, FALSE, 8)
                  /\ IF g = Len(t) + 1 THEN Len(t) = 15 ELSE g \in Gaps(t)
<1>1. PICK n : n = Len(t)
  OBVIOUS
<1>2. n \in Nat
  BY <1>1
<1>3. IsGroups(t) /\ n = 15 <=> IsLaid(t, n + 1, FALSE, 8) /\ n = 15
  <2> SUFFICES ASSUME n = 15 PROVE IsGroups(t) <=> IsLaid(t, n + 1, FALSE, 8)
    OBVIOUS
  <2>1. n % 2 = 1 /\ (n + 1) \div 2 = 8 /\ n + 1 - 1 = n /\ n + 1 \in 1 .. n + 1
    OBVIOUS
  <2>2. IsGroups(t) <=> IsList(t, 0, n)
    BY <1>1, <2>1, GroupsAre
  <2>3. Len(t) = 15 /\ 15 + 1 \in 1 .. 15 + 1 /\ 15 + 1 - 1 = 15 /\ (15 + 1) \div 2 = 8
    BY <1>1
  <2>4. IsLaid(t, 15 + 1, FALSE, 8) <=> IsList(t, 0, 15)
    BY <2>3 DEF IsLaid
  <2> QED BY <2>2, <2>4
<1>4. \A g : g \in Gaps(t) => IsLaid(t, g, FALSE, 8) /\ g # n + 1
  <2>1. \A g : g \in Gaps(t) => g \in 1 .. n /\ IsLaid(t, g, FALSE, 8)
    BY <1>1, GapsAre
  <2>2. \A g \in 1 .. n : g # n + 1
    BY <1>2
  <2> QED BY <2>1, <2>2
<1>5. Gaps(t) # {} <=> \E g : g \in Gaps(t)
  OBVIOUS
<1> QED BY <1>1, <1>3, <1>4, <1>5 DEF IsHexadecimal

\* Its groups are those in front of the :: and those behind it.
Filled(b, a, max) ==
  [i \in 0 .. max - 1 |-> IF i < Len(b) THEN b[i + 1]
                          ELSE IF i >= max - Len(a) THEN a[i - max + 1 + Len(a)] ELSE 0]

LEMMA GroupsOfAre ==
  ASSUME NEW t \in Seq(Token), NEW g, IsLaid(t, g, FALSE, 8),
         IF g = Len(t) + 1 THEN Len(t) = 15 ELSE g \in Gaps(t),
         NEW b, GroupsBefore(t, g, b), NEW a, GroupsAfter(t, g, a)
  PROVE  GroupsOf(t) = Filled(b, a, 8)
<1>1. PICK n : n = Len(t)
  OBVIOUS
<1>2. n \in Nat /\ g \in 1 .. n + 1
  BY <1>1 DEF IsLaid
<1>3. CASE g = n + 1
  <2>0. n = 15 /\ g = 16
    <3>1. g = Len(t) + 1
      BY <1>1, <1>3
    <3>2. Len(t) = 15
      BY <3>1
    <3> QED BY <1>1, <3>1, <3>2
  <2>1. n = 15 /\ (n + 1) \div 2 = 8 /\ g \div 2 = 8
    BY <2>0
  <2>2. Gaps(t) = {}
    <3> SUFFICES ASSUME NEW h \in Gaps(t) PROVE FALSE
      OBVIOUS
    <3>1. h = g /\ h \in 1 .. n
      BY <1>1, OneGap, GapsAre
    <3> QED BY <3>1, <1>2, <1>3
  <2>3. Len(b) = 8 /\ \A i \in 1 .. 8 : b[i] = t[2 * i - 1].v
    BY <2>1 DEF GroupsBefore
  <2>4. \A i \in 1 .. 8 : Items(t)[i] = t[2 * i - 1]
    BY <1>1, <2>1, ItemsAre
  <2>5. GroupsOf(t) = [i \in 0 .. 7 |-> Items(t)[i + 1].v]
    BY <2>2 DEF GroupsOf
  <2>6. \A i \in 0 .. 7 : i + 1 \in 1 .. 8 /\ i < 8
    OBVIOUS
  <2>7. 8 - 1 = 7
    OBVIOUS
  <2> DEFINE Wanted(i) == IF i < 8 THEN b[i + 1]
                          ELSE IF i >= 8 - Len(a) THEN a[i - 8 + 1 + Len(a)] ELSE 0
  <2>8. Filled(b, a, 8) = [i \in 0 .. 7 |-> Wanted(i)]
    BY ONLY <2>3, <2>7 DEF Filled
  <2>9. ASSUME NEW i \in 0 .. 7 PROVE Items(t)[i + 1].v = Wanted(i)
    <3>1. i + 1 \in 1 .. 8 /\ i < 8
      BY ONLY <2>6, i \in 0 .. 7
    <3>2. Items(t)[i + 1] = t[2 * (i + 1) - 1] /\ b[i + 1] = t[2 * (i + 1) - 1].v
      BY ONLY <2>3, <2>4, <3>1
    <3> QED BY ONLY <3>1, <3>2
  <2> HIDE DEF Wanted
  <2> QED BY ONLY <2>5, <2>8, <2>9
<1>4. CASE g # n + 1
  <2>1. g \in Gaps(t) /\ g \in 1 .. n
    BY <1>1, <1>2, <1>4
  <2>2. (CHOOSE p \in Gaps(t) : TRUE) = g
    <3>1. \A p \in Gaps(t) : p = g
      BY OneGap
    <3> QED BY <2>1, <3>1
  <2>3. PICK u, v : u = Before(t, g) /\ v = After(t, g + 1)
    OBVIOUS
  <2>4. GroupsOf(t) = [i \in 0 .. 7 |->
                         IF i < Len(Items(u)) THEN Items(u)[i + 1].v
                         ELSE IF i >= 8 - Len(Items(v)) THEN Items(v)[i - 7 + Len(Items(v))].v
                         ELSE 0]
    <3>1. Gaps(t) # {}
      BY <2>1
    <3> QED BY <2>2, <2>3, <3>1 DEF GroupsOf
  <2>5. g < n
    <3>1. AtGap(t, g, FALSE)
      BY <1>1, <1>4 DEF IsLaid
    <3> QED BY <1>1, <1>2, <2>1, <3>1 DEF AtGap
  <2>6. /\ u \in Seq(Token) /\ v \in Seq(Token) /\ Len(u) = g - 1 /\ Len(v) = n - (g + 1)
        /\ \A k \in 1 .. g - 1 : u[k] = t[k]
        /\ \A k \in 1 .. n - (g + 1) : v[k] = t[g + 1 + k]
    <3>1. g + 1 \in 1 .. n
      BY <1>2, <2>5
    <3> QED BY <1>1, <2>1, <2>3, <3>1, PartsAre
  <2>7. PICK m, k : m = g \div 2 /\ k = (n - g) \div 2
    OBVIOUS
  <2>8. m \in Nat /\ k \in Nat /\ m + k < 8
    <3>1. m + k < 8
      BY <1>1, <1>4, <2>7 DEF IsLaid
    <3> QED BY <1>2, <2>5, <2>7, <3>1
  <2>9. /\ Len(Items(u)) = m /\ Len(Items(v)) = k
        /\ \A i \in 1 .. m : Items(u)[i] = u[2 * i - 1]
        /\ \A i \in 1 .. k : Items(v)[i] = v[2 * i - 1]
    <3>1. g - 1 + 1 = g /\ n - (g + 1) + 1 = n - g
      BY <1>2, <2>5
    <3>2. (Len(u) + 1) \div 2 = m /\ (Len(v) + 1) \div 2 = k
      BY <2>6, <2>7, <3>1
    <3>3. /\ Len(Items(u)) = m
          /\ \A i \in 1 .. m : Items(u)[i] = u[2 * i - 1]
      BY <2>6, <3>2, ItemsAre
    <3>4. /\ Len(Items(v)) = k
          /\ \A i \in 1 .. k : Items(v)[i] = v[2 * i - 1]
      BY <2>6, <3>2, ItemsAre
    <3> QED BY <3>3, <3>4
  <2>10. \A i \in 1 .. m : Items(u)[i].v = t[2 * i - 1].v
    <3>1. \A i \in 1 .. m : 2 * i - 1 \in 1 .. g - 1
      BY <1>2, <2>5, <2>7
    <3> QED BY <2>6, <2>9, <3>1
  <2>11. \A i \in 1 .. k : Items(v)[i].v = t[g + 2 * i].v
    <3>1. \A i \in 1 .. k : 2 * i - 1 \in 1 .. n - (g + 1) /\ g + 1 + (2 * i - 1) = g + 2 * i
      BY <1>2, <2>5, <2>7
    <3>2. ASSUME NEW i \in 1 .. k PROVE Items(v)[i].v = t[g + 2 * i].v
      <4>1. Items(v)[i] = v[2 * i - 1]
        BY ONLY <2>9, i \in 1 .. k
      <4>2. PICK j : j = 2 * i - 1
        OBVIOUS
      <4>3. j \in 1 .. n - (g + 1) /\ g + 1 + j = g + 2 * i
        BY ONLY <3>1, <4>2, i \in 1 .. k
      <4>4. v[j] = t[g + 1 + j]
        BY ONLY <2>6, <4>3
      <4> QED BY ONLY <4>1, <4>2, <4>3, <4>4
    <3> QED BY ONLY <3>2
  <2>12. /\ Len(b) = m /\ \A i \in 1 .. m : b[i] = t[2 * i - 1].v
         /\ Len(a) = k /\ \A i \in 1 .. k : a[i] = t[g + 2 * i].v
    BY <1>1, <1>4, <2>7 DEF GroupsBefore, GroupsAfter
  <2>13. \A i \in 0 .. 7 : /\ i < m => i + 1 \in 1 .. m
                           /\ i >= 8 - k => i - 7 + k \in 1 .. k /\ i - 8 + 1 + k = i - 7 + k
    BY <2>8
  <2> DEFINE Found(i) == IF i < m THEN Items(u)[i + 1].v
                         ELSE IF i >= 8 - k THEN Items(v)[i - 7 + k].v ELSE 0
             Wanted(i) == IF i < m THEN b[i + 1]
                          ELSE IF i >= 8 - k THEN a[i - 8 + 1 + k] ELSE 0
  <2>14. ASSUME NEW i \in 0 .. 7
         PROVE  Found(i) = Wanted(i)
    BY <2>10, <2>11, <2>12, <2>13
  <2>15. GroupsOf(t) = [i \in 0 .. 7 |-> Found(i)]
    BY <2>4, <2>9
  <2>16. Filled(b, a, 8) = [i \in 0 .. 7 |-> Wanted(i)]
    <3>1. 8 - 1 = 7
      OBVIOUS
    <3> QED BY <2>12, <3>1 DEF Filled
  <2> HIDE DEF Found, Wanted
  <2> QED BY <2>14, <2>15, <2>16
<1> QED BY <1>3, <1>4

LEMMA FrontIs ==
  ASSUME NEW t \in Seq(Token), Len(t) > 0
  PROVE  /\ Front(t) \in Seq(Token) /\ Len(Front(t)) = Len(t) - 1
         /\ \A j \in 1 .. Len(t) - 1 : Front(t)[j] = t[j]
<1>1. Front(t) \in Seq(Token)
  BY DEF Front
<1>2. PICK n : n = Len(t) - 1
  OBVIOUS
<1>3. n \in Nat /\ n <= Len(t) /\ Front(t) = SubSeq(t, 1, n)
  BY <1>2 DEF Front
<1>4. Len(SubSeq(t, 1, n)) = n /\ \A j \in 1 .. n : SubSeq(t, 1, n)[j] = t[j]
  BY <1>3
<1> QED BY <1>1, <1>2, <1>3, <1>4

LEMMA LongerList ==
  ASSUME NEW t, NEW b \in Nat, NEW e \in Nat, e > b, IsList(t, b, e - 1),
         IF (e - b) % 2 = 1 THEN IsGroup(t[e]) ELSE t[e].c = ":"
  PROVE  IsList(t, b, e)
<1>1. \A j \in b + 1 .. e : j = e \/ j \in b + 1 .. e - 1
  OBVIOUS
<1> QED BY <1>1 DEF IsList

\* A text that ends with a single colon is laid out as the text without it is.
EndsOdd(t, g) == IF g = Len(t) + 1 THEN Len(t) = 15 ELSE g \in Gaps(t)

LEMMA TrailingColon ==
  ASSUME NEW t \in Seq(Token), NEW n, n = Len(t), n > 1, t[n].c = ":", t[n - 1].c # ":",
         NEW u, u = Front(t)
  PROVE  /\ \A g : IsLaid(t, g, FALSE, 8) =>
              LET h == IF g = n + 1 THEN n ELSE g
              IN  /\ IsLaid(u, h, FALSE, 8) /\ EndsOdd(u, h)
                  /\ \A b \in Seq(Word) : GroupsBefore(t, g, b) => GroupsBefore(u, h, b)
                  /\ \A a \in Seq(Word) : GroupsAfter(t, g, a) => GroupsAfter(u, h, a)
         /\ \A h : IsLaid(u, h, FALSE, 8) /\ EndsOdd(u, h) =>
              \E g : IsLaid(t, g, FALSE, 8)
<1>1. /\ n \in Nat /\ u \in Seq(Token) /\ Len(u) = n - 1
      /\ \A j \in 1 .. n - 1 : u[j] = t[j]
  BY FrontIs
<1>2. \A b, e \in Nat : b + 1 .. e \subseteq 1 .. e
  OBVIOUS
<1>3. ASSUME NEW g, IsLaid(t, g, FALSE, 8), NEW h, h = IF g = n + 1 THEN n ELSE g
      PROVE  /\ IsLaid(u, h, FALSE, 8) /\ EndsOdd(u, h)
             /\ \A b \in Seq(Word) : GroupsBefore(t, g, b) => GroupsBefore(u, h, b)
             /\ \A a \in Seq(Word) : GroupsAfter(t, g, a) => GroupsAfter(u, h, a)
  <2>1. g \in 1 .. n + 1 /\ IsList(t, 0, g - 1)
    BY <1>3 DEF IsLaid
  <2>2. CASE g = n + 1
    <3>1. (n + 1) \div 2 = 8 /\ IsList(t, 0, n)
      <4>1. g - 1 = n
        BY <1>1, <2>2
      <4> QED BY <1>3, <2>1, <2>2, <4>1 DEF IsLaid
    <3>2. n = 16
      <4>1. n = 15 \/ n = 16
        <5>1. n \in Nat /\ (n + 1) \div 2 = 8
          BY <1>1, <3>1
        <5> QED BY ONLY <5>1
      <4>2. n # 15
        <5> SUFFICES ASSUME n = 15 PROVE FALSE
          OBVIOUS
        <5>1. 15 \in 0 + 1 .. 15 /\ (15 - 0) % 2 = 1
          OBVIOUS
        <5>2. IsGroup(t[15])
          BY <3>1, <5>1 DEF IsList
        <5> QED BY <5>2, GroupIsNoColon
      <4> QED BY <4>1, <4>2
    <3>3. h = 16 /\ Len(u) = 15
      BY <1>1, <1>3, <2>2, <3>2
    <3>4. IsList(u, 0, 15)
      <4>1. \A j \in 0 + 1 .. 15 : u[j] = t[j]
        <5>1. \A j \in 0 + 1 .. 15 : j \in 1 .. n - 1
          BY <3>2
        <5> QED BY <1>1, <5>1
      <4>2. 15 <= 16 /\ IsList(t, 0, 16)
        BY <3>1, <3>2
      <4>3. \A j \in 0 + 1 .. 15 : j \in 0 + 1 .. 16
        OBVIOUS
      <4> QED BY <4>1, <4>2, <4>3 DEF IsList
    <3>5. IsLaid(u, h, FALSE, 8) /\ EndsOdd(u, h)
      <4>1. 16 \in 1 .. 15 + 1 /\ 16 - 1 = 15 /\ 16 \div 2 = 8 /\ 16 = 15 + 1
        OBVIOUS
      <4> QED BY <3>3, <3>4, <4>1 DEF IsLaid, EndsOdd
    <3>6. ASSUME NEW b \in Seq(Word), GroupsBefore(t, g, b)
          PROVE  GroupsBefore(u, h, b)
      <4>1. Len(b) = 8 /\ \A i \in 1 .. 8 : b[i] = t[2 * i - 1].v
        <5>1. g \div 2 = 8
          BY <2>2, <3>2
        <5> QED BY <3>6, <5>1 DEF GroupsBefore
      <4>2. \A i \in 1 .. 8 : u[2 * i - 1] = t[2 * i - 1]
        <5>1. \A i \in 1 .. 8 : 2 * i - 1 \in 1 .. n - 1
          BY <3>2
        <5> QED BY <1>1, <5>1
      <4>3. h \div 2 = 8
        BY <3>3
      <4> QED BY <4>1, <4>2, <4>3 DEF GroupsBefore
    <3>7. ASSUME NEW a \in Seq(Word), GroupsAfter(t, g, a)
          PROVE  GroupsAfter(u, h, a)
      <4>1. g = Len(t) + 1 /\ h = Len(u) + 1
        BY <2>2, <3>3
      <4> QED BY <3>7, <4>1 DEF GroupsAfter
    <3> QED BY <3>5, <3>6, <3>7
  <2>3. CASE g # n + 1
    <3>1. /\ AtGap(t, g, FALSE) /\ (g = 1 \/ g % 2 = 0) /\ IsList(t, g + 1, n)
          /\ g \div 2 + (n - g) \div 2 < 8
      BY <1>3, <2>3 DEF IsLaid
    <3>2. h = g /\ g \in 1 .. n /\ t[g].c = ":" /\ g # n /\ t[g + 1].c = ":"
      BY <1>3, <2>3, <3>1 DEF AtGap
    <3>3. g + 1 <= n - 1
      <4>1. g + 1 # n
        <5>1. g + 1 = n => g = n - 1
          BY <1>1, <3>2
        <5> QED BY <3>2, <5>1
      <4> QED BY <1>1, <3>2, <4>1
    <3>4. (n - g - 1) % 2 = 0
      <4>1. n \in g + 1 + 1 .. n /\ n - (g + 1) = n - g - 1
        BY <1>1, <3>2, <3>3
      <4>2. ~IsGroup(t[n])
        BY GroupIsNoColon
      <4>3. (n - (g + 1)) % 2 # 1
        BY <3>1, <4>1, <4>2 DEF IsList
      <4> QED BY <1>1, <3>2, <4>1, <4>3
    <3>5. PICK k : k = (n - g - 1) \div 2
      OBVIOUS
    <3>6. k \in Nat /\ n - g - 1 = 2 * k /\ k > 0
      <4>1. PICK d : d = n - g - 1
        OBVIOUS
      <4>2. d \in Nat /\ d > 0 /\ d % 2 = 0 /\ k = d \div 2
        <5>1. d \in Nat /\ d > 0
          BY <1>1, <3>2, <3>3, <4>1
        <5>2. d % 2 = 0 /\ k = d \div 2
          BY <3>4, <3>5, <4>1
        <5> QED BY <5>1, <5>2
      <4>3. k \in Nat /\ d = 2 * k /\ k > 0
        BY ONLY <4>2
      <4> QED BY <4>1, <4>3
    <3>7. /\ (n - g) \div 2 = k /\ (n - 1 - g) \div 2 = k /\ (n - 1 - g - 1) % 2 = 1
      <4>1. n - g = 2 * k + 1 /\ n - 1 - g = 2 * k /\ n - 1 - g - 1 = 2 * (k - 1) + 1
        BY <1>1, <3>2, <3>6
      <4> QED BY <3>6, <4>1
    <3>8. AtGap(u, g, FALSE)
      <4>1. g \in 1 .. n - 1 /\ g + 1 \in 1 .. n - 1 /\ g # n - 1
        BY <1>1, <3>2, <3>3
      <4> QED BY <1>1, <3>2, <4>1 DEF AtGap
    <3>9. IsList(u, 0, g - 1)
      <4>1. \A j \in 0 + 1 .. g - 1 : u[j] = t[j]
        BY <1>1, <3>2, <3>3
      <4> QED BY <2>1, <4>1 DEF IsList
    <3>10. IsList(u, g + 1, n - 1)
      <4>1. \A j \in g + 1 + 1 .. n - 1 : u[j] = t[j]
        BY <1>1, <3>2
      <4>2. g + 1 \in Nat /\ n \in Int /\ n - 1 \in Int /\ n - 1 <= n
        BY <1>1, <3>2
      <4>3. \A j \in g + 1 + 1 .. n - 1 : j \in g + 1 + 1 .. n
        BY <1>1, <3>2
      <4> QED BY <3>1, <4>1, <4>3 DEF IsList
    <3>11. IsLaid(u, g, FALSE, 8)
      <4>1. g \in 1 .. n - 1 + 1 /\ g # n - 1 + 1
        BY <1>1, <3>2
      <4>2. g \div 2 + (n - 1 - g) \div 2 < 8
        BY <3>1, <3>7
      <4> QED BY <1>1, <3>1, <3>8, <3>9, <3>10, <4>1, <4>2 DEF IsLaid
    <3>12. g \in Gaps(u)
      <4>1. g \in 1 .. n - 1
        BY <1>1, <3>2
      <4> QED BY <1>1, <3>7, <3>11, <4>1, GapsAre
    <3>13. EndsOdd(u, g)
      <4>1. g # n - 1 + 1
        BY <1>1, <3>2
      <4> QED BY <1>1, <3>12, <4>1 DEF EndsOdd
    <3>14. ASSUME NEW b \in Seq(Word), GroupsBefore(t, g, b)
           PROVE  GroupsBefore(u, g, b)
      <4>1. Len(b) = g \div 2 /\ \A i \in 1 .. Len(b) : b[i] = t[2 * i - 1].v
        BY <3>14 DEF GroupsBefore
      <4>2. \A i \in 1 .. Len(b) : 2 * i - 1 \in 1 .. n - 1
        BY <1>1, <3>2, <4>1
      <4> QED BY <1>1, <4>1, <4>2 DEF GroupsBefore
    <3>15. ASSUME NEW a \in Seq(Word), GroupsAfter(t, g, a)
           PROVE  GroupsAfter(u, g, a)
      <4>1. Len(a) = k /\ \A i \in 1 .. Len(a) : a[i] = t[g + 2 * i].v
        BY <2>3, <3>7, <3>15 DEF GroupsAfter
      <4>2. \A i \in 1 .. Len(a) : g + 2 * i \in 1 .. n - 1
        BY <1>1, <3>2, <3>6, <4>1
      <4>3. g # n - 1 + 1
        BY <1>1, <3>2
      <4> QED BY <1>1, <3>7, <4>1, <4>2, <4>3 DEF GroupsAfter
    <3> QED BY <3>2, <3>11, <3>13, <3>14, <3>15
  <2> QED BY <2>2, <2>3
<1>4. ASSUME NEW h, IsLaid(u, h, FALSE, 8), EndsOdd(u, h)
      PROVE  \E g : IsLaid(t, g, FALSE, 8)
  <2>1. h \in 1 .. n /\ IsList(u, 0, h - 1)
    <3>1. n - 1 + 1 = n
      BY <1>1
    <3> QED BY <1>1, <1>4, <3>1 DEF IsLaid
  <2>2. IsList(t, 0, h - 1)
    <3>1. \A j \in 0 + 1 .. h - 1 : t[j] = u[j]
      BY <1>1, <2>1
    <3> QED BY <2>1, <3>1 DEF IsList
  <2>3. CASE h = n
    <3>1. n = 16
      <4>1. h = Len(u) + 1
        BY <1>1, <2>3
      <4>2. Len(u) = 15
        BY <1>4, <4>1 DEF EndsOdd
      <4>3. n \in Nat /\ n - 1 = 15
        BY <1>1, <4>2
      <4> QED BY ONLY <4>3
    <3>2. IsList(t, 0, 16)
      <4>1. 16 \in Nat /\ 16 > 0 /\ (16 - 0) % 2 # 1 /\ 16 - 1 = 15
        OBVIOUS
      <4>2. IsList(t, 0, 16 - 1) /\ t[16].c = ":"
        BY <2>2, <2>3, <3>1
      <4> QED BY <4>1, <4>2, LongerList
    <3>3. 17 \in 1 .. 16 + 1 /\ 17 = 16 + 1 /\ 17 - 1 = 16 /\ 17 \div 2 = 8
      OBVIOUS
    <3>4. IsLaid(t, 17, FALSE, 8)
      BY <3>1, <3>2, <3>3 DEF IsLaid
    <3> QED BY <3>4
  <2>4. CASE h # n
    <3>1. h # n - 1 + 1 /\ h \in Int
      BY <1>1, <2>1, <2>4
    <3>2. h \in Gaps(u)
      BY <1>1, <1>4, <3>1 DEF EndsOdd
    <3>3. /\ AtGap(u, h, FALSE) /\ (h = 1 \/ h % 2 = 0) /\ IsList(u, h + 1, n - 1)
          /\ h \div 2 + (n - 1 - h) \div 2 < 8
      BY <1>1, <1>4, <3>1 DEF IsLaid
    <3>4. h \in 1 .. n - 1 /\ h # n - 1 /\ u[h].c = ":" /\ u[h + 1].c = ":"
      BY <1>1, <3>3 DEF AtGap
    <3>5. h + 1 \in 1 .. n - 1 /\ t[h].c = ":" /\ t[h + 1].c = ":"
      BY <1>1, <3>4
    <3>6. h + 1 # n - 1
      BY <3>5
    <3>7. (n - 1 - h - 1) % 2 = 1
      <4>1. n - 1 <= h + 1 \/ (n - 1 - h - 1) % 2 = 1
        BY <1>1, <3>2, GapsAre
      <4> QED BY <1>1, <3>4, <3>5, <3>6, <4>1
    <3>8. PICK k : k = (n - h - 1) \div 2
      OBVIOUS
    <3>9. k \in Nat /\ n - h - 1 = 2 * k
      <4>1. PICK d : d = n - h - 1
        OBVIOUS
      <4>2. d \in Nat /\ (d - 1) % 2 = 1 /\ k = d \div 2
        <5>1. n - 1 - h - 1 = d - 1
          BY <1>1, <3>4, <4>1
        <5> QED BY <1>1, <3>4, <3>7, <3>8, <4>1, <5>1
      <4>3. k \in Nat /\ d = 2 * k
        BY ONLY <4>2
      <4> QED BY <4>1, <4>3
    <3>10. (n - h) \div 2 = k /\ (n - 1 - h) \div 2 = k /\ (n - (h + 1)) % 2 # 1
      <4>1. n - h = 2 * k + 1 /\ n - 1 - h = 2 * k /\ n - (h + 1) = 2 * k
        BY <1>1, <3>4, <3>9
      <4> QED BY <3>9, <4>1
    <3>11. AtGap(t, h, FALSE)
      <4>1. h \in 1 .. n /\ h # n
        BY <1>1, <3>4
      <4> QED BY <3>5, <4>1 DEF AtGap
    <3>12. IsList(t, h + 1, n)
      <4>1. IsList(t, h + 1, n - 1)
        <5>1. \A j \in h + 1 + 1 .. n - 1 : t[j] = u[j]
          BY <1>1, <3>4
        <5> QED BY <3>3, <5>1 DEF IsList
      <4>2. h + 1 \in Nat /\ n > h + 1
        BY <1>1, <3>4
      <4> QED BY <1>1, <3>10, <4>1, <4>2, LongerList
    <3>13. IsLaid(t, h, FALSE, 8)
      <4>1. h \in 1 .. n + 1 /\ h # n + 1
        BY <1>1, <3>4
      <4>2. h \div 2 + (n - h) \div 2 < 8
        BY <3>3, <3>10
      <4> QED BY <2>2, <3>3, <3>11, <3>12, <4>1, <4>2 DEF IsLaid
    <3> QED BY <3>13
  <2> QED BY <2>3, <2>4
<1>5. \A g : IsLaid(t, g, FALSE, 8) =>
        LET h == IF g = n + 1 THEN n ELSE g
        IN  /\ IsLaid(u, h, FALSE, 8) /\ EndsOdd(u, h)
            /\ \A b \in Seq(Word) : GroupsBefore(t, g, b) => GroupsBefore(u, h, b)
            /\ \A a \in Seq(Word) : GroupsAfter(t, g, a) => GroupsAfter(u, h, a)
  BY <1>3
<1> QED BY <1>4, <1>5

\* A text that is laid out has groups and colons only, and a colon in front of
\* every group but the first.
LEMMA LaidTokens ==
  ASSUME NEW t \in Seq(Token), NEW g, IsLaid(t, g, FALSE, 8), NEW p \in 1 .. Len(t)
  PROVE  /\ IsGroup(t[p]) \/ t[p].c = ":"
         /\ IsGroup(t[p]) /\ p > 1 => t[p - 1].c = ":"
<1>1. PICK n : n = Len(t)
  OBVIOUS
<1>2. n \in Nat /\ p \in 1 .. n /\ g \in 1 .. n + 1 /\ IsList(t, 0, g - 1)
  BY <1>1 DEF IsLaid
<1>3. ASSUME NEW b \in Nat, NEW e \in Int, IsList(t, b, e), p \in b + 1 .. e
      PROVE  /\ IsGroup(t[p]) \/ t[p].c = ":"
             /\ IsGroup(t[p]) /\ p - 1 > b => t[p - 1].c = ":"
  <2>1. IF (p - b) % 2 = 1 THEN IsGroup(t[p]) ELSE t[p].c = ":"
    BY <1>3 DEF IsList
  <2>2. ASSUME IsGroup(t[p]), p - 1 > b PROVE t[p - 1].c = ":"
    <3>1. (p - b) % 2 = 1
      BY <2>1, <2>2, GroupIsNoColon
    <3>2. PICK d : d = p - b
      OBVIOUS
    <3>3. d \in Nat /\ d % 2 = 1 /\ p - 1 - b = d - 1
      BY <1>2, <1>3, <3>1, <3>2
    <3>4. (d - 1) % 2 # 1
      BY ONLY <3>3
    <3>5. p - 1 \in b + 1 .. e /\ (p - 1 - b) % 2 # 1
      <4>1. (p - 1 - b) % 2 # 1
        BY <3>3, <3>4
      <4> QED BY <1>2, <1>3, <2>2, <4>1
    <3> QED BY <1>3, <3>5 DEF IsList
  <2> QED BY <2>1, <2>2
<1>4. CASE p <= g - 1
  <2>1. p \in 0 + 1 .. g - 1 /\ g - 1 \in Int /\ 0 \in Nat /\ (p > 1 <=> p - 1 > 0)
    BY <1>2, <1>4
  <2> QED BY <1>2, <1>3, <2>1
<1>5. CASE p > g - 1
  <2>1. g # n + 1 /\ AtGap(t, g, FALSE) /\ IsList(t, g + 1, n)
    <3>1. g # n + 1
      BY <1>2, <1>5
    <3> QED BY <1>1, <3>1 DEF IsLaid
  <2>2. t[g].c = ":" /\ t[g + 1].c = ":"
    BY <2>1 DEF AtGap
  <2>3. CASE p = g \/ p = g + 1
    BY <2>2, <2>3, GroupIsNoColon
  <2>4. CASE p > g + 1
    <3>1. p \in g + 1 + 1 .. n /\ n \in Int /\ g + 1 \in Nat
      BY <1>2, <2>4
    <3>2. /\ IsGroup(t[p]) \/ t[p].c = ":"
          /\ IsGroup(t[p]) /\ p - 1 > g + 1 => t[p - 1].c = ":"
      BY <1>3, <2>1, <3>1
    <3>3. p - 1 > g + 1 \/ p - 1 = g + 1
      BY <1>2, <2>4
    <3> QED BY <2>2, <3>2, <3>3
  <2> QED BY <1>2, <1>5, <2>3, <2>4
<1> QED BY <1>2, <1>4, <1>5

\* A single colon at the end, behind something else.
OddColon(t) == Len(t) > 1 /\ t[Len(t)].c = ":" /\ t[Len(t) - 1].c # ":"

\* What is laid out is a hexadecimal text, or one with a colon too many.
LEMMA EndsOddOrNot ==
  ASSUME NEW t \in Seq(Token), NEW g, IsLaid(t, g, FALSE, 8)
  PROVE  EndsOdd(t, g) <=> ~OddColon(t)
<1>1. PICK n : n = Len(t)
  OBVIOUS
<1>2. n \in Nat /\ g \in 1 .. n + 1 /\ IsList(t, 0, g - 1)
  BY <1>1 DEF IsLaid
<1>3. CASE g = n + 1
  <2>1. (n + 1) \div 2 = 8
    <3>1. g \div 2 = 8
      BY <1>1, <1>3 DEF IsLaid
    <3> QED BY <1>3, <3>1
  <2>2. n = 15 \/ n = 16
    BY ONLY <1>2, <2>1
  <2>3. EndsOdd(t, g) <=> n = 15
    BY <1>1, <1>3 DEF EndsOdd
  <2>4. CASE n = 15
    <3>1. 15 \in 0 + 1 .. 15 /\ (15 - 0) % 2 = 1 /\ 15 + 1 - 1 = 15
      OBVIOUS
    <3>2. IsList(t, 0, 15)
      BY <1>2, <1>3, <2>4
    <3>3. IsGroup(t[15])
      BY <3>1, <3>2 DEF IsList
    <3> QED BY <1>1, <2>3, <2>4, <3>3, GroupIsNoColon DEF OddColon
  <2>5. CASE n = 16
    <3>1. /\ 15 \in 0 + 1 .. 16 /\ (15 - 0) % 2 = 1
          /\ 16 \in 0 + 1 .. 16 /\ (16 - 0) % 2 # 1
      OBVIOUS
    <3>2. IsList(t, 0, 16)
      <4>1. g - 1 = 16
        BY <1>3, <2>5
      <4> QED BY <1>2, <4>1
    <3>3. IsGroup(t[15]) /\ t[16].c = ":"
      BY <3>1, <3>2 DEF IsList
    <3>4. Len(t) = 16 /\ 16 > 1 /\ 16 - 1 = 15
      BY <1>1, <2>5
    <3>5. OddColon(t)
      BY <3>3, <3>4, GroupIsNoColon DEF OddColon
    <3> QED BY <2>3, <2>5, <3>5
  <2> QED BY <2>2, <2>4, <2>5
<1>4. CASE g # n + 1
  <2>1. g \in 1 .. n /\ AtGap(t, g, FALSE) /\ IsList(t, g + 1, n)
    <3>1. g \in 1 .. n
      BY <1>2, <1>4
    <3> QED BY <1>1, <1>4, <3>1 DEF IsLaid
  <2>2. t[g].c = ":" /\ t[g + 1].c = ":" /\ g # n
    BY <1>1, <2>1 DEF AtGap
  <2>3. EndsOdd(t, g) <=> n <= g + 1 \/ (n - g - 1) % 2 = 1
    BY <1>1, <1>4, <2>1, GapsAre DEF EndsOdd
  <2>4. CASE n <= g + 1
    <3>1. g + 1 = n /\ n - 1 = g
      BY <1>2, <2>1, <2>2, <2>4
    <3>2. t[n - 1].c = ":"
      BY <2>2, <3>1
    <3> QED BY <1>1, <2>3, <2>4, <3>2 DEF OddColon
  <2>5. CASE ~(n <= g + 1)
    <3>1. PICK d : d = n - g - 1
      OBVIOUS
    <3>2. d \in Nat /\ d > 0 /\ n - (g + 1) = d /\ n - 1 - (g + 1) = d - 1
      BY <1>2, <2>1, <2>5, <3>1
    <3>3. n \in g + 1 + 1 .. n /\ n > 1
      BY <1>2, <2>1, <2>5
    <3>4. CASE d % 2 = 1
      <4>1. IsGroup(t[n])
        BY <2>1, <3>2, <3>3, <3>4 DEF IsList
      <4> QED BY <1>1, <2>3, <3>1, <3>4, <4>1, GroupIsNoColon DEF OddColon
    <3>5. CASE d % 2 # 1
      <4>1. d > 1 /\ (d - 1) % 2 = 1
        BY ONLY <3>2, <3>5
      <4>2. n - 1 \in g + 1 + 1 .. n
        BY <1>2, <2>1, <3>2, <4>1
      <4>3. t[n].c = ":" /\ IsGroup(t[n - 1])
        BY <2>1, <3>2, <3>3, <3>5, <4>1, <4>2 DEF IsList
      <4>4. OddColon(t)
        BY <1>1, <3>3, <4>3, GroupIsNoColon DEF OddColon
      <4>5. ~EndsOdd(t, g)
        BY <2>3, <2>5, <3>1, <3>5
      <4> QED BY <4>4, <4>5
    <3> QED BY <3>4, <3>5
  <2> QED BY <2>4, <2>5
<1> QED BY <1>3, <1>4

\* The hexadecimal text of a text that is laid out.
Written(t) == IF OddColon(t) THEN Front(t) ELSE t

LEMMA WrittenIs ==
  ASSUME NEW t \in Seq(Token)
  PROVE  /\ Written(t) \in Seq(Token)
         /\ (\E g : IsLaid(t, g, FALSE, 8)) <=> IsHexadecimal(Written(t))
         /\ \A g : IsLaid(t, g, FALSE, 8) =>
              \A b, a \in Seq(Word) : GroupsBefore(t, g, b) /\ GroupsAfter(t, g, a) =>
                GroupsOf(Written(t)) = Filled(b, a, 8)
<1>1. CASE OddColon(t)
  <2>1. PICK n, u : n = Len(t) /\ u = Front(t)
    OBVIOUS
  <2>2. n > 1 /\ t[n].c = ":" /\ t[n - 1].c # ":" /\ Written(t) = u
    BY <1>1, <2>1 DEF OddColon, Written
  <2>3. u \in Seq(Token)
    BY <2>1, <2>2, FrontIs
  <2>4. \A g : IsLaid(t, g, FALSE, 8) =>
              LET h == IF g = n + 1 THEN n ELSE g
              IN  /\ IsLaid(u, h, FALSE, 8) /\ EndsOdd(u, h)
                  /\ \A b \in Seq(Word) : GroupsBefore(t, g, b) => GroupsBefore(u, h, b)
                  /\ \A a \in Seq(Word) : GroupsAfter(t, g, a) => GroupsAfter(u, h, a)
    BY <2>1, <2>2, TrailingColon
  <2>5. \A h : IsLaid(u, h, FALSE, 8) /\ EndsOdd(u, h) => \E g : IsLaid(t, g, FALSE, 8)
    BY <2>1, <2>2, TrailingColon
  <2>6. IsHexadecimal(u) <=> \E g : IsLaid(u, g, FALSE, 8) /\ EndsOdd(u, g)
    BY <2>3, HexadecimalIs DEF EndsOdd
  <2>7. (\E g : IsLaid(t, g, FALSE, 8)) <=> IsHexadecimal(u)
    BY <2>4, <2>5, <2>6
  <2>8. ASSUME NEW g, IsLaid(t, g, FALSE, 8), NEW b \in Seq(Word), NEW a \in Seq(Word),
               GroupsBefore(t, g, b), GroupsAfter(t, g, a)
        PROVE  GroupsOf(u) = Filled(b, a, 8)
    <3>1. PICK h : /\ IsLaid(u, h, FALSE, 8) /\ EndsOdd(u, h)
                   /\ GroupsBefore(u, h, b) /\ GroupsAfter(u, h, a)
      BY <2>4, <2>8
    <3> QED BY <2>3, <3>1, GroupsOfAre DEF EndsOdd
  <2> QED BY <2>2, <2>3, <2>7, <2>8
<1>2. CASE ~OddColon(t)
  <2>1. Written(t) = t
    BY <1>2 DEF Written
  <2>2. \A g : IsLaid(t, g, FALSE, 8) => EndsOdd(t, g)
    BY <1>2, EndsOddOrNot
  <2>3. IsHexadecimal(t) <=> \E g : IsLaid(t, g, FALSE, 8) /\ EndsOdd(t, g)
    BY HexadecimalIs DEF EndsOdd
  <2>4. ASSUME NEW g, IsLaid(t, g, FALSE, 8), NEW b \in Seq(Word), NEW a \in Seq(Word),
               GroupsBefore(t, g, b), GroupsAfter(t, g, a)
        PROVE  GroupsOf(t) = Filled(b, a, 8)
    <3>1. EndsOdd(t, g)
      BY <2>2, <2>4
    <3> QED BY <2>4, <3>1, GroupsOfAre DEF EndsOdd
  <2> QED BY <2>1, <2>2, <2>3, <2>4
<1> QED BY <1>1, <1>2

\* A hexadecimal text has a colon, no dot, and no single colon at its end.
LEMMA HexadecimalTokens ==
  ASSUME NEW t \in Seq(Token), IsHexadecimal(t)
  PROVE  /\ LastPos(t, ":") > 0
         /\ \A p \in 1 .. Len(t) : /\ IsGroup(t[p]) \/ t[p].c = ":"
                                   /\ IsGroup(t[p]) /\ p > 1 => t[p - 1].c = ":"
         /\ ~OddColon(t)
<1>1. PICK g : IsLaid(t, g, FALSE, 8) /\ EndsOdd(t, g)
  BY HexadecimalIs DEF EndsOdd
<1>2. \A p \in 1 .. Len(t) : /\ IsGroup(t[p]) \/ t[p].c = ":"
                             /\ IsGroup(t[p]) /\ p > 1 => t[p - 1].c = ":"
  BY <1>1, LaidTokens
<1>3. ~OddColon(t)
  BY <1>1, EndsOddOrNot
<1>4. \E p \in 1 .. Len(t) : t[p].c = ":"
  <2>1. CASE g = Len(t) + 1
    <3>1. Len(t) = 15
      BY <1>1, <2>1 DEF EndsOdd
    <3>2. 3 \in 1 .. 15 /\ 2 \in 1 .. 15 /\ 3 > 1 /\ 3 - 1 = 2
      OBVIOUS
    <3> QED BY <1>2, <3>1, <3>2
  <2>2. CASE g # Len(t) + 1
    <3>1. AtGap(t, g, FALSE)
      BY <1>1, <2>2 DEF IsLaid
    <3> QED BY <3>1 DEF AtGap
  <2> QED BY <2>1, <2>2
<1>5. LastPos(t, ":") > 0
  <2>1. /\ LastPos(t, ":") \in 0 .. Len(t)
        /\ \A p \in 1 .. Len(t) : p > LastPos(t, ":") => t[p].c # ":"
    BY TextIs, LastPosIs
  <2>2. PICK q : q = LastPos(t, ":")
    OBVIOUS
  <2> QED BY <1>4, <2>1, <2>2
<1> QED BY <1>2, <1>3, <1>5

LEMMA FilledIs ==
  ASSUME NEW b \in Seq(Word), NEW a \in Seq(Word), NEW max \in Nat, Len(b) + Len(a) <= max
  PROVE  Filled(b, a, max) \in [0 .. max - 1 -> Word]
<1>1. PICK m, l : m = Len(b) /\ l = Len(a)
  OBVIOUS
<1>2. m \in Nat /\ l \in Nat /\ m + l <= max
  BY <1>1
<1> DEFINE F(i) == IF i < m THEN b[i + 1] ELSE IF i >= max - l THEN a[i - max + 1 + l] ELSE 0
<1>3. ASSUME NEW i \in 0 .. max - 1 PROVE F(i) \in Word
  <2>1. i < m => i + 1 \in 1 .. m
    BY <1>2
  <2>2. i >= max - l => i - max + 1 + l \in 1 .. l
    BY <1>2
  <2>3. 0 \in Word
    BY DEF Word
  <2> QED BY <1>1, <2>1, <2>2, <2>3
<1>4. Filled(b, a, max) = [i \in 0 .. max - 1 |-> F(i)]
  BY <1>1 DEF Filled
<1> HIDE DEF F
<1> QED BY <1>3, <1>4

\* expand: zero groups between those before and those after.
LEMMA ExpandIs ==
  ASSUME NEW s \in GroupScan, NEW max \in Nat, CountFits(s, max)
  PROVE  /\ Filled(s.before, s.after, max) \in [0 .. max - 1 -> Word]
         /\ \A i \in 0 .. max - 1 : Expand(s, max)[i + 1] = Filled(s.before, s.after, max)[i]
<1>1. PICK b, a, m, l : b = s.before /\ a = s.after /\ m = Len(b) /\ l = Len(a)
  OBVIOUS
<1>2. b \in Seq(Word) /\ a \in Seq(Word) /\ m \in Nat /\ l \in Nat
  BY <1>1 DEF GroupScan
<1>3. m + l <= max
  <2>1. IF s.cc THEN m + l < max ELSE m + l = max
    BY <1>1 DEF CountFits
  <2> QED BY <1>2, <2>1
<1>4. Filled(b, a, max) \in [0 .. max - 1 -> Word]
  BY <1>1, <1>2, <1>3, FilledIs
<1>5. PICK k : k = max - m - l
  OBVIOUS
<1>6. k \in Nat /\ m + k + l = max
  BY <1>2, <1>3, <1>5
<1>7. PICK z : z = [i \in 1 .. k |-> 0]
  OBVIOUS
<1>8. z \in Seq(Word) /\ Len(z) = k /\ \A i \in 1 .. k : z[i] = 0
  <2>1. 0 \in Word
    BY DEF Word
  <2> QED BY <1>6, <1>7, <2>1
<1>9. Expand(s, max) = b \o z \o a
  BY <1>1, <1>5, <1>7 DEF Expand
<1>10. PICK h : h = b \o z
  OBVIOUS
<1>11. /\ h \in Seq(Word) /\ Len(h) = m + k
       /\ \A i \in 1 .. m : h[i] = b[i]
       /\ \A i \in 1 .. k : h[m + i] = z[i]
  <2>0. b \in Seq(Word) /\ z \in Seq(Word)
    BY <1>2, <1>8
  <2>1. /\ b \o z \in Seq(Word) /\ Len(b \o z) = Len(b) + Len(z)
        /\ \A i \in 1 .. Len(b) : (b \o z)[i] = b[i]
        /\ \A i \in 1 .. Len(z) : (b \o z)[Len(b) + i] = z[i]
    BY ONLY <2>0
  <2> QED BY <1>1, <1>8, <1>10, <2>1
<1>12. /\ \A i \in 1 .. m + k : (h \o a)[i] = h[i]
       /\ \A i \in 1 .. l : (h \o a)[m + k + i] = a[i]
  <2>1. /\ \A i \in 1 .. Len(h) : (h \o a)[i] = h[i]
        /\ \A i \in 1 .. Len(a) : (h \o a)[Len(h) + i] = a[i]
    BY <1>2, <1>11
  <2> QED BY <1>1, <1>11, <2>1
<1>13. ASSUME NEW i \in 0 .. max - 1
       PROVE  (h \o a)[i + 1] = Filled(b, a, max)[i]
  <2>1. Filled(b, a, max)[i] = IF i < m THEN b[i + 1]
                               ELSE IF i >= max - l THEN a[i - max + 1 + l] ELSE 0
    BY <1>1 DEF Filled
  <2>2. CASE i < m
    <3>1. i + 1 \in 1 .. m + k /\ i + 1 \in 1 .. m
      BY <1>2, <1>6, <2>2
    <3> QED BY <1>11, <1>12, <2>1, <2>2, <3>1
  <2>3. CASE ~(i < m) /\ i >= max - l
    <3>1. PICK j : j = i - max + 1 + l
      OBVIOUS
    <3>2. j \in 1 .. l /\ m + k + j = i + 1
      BY <1>2, <1>6, <2>3, <3>1
    <3>3. (h \o a)[i + 1] = a[j]
      BY <1>12, <3>2
    <3> QED BY <2>1, <2>3, <3>1, <3>3
  <2>4. CASE ~(i < m) /\ ~(i >= max - l)
    <3>1. PICK j : j = i + 1 - m
      OBVIOUS
    <3>2. j \in 1 .. k /\ m + j = i + 1 /\ i + 1 \in 1 .. m + k
      BY <1>2, <1>6, <2>4, <3>1
    <3>3. (h \o a)[i + 1] = z[j]
      BY <1>11, <1>12, <3>2
    <3> QED BY <1>8, <2>1, <2>4, <3>2, <3>3
  <2> QED BY <2>2, <2>3, <2>4
<1> QED BY <1>1, <1>4, <1>9, <1>10, <1>13

\* The bytes of eight groups.
LEMMA BytesOfGroupsAre ==
  ASSUME NEW gs, NEW g \in [0 .. 7 -> Word], \A i \in 0 .. 7 : gs[i + 1] = g[i]
  PROVE  /\ BytesOfGroups(g) \in [V6Bytes -> 0 .. 255]
         /\ \A k \in V6Bytes : GroupByte(gs, k) = BytesOfGroups(g)[k]
<1>1. \A k \in V6Bytes : k \div 2 \in 0 .. 7 /\ k \in Nat
  BY DEF V6Bytes
<1>2. \A v \in Word : v \div 256 \in 0 .. 255 /\ v % 256 \in 0 .. 255
  BY DEF Word
<1>3. \A k \in V6Bytes : g[k \div 2] \in Word /\ gs[k \div 2 + 1] = g[k \div 2]
  BY <1>1
<1>4. BytesOfGroups(g) \in [V6Bytes -> 0 .. 255]
  BY <1>2, <1>3 DEF BytesOfGroups
<1>5. \A k \in V6Bytes : GroupByte(gs, k) = BytesOfGroups(g)[k]
  BY <1>3 DEF GroupByte, BytesOfGroups
<1> QED BY <1>4, <1>5

\* The pure path takes the hexadecimal texts and those with one colon more.
LEMMA PureParsed ==
  ASSUME NEW t \in Seq(Token), NEW out
  PROVE  /\ IsHexadecimal(Written(t)) =>
              /\ BytesOfGroups(GroupsOf(Written(t))) \in [V6Bytes -> 0 .. 255]
              /\ ParsePure(t, out) =
                   [rc  |-> "OK",
                    out |-> [family |-> "INET6",
                             bytes  |-> BytesOfGroups(GroupsOf(Written(t)))]]
         /\ ~IsHexadecimal(Written(t)) => ParsePure(t, out) = [rc |-> "PARSE", out |-> out]
<1>1. PICK f : IsTrail(f, t, FALSE, 8) /\ ScanPure(t) = f[Len(t)]
  BY PurePasses
<1>2. PICK s : s = f[Len(t)]
  OBVIOUS
<1>3. FALSE \in BOOLEAN /\ 8 \in Nat \ {0} /\ 8 \in Nat
  OBVIOUS
<1>4. /\ s \in GroupScan
      /\ ~s.bad /\ CountFits(s, 8) => \E g : IsLaid(t, g, FALSE, 8)
      /\ \A g : IsLaid(t, g, FALSE, 8) =>
           /\ ~s.bad /\ CountFits(s, 8)
           /\ GroupsBefore(t, g, s.before) /\ GroupsAfter(t, g, s.after)
  BY <1>1, <1>2, <1>3, GroupsScanned
<1>5. ParsePure(t, out) =
        IF s.bad \/ ~CountFits(s, 8) THEN [rc |-> "PARSE", out |-> out]
        ELSE [rc  |-> "OK",
              out |-> [family |-> "INET6",
                       bytes  |-> [k \in V6Bytes |-> GroupByte(Expand(s, 8), k)]]]
  BY <1>1, <1>2 DEF ParsePure
<1>6. IsHexadecimal(Written(t)) <=> \E g : IsLaid(t, g, FALSE, 8)
  BY WrittenIs
<1>7. ASSUME IsHexadecimal(Written(t))
      PROVE  /\ BytesOfGroups(GroupsOf(Written(t))) \in [V6Bytes -> 0 .. 255]
             /\ ParsePure(t, out) =
                  [rc  |-> "OK",
                   out |-> [family |-> "INET6",
                            bytes  |-> BytesOfGroups(GroupsOf(Written(t)))]]
  <2>1. PICK g : IsLaid(t, g, FALSE, 8)
    BY <1>6, <1>7
  <2>2. /\ ~s.bad /\ CountFits(s, 8)
        /\ GroupsBefore(t, g, s.before) /\ GroupsAfter(t, g, s.after)
    BY <1>4, <2>1
  <2>3. s.before \in Seq(Word) /\ s.after \in Seq(Word)
    BY <1>4 DEF GroupScan
  <2>4. GroupsOf(Written(t)) = Filled(s.before, s.after, 8)
    BY <2>1, <2>2, <2>3, WrittenIs
  <2>5. PICK F, gs : F = Filled(s.before, s.after, 8) /\ gs = Expand(s, 8)
    OBVIOUS
  <2>6. F \in [0 .. 7 -> Word] /\ \A i \in 0 .. 7 : gs[i + 1] = F[i]
    <3>1. 8 - 1 = 7
      OBVIOUS
    <3>2. /\ F \in [0 .. 8 - 1 -> Word]
          /\ \A i \in 0 .. 8 - 1 : gs[i + 1] = F[i]
      BY <1>3, <1>4, <2>2, <2>5, ExpandIs
    <3> QED BY <3>1, <3>2
  <2>7. /\ BytesOfGroups(F) \in [V6Bytes -> 0 .. 255]
        /\ \A k \in V6Bytes : GroupByte(gs, k) = BytesOfGroups(F)[k]
    BY <2>6, BytesOfGroupsAre
  <2>8. [k \in V6Bytes |-> GroupByte(gs, k)] = BytesOfGroups(F)
    BY <2>7
  <2> QED BY <1>5, <2>2, <2>4, <2>5, <2>7, <2>8
<1>8. ASSUME ~IsHexadecimal(Written(t))
      PROVE  ParsePure(t, out) = [rc |-> "PARSE", out |-> out]
  BY <1>4, <1>5, <1>6, <1>8
<1> QED BY <1>7, <1>8

----------------------------------------------------------------------------
(* The mixed path: the text u in which two groups stand for the dotted     *)
(* tail is laid out as the text h in front of the last colon is.           *)

HasTail(u, h, m) ==
  /\ m = Len(h) /\ Len(u) = m + 4
  /\ \A j \in 1 .. m : u[j] = h[j]
  /\ u[m + 1].c = ":" /\ IsGroup(u[m + 2]) /\ u[m + 3].c = ":" /\ IsGroup(u[m + 4])

\* The list that h ends with and the two groups behind it.
LEMMA TailList ==
  ASSUME NEW h, NEW u, NEW m \in Nat, HasTail(u, h, m), NEW b \in Nat, b <= m + 1,
         NEW d, d = m - b, (d + 1) % 2 = 0, IsList(h, b, m)
  PROVE  IsList(u, b, m + 4)
<1>1. d \in Int /\ m + 1 - b = d + 1 /\ m + 2 - b = d + 2 /\ m + 3 - b = d + 3 /\ m + 4 - b = d + 4
  OBVIOUS
<1>2. (d + 2) % 2 = 1 /\ (d + 3) % 2 # 1 /\ (d + 4) % 2 = 1 /\ (d + 1) % 2 # 1
  BY ONLY <1>1, (d + 1) % 2 = 0
<1>3. /\ (m + 1 - b) % 2 # 1 /\ (m + 2 - b) % 2 = 1
      /\ (m + 3 - b) % 2 # 1 /\ (m + 4 - b) % 2 = 1
  BY <1>1, <1>2
<1>4. ASSUME NEW j \in b + 1 .. m + 4
      PROVE  IF (j - b) % 2 = 1 THEN IsGroup(u[j]) ELSE u[j].c = ":"
  <2>1. j \in b + 1 .. m \/ j = m + 1 \/ j = m + 2 \/ j = m + 3 \/ j = m + 4
    OBVIOUS
  <2>2. ASSUME j \in b + 1 .. m
        PROVE  IF (j - b) % 2 = 1 THEN IsGroup(u[j]) ELSE u[j].c = ":"
    <3>1. j \in 1 .. m
      BY <2>2
    <3>2. u[j] = h[j]
      BY <3>1 DEF HasTail
    <3> QED BY <2>2, <3>2 DEF IsList
  <2>3. CASE j = m + 1
    BY <1>3, <2>3 DEF HasTail
  <2>4. CASE j = m + 2
    BY <1>3, <2>4 DEF HasTail
  <2>5. CASE j = m + 3
    BY <1>3, <2>5 DEF HasTail
  <2>6. CASE j = m + 4
    BY <1>3, <2>6 DEF HasTail
  <2> QED BY <2>1, <2>2, <2>3, <2>4, <2>5, <2>6
<1> QED BY <1>4 DEF IsList

\* Two more groups.
Longer(gs, v, w) ==
  [i \in 1 .. Len(gs) + 2 |-> IF i <= Len(gs) THEN gs[i] ELSE IF i = Len(gs) + 1 THEN v ELSE w]

LEMMA LongerIs ==
  ASSUME NEW gs \in Seq(Word), NEW v \in Word, NEW w \in Word
  PROVE  /\ Longer(gs, v, w) \in Seq(Word) /\ Len(Longer(gs, v, w)) = Len(gs) + 2
         /\ \A i \in 1 .. Len(gs) : Longer(gs, v, w)[i] = gs[i]
         /\ Longer(gs, v, w)[Len(gs) + 1] = v /\ Longer(gs, v, w)[Len(gs) + 2] = w
<1>0. PICK k : k = Len(gs)
  OBVIOUS
<1>1. k \in Nat
  BY <1>0
<1> DEFINE F(i) == IF i <= k THEN gs[i] ELSE IF i = k + 1 THEN v ELSE w
<1>2. ASSUME NEW i \in 1 .. k + 2 PROVE F(i) \in Word
  <2>1. i <= k => gs[i] \in Word
    BY <1>0, <1>1
  <2> QED BY <2>1
<1>3. Longer(gs, v, w) = [i \in 1 .. k + 2 |-> F(i)]
  BY <1>0 DEF Longer
<1>4. (\A i \in 1 .. k : F(i) = gs[i]) /\ F(k + 1) = v /\ F(k + 2) = w
  BY <1>1
<1>5. /\ k + 2 \in Nat /\ k + 1 \in 1 .. k + 2 /\ k + 2 \in 1 .. k + 2
      /\ \A i \in 1 .. k : i \in 1 .. k + 2
  BY <1>1
<1> HIDE DEF F
<1>6. PICK r : r = [i \in 1 .. k + 2 |-> F(i)]
  OBVIOUS
<1>7. r \in Seq(Word) /\ Len(r) = k + 2
  BY <1>2, <1>5, <1>6
<1> QED BY <1>0, <1>3, <1>4, <1>5, <1>6, <1>7

LongerLaid(u, m, g, b, a, v, w) ==
  LET f == IF g = m + 1 THEN m + 5 ELSE g
  IN  /\ IsLaid(u, f, FALSE, 8) /\ EndsOdd(u, f)
      /\ GroupsBefore(u, f, IF g = m + 1 THEN Longer(b, v, w) ELSE b)
      /\ GroupsAfter(u, f, IF g = m + 1 THEN <<>> ELSE Longer(a, v, w))

LEMMA LaidLonger ==
  ASSUME NEW h \in Seq(Token), NEW u \in Seq(Token), NEW m \in Nat, HasTail(u, h, m),
         NEW g, IsLaid(h, g, TRUE, 6), g # m - 1,
         NEW b \in Seq(Word), GroupsBefore(h, g, b), NEW a \in Seq(Word), GroupsAfter(h, g, a),
         NEW v, v = u[m + 2].v, NEW w, w = u[m + 4].v, v \in Word, w \in Word
  PROVE  LongerLaid(u, m, g, b, a, v, w)
<1>1. /\ Len(h) = m /\ Len(u) = m + 4 /\ \A j \in 1 .. m : u[j] = h[j]
      /\ u[m + 1].c = ":"
  BY DEF HasTail
<1>2. g \in 1 .. m + 1 /\ IsList(h, 0, g - 1)
  BY <1>1 DEF IsLaid
<1>3. CASE g = m + 1
  <2>1. (m + 1) \div 2 = 6 /\ m % 2 = 1
    <3>1. g \div 2 = 6 /\ m % 2 = 1
      BY <1>1, <1>3 DEF IsLaid
    <3> QED BY <1>3, <3>1
  <2>2. m = 11
    BY ONLY <2>1, m \in Nat
  <2>3. IsList(u, 0, 15)
    <3>1. IsList(h, 0, m) /\ 0 \in Nat /\ 0 <= m + 1
      BY <1>2, <1>3
    <3>2. 11 = m - 0 /\ (11 + 1) % 2 = 0
      BY <2>2
    <3>3. IsList(u, 0, m + 4)
      BY <3>1, <3>2, TailList
    <3>4. m + 4 = 15
      BY <2>2
    <3> QED BY <3>3, <3>4
  <2>4. /\ Len(u) = 15 /\ m + 5 = 16 /\ 16 = 15 + 1 /\ 16 - 1 = 15
        /\ 16 \div 2 = 8 /\ 16 \in 1 .. 15 + 1
    BY <1>1, <2>2
  <2>5. IsLaid(u, 16, FALSE, 8) /\ EndsOdd(u, 16)
    BY <2>3, <2>4 DEF IsLaid, EndsOdd
  <2>6. Len(b) = 6 /\ \A i \in 1 .. 6 : b[i] = h[2 * i - 1].v
    <3>1. g \div 2 = 6
      BY <1>3, <2>2
    <3> QED BY <3>1 DEF GroupsBefore
  <2>7. PICK r : r = Longer(b, v, w)
    OBVIOUS
  <2>8. Len(r) = 8 /\ (\A i \in 1 .. 6 : r[i] = b[i]) /\ r[7] = v /\ r[8] = w
    <3>1. /\ Len(Longer(b, v, w)) = Len(b) + 2
          /\ \A i \in 1 .. Len(b) : Longer(b, v, w)[i] = b[i]
          /\ Longer(b, v, w)[Len(b) + 1] = v /\ Longer(b, v, w)[Len(b) + 2] = w
      BY ONLY b \in Seq(Word), v \in Word, w \in Word, LongerIs
    <3>2. Len(b) + 1 = 7 /\ Len(b) + 2 = 8 /\ Len(b) = 6
      BY ONLY <2>6
    <3> QED BY ONLY <2>6, <2>7, <3>1, <3>2
  <2>9. ASSUME NEW i \in 1 .. 8 PROVE r[i] = u[2 * i - 1].v
    <3>1. CASE i \in 1 .. 6
      <4>1. 2 * i - 1 \in 1 .. m
        BY <2>2, <3>1
      <4> QED BY <1>1, <2>6, <2>8, <3>1, <4>1
    <3>2. CASE i = 7
      <4>1. 2 * i - 1 = m + 2
        BY <2>2, <3>2
      <4> QED BY <2>8, <3>2, <4>1
    <3>3. CASE i = 8
      <4>1. 2 * i - 1 = m + 4
        BY <2>2, <3>3
      <4> QED BY <2>8, <3>3, <4>1
    <3> QED BY <3>1, <3>2, <3>3
  <2>10. GroupsBefore(u, 16, r)
    BY <2>4, <2>8, <2>9 DEF GroupsBefore
  <2>11. GroupsAfter(u, 16, <<>>)
    BY <2>4 DEF GroupsAfter
  <2> QED BY <1>3, <2>4, <2>5, <2>7, <2>10, <2>11 DEF LongerLaid
<1>4. CASE g # m + 1
  <2>1. /\ g \in 1 .. m /\ AtGap(h, g, TRUE) /\ (g = 1 \/ g % 2 = 0) /\ IsList(h, g + 1, m)
        /\ g \div 2 + (m - g) \div 2 < 6
        /\ m <= g + 1 \/ (m - g - 1) % 2 = 1
    <3>1. g \in 1 .. m
      BY <1>2, <1>4
    <3> QED BY <1>1, <1>4, <3>1 DEF IsLaid
  <2>2. PICK d, k : d = m - g /\ k = (m - g) \div 2
    OBVIOUS
  <2>3. d \in Nat /\ k \in Nat /\ d = 2 * k
    <3>1. d \in Nat /\ d # 1 /\ k = d \div 2 /\ (d <= 1 \/ (d - 1) % 2 = 1)
      <4>1. d \in Nat /\ d # 1 /\ k = d \div 2
        BY <1>2, <2>1, <2>2
      <4>2. m <= g + 1 => d <= 1
        BY <1>2, <2>1, <2>2
      <4>3. m - g - 1 = d - 1
        BY <1>2, <2>1, <2>2
      <4> QED BY <2>1, <4>1, <4>2, <4>3
    <3>2. CASE d <= 1
      <4>1. d = 0
        BY ONLY <3>1, <3>2
      <4> QED BY ONLY <3>1, <4>1
    <3>3. CASE (d - 1) % 2 = 1
      <4>1. PICK e, q : e = d - 1 /\ q = e \div 2
        OBVIOUS
      <4>2. e \in Int /\ q \in Int /\ e % 2 = 1 /\ d = e + 1
        BY ONLY <3>1, <3>3, <4>1
      <4>7. q = e \div 2 /\ e \in Int /\ e % 2 = 1
        BY ONLY <4>1, <4>2
      <4>3. e = 2 * q + 1
        BY ONLY <4>7
      <4>4. d = 2 * (q + 1) /\ q + 1 \in Int
        BY ONLY <4>2, <4>3
      <4>5. PICK c : c = q + 1
        OBVIOUS
      <4>6. d \div 2 = c /\ c \in Int
        BY ONLY <4>4, <4>5
      <4> QED BY ONLY <3>1, <4>4, <4>5, <4>6
    <3> QED BY ONLY <3>1, <3>2, <3>3
  <2>0. PICK n : n = m + 4
    OBVIOUS
  <2>4. n \in Nat /\ Len(u) = n /\ (n - g) \div 2 = k + 2 /\ (n - g - 1) % 2 = 1
    <3>1. n - g = 2 * (k + 2) /\ n - g - 1 = 2 * (k + 1) + 1
      BY <1>2, <2>0, <2>1, <2>2, <2>3
    <3>2. (2 * (k + 2)) \div 2 = k + 2 /\ (2 * (k + 1) + 1) % 2 = 1
      BY ONLY <2>3
    <3> QED BY <1>1, <2>0, <3>1, <3>2
  <2>5. IsList(u, g + 1, n)
    <3>1. g + 1 \in Nat /\ g + 1 <= m + 1
      BY <1>2, <2>1
    <3>2. PICK e : e = m - (g + 1)
      OBVIOUS
    <3>3. e + 1 = 2 * k /\ (2 * k) % 2 = 0
      BY <1>2, <2>1, <2>2, <2>3, <3>2
    <3>4. (e + 1) % 2 = 0
      BY <3>3
    <3>5. IsList(u, g + 1, m + 4)
      BY <2>1, <3>1, <3>2, <3>4, TailList
    <3> QED BY <2>0, <3>5
  <2>6. AtGap(u, g, FALSE)
    <3>1. h[g].c = ":" /\ (g = m \/ h[g + 1].c = ":")
      BY <1>1, <2>1 DEF AtGap
    <3>2. g \in 1 .. n /\ g # n /\ (g = m \/ g + 1 \in 1 .. m)
      BY <1>2, <2>0, <2>1
    <3>3. u[g].c = ":" /\ u[g + 1].c = ":"
      BY <1>1, <2>1, <3>1, <3>2
    <3> QED BY <2>4, <3>2, <3>3 DEF AtGap
  <2>7. IsList(u, 0, g - 1)
    <3>1. \A j \in 0 + 1 .. g - 1 : u[j] = h[j]
      <4>1. \A j \in 0 + 1 .. g - 1 : j \in 1 .. m
        BY <1>2, <2>1
      <4> QED BY <1>1, <4>1
    <3> QED BY <1>2, <3>1 DEF IsList
  <2>8. g \in 1 .. n /\ g \in 1 .. n + 1 /\ g # n + 1
    BY <1>2, <2>0, <2>1
  <2>9. IsLaid(u, g, FALSE, 8)
    <3>1. g \div 2 + (k + 2) < 8
      <4>1. g \div 2 + k < 6 /\ g \div 2 \in Int
        BY <1>2, <2>1, <2>2
      <4> QED BY <2>3, <4>1
    <3>2. g \div 2 + (n - g) \div 2 < 8
      BY <2>4, <3>1
    <3> QED BY <2>1, <2>4, <2>5, <2>6, <2>7, <2>8, <3>2 DEF IsLaid
  <2>10. EndsOdd(u, g)
    <3>1. g \in Gaps(u)
      BY <2>4, <2>8, <2>9, GapsAre
    <3> QED BY <2>4, <2>8, <3>1 DEF EndsOdd
  <2>11. GroupsBefore(u, g, b)
    <3>1. Len(b) = g \div 2 /\ \A i \in 1 .. Len(b) : b[i] = h[2 * i - 1].v
      BY DEF GroupsBefore
    <3>2. \A i \in 1 .. Len(b) : 2 * i - 1 \in 1 .. m
      BY <1>2, <2>1, <3>1
    <3> QED BY <1>1, <3>1, <3>2 DEF GroupsBefore
  <2>12. Len(a) = k /\ \A i \in 1 .. k : a[i] = h[g + 2 * i].v
    BY <1>1, <1>4, <2>2 DEF GroupsAfter
  <2>13. PICK r : r = Longer(a, v, w)
    OBVIOUS
  <2>14. Len(r) = k + 2 /\ (\A i \in 1 .. k : r[i] = a[i]) /\ r[k + 1] = v /\ r[k + 2] = w
    <3>1. /\ Len(Longer(a, v, w)) = Len(a) + 2
          /\ \A i \in 1 .. Len(a) : Longer(a, v, w)[i] = a[i]
          /\ Longer(a, v, w)[Len(a) + 1] = v /\ Longer(a, v, w)[Len(a) + 2] = w
      BY ONLY a \in Seq(Word), v \in Word, w \in Word, LongerIs
    <3>2. Len(a) = k
      BY <2>12
    <3> QED BY ONLY <2>13, <3>1, <3>2
  <2>15. ASSUME NEW i \in 1 .. k + 2 PROVE r[i] = u[g + 2 * i].v
    <3>0. i \in 1 .. k \/ i = k + 1 \/ i = k + 2
      BY <2>3
    <3>1. CASE i \in 1 .. k
      <4>1. g + 2 * i \in 1 .. m
        BY <1>2, <2>1, <2>2, <2>3, <3>1
      <4> QED BY <1>1, <2>12, <2>14, <3>1, <4>1
    <3>2. CASE i = k + 1
      <4>1. g + 2 * i = m + 2
        BY <1>2, <2>1, <2>2, <2>3, <3>2
      <4> QED BY <2>14, <3>2, <4>1
    <3>3. CASE i = k + 2
      <4>1. g + 2 * i = m + 4
        BY <1>2, <2>1, <2>2, <2>3, <3>3
      <4> QED BY <2>14, <3>3, <4>1
    <3> QED BY <3>0, <3>1, <3>2, <3>3
  <2>16. GroupsAfter(u, g, r)
    BY <2>4, <2>8, <2>14, <2>15 DEF GroupsAfter
  <2> QED BY <1>4, <2>9, <2>10, <2>11, <2>13, <2>16 DEF LongerLaid
<1> QED BY <1>3, <1>4

\* Nothing else is.
LEMMA LaidShorter ==
  ASSUME NEW h \in Seq(Token), NEW u \in Seq(Token), NEW m \in Nat, HasTail(u, h, m),
         NEW g, IsLaid(u, g, FALSE, 8), EndsOdd(u, g)
  PROVE  \E f : f # m - 1 /\ IsLaid(h, f, TRUE, 6)
<1>1. /\ Len(h) = m /\ Len(u) = m + 4 /\ \A j \in 1 .. m : u[j] = h[j]
      /\ u[m + 1].c = ":" /\ IsGroup(u[m + 2]) /\ u[m + 3].c = ":" /\ IsGroup(u[m + 4])
  BY DEF HasTail
<1>2. g \in 1 .. m + 4 + 1 /\ IsList(u, 0, g - 1)
  BY <1>1 DEF IsLaid
<1>3. CASE g = m + 4 + 1
  <2>1. m = 11
    <3>1. m + 4 = 15
      BY <1>1, <1>3 DEF EndsOdd
    <3> QED BY <3>1
  <2>2. IsList(h, 0, 11)
    <3>1. g - 1 = 15
      BY <1>3, <2>1
    <3>2. IsList(u, 0, 15)
      BY <1>2, <3>1
    <3>3. \A j \in 0 + 1 .. 11 : j \in 0 + 1 .. 15 /\ j \in 1 .. 11
      OBVIOUS
    <3>4. \A j \in 1 .. 11 : h[j] = u[j]
      BY <1>1, <2>1
    <3> QED BY <3>2, <3>3, <3>4 DEF IsList
  <2>3. 12 \in 1 .. 11 + 1 /\ 12 - 1 = 11 /\ 12 = 11 + 1 /\ 12 \div 2 = 6 /\ 11 % 2 = 1
    OBVIOUS
  <2>4. Len(h) = 11
    BY <1>1, <2>1
  <2>5. IsLaid(h, 12, TRUE, 6)
    BY <2>2, <2>3, <2>4 DEF IsLaid
  <2>6. 12 # m - 1
    BY <2>1
  <2> QED BY <2>5, <2>6
<1>4. CASE g # m + 4 + 1
  <2>0. PICK n : n = m + 4
    OBVIOUS
  <2>00. n \in Nat /\ Len(u) = n /\ g # n + 1 /\ g \in 1 .. n
    BY <1>1, <1>2, <1>4, <2>0
  <2>1. /\ g \in 1 .. n /\ AtGap(u, g, FALSE) /\ (g = 1 \/ g % 2 = 0)
        /\ IsList(u, g + 1, n)
        /\ g \div 2 + (n - g) \div 2 < 8
    BY <2>00 DEF IsLaid
  <2>2. n <= g + 1 \/ (n - g - 1) % 2 = 1
    <3>1. g \in Gaps(u)
      BY <2>00 DEF EndsOdd
    <3> QED BY <2>00, <3>1, GapsAre
  <2>3. u[g].c = ":" /\ u[g + 1].c = ":" /\ g # n
    BY <2>00, <2>1 DEF AtGap
  <2>4. g \in 1 .. m
    <3>1. g # m + 1
      <4>1. m + 1 + 1 = m + 2
        OBVIOUS
      <4>2. u[m + 2].c # ":"
        BY <1>1, GroupIsNoColon
      <4> QED BY <2>3, <4>1, <4>2
    <3>2. g # m + 2
      BY <1>1, <2>3, GroupIsNoColon
    <3>3. g # m + 3
      <4>1. m + 3 + 1 = m + 4
        OBVIOUS
      <4>2. u[m + 4].c # ":"
        BY <1>1, GroupIsNoColon
      <4> QED BY <2>3, <4>1, <4>2
    <3>4. g \in 1 .. n /\ g # n
      BY <2>1, <2>3
    <3> QED BY ONLY m \in Nat, <2>0, <3>1, <3>2, <3>3, <3>4
  <2>5. PICK d : d = m - g
    OBVIOUS
  <2>6. d \in Nat /\ (d + 3) % 2 = 1
    <3>1. d \in Nat /\ ~(n <= g + 1) /\ n - g - 1 = d + 3
      BY <2>0, <2>4, <2>5
    <3> QED BY <2>2, <3>1
  <2>7. PICK k : k = d \div 2
    OBVIOUS
  <2>8. k \in Nat /\ d = 2 * k /\ d # 1 /\ (d <= 1 \/ (d - 1) % 2 = 1)
    BY ONLY <2>6, <2>7
  <2>9. AtGap(h, g, TRUE)
    <3>1. g = m \/ g + 1 \in 1 .. m
      BY <2>4
    <3> QED BY <1>1, <2>3, <2>4, <3>1 DEF AtGap
  <2>10. IsList(h, 0, g - 1)
    <3>1. \A j \in 0 + 1 .. g - 1 : j \in 1 .. m
      BY <2>4
    <3> QED BY <1>1, <1>2, <3>1 DEF IsList
  <2>11. IsList(h, g + 1, m)
    <3>1. \A j \in g + 1 + 1 .. m : j \in g + 1 + 1 .. n /\ j \in 1 .. m
      BY <2>0, <2>4
    <3> QED BY <1>1, <2>1, <3>1 DEF IsList
  <2>12. g \div 2 + (m - g) \div 2 < 6
    <3>1. PICK c : c = g \div 2
      OBVIOUS
    <3>2. c \in Int
      BY <2>4, <3>1
    <3>3. (n - g) \div 2 = k + 2 /\ (m - g) \div 2 = k
      <4>1. n - g = 2 * (k + 2) /\ m - g = 2 * k
        BY <2>0, <2>4, <2>5, <2>8
      <4> QED BY <2>8, <4>1
    <3>4. c + (k + 2) < 8
      BY <2>1, <3>1, <3>3
    <3>5. c + k < 6
      BY <2>8, <3>2, <3>4
    <3> QED BY <3>1, <3>3, <3>5
  <2>13. m <= g + 1 \/ (m - g - 1) % 2 = 1
    <3>1. d <= 1 => m <= g + 1
      BY <2>4, <2>5
    <3>2. d - 1 = m - g - 1
      BY <2>4, <2>5
    <3> QED BY <2>8, <3>1, <3>2
  <2>14. g \in 1 .. m + 1 /\ g # m + 1 /\ g # m - 1
    BY <2>4, <2>5, <2>8
  <2>15. IsLaid(h, g, TRUE, 6)
    BY <1>1, <2>1, <2>9, <2>10, <2>11, <2>12, <2>13, <2>14 DEF IsLaid
  <2> QED BY <2>14, <2>15
<1> QED BY <1>3, <1>4

\* Two bytes as a token of four digits.
Pair(p, q) == Hex(p * 256 + q, 4)

LEMMA GroupOfBytes ==
  ASSUME NEW p \in 0 .. 255, NEW q \in 0 .. 255
  PROVE  /\ Pair(p, q) \in Token /\ IsGroup(Pair(p, q))
         /\ Pair(p, q).v = p * 256 + q /\ Pair(p, q).v \in Word
<1>0. PICK x : x = Pair(p, q)
  OBVIOUS
<1>1. PICK v : v = p * 256 + q
  OBVIOUS
<1>2. v \in Nat /\ v \div 256 = p /\ v % 256 = q
  BY <1>1
<1>3. x = [c |-> "hex", v |-> v, w |-> 4]
  BY <1>0, <1>1 DEF Hex, Pair
<1>4. x.c = "hex" /\ x.v = v /\ x.w = 4 /\ x \in [c : Kinds, v : Nat, w : Nat \ {0}]
  <2>1. 4 \in Nat \ {0} /\ "hex" \in Kinds
    BY DEF Kinds
  <2>2. x.c = "hex" /\ x.v = v /\ x.w = 4
    BY <1>3
  <2>3. x \in [c : Kinds, v : Nat, w : Nat \ {0}]
    BY <1>2, <1>3, <2>1
  <2> QED BY <2>2, <2>3
<1>5. PICK f : f = Quotients(x)
  OBVIOUS
<1>6. /\ f[0] = v
      /\ \A k \in 0 .. 4 : f[k] \in Nat
      /\ \A k \in 1 .. 4 : f[k] = f[k - 1] \div 16
  <2>1. x.v \in Nat /\ x.w \in Nat
    BY <1>2, <1>4
  <2>2. /\ f[0] = x.v
        /\ \A k \in 0 .. x.w : f[k] \in Nat
        /\ \A k \in 1 .. x.w : f[k] = f[k - 1] \div 16
    BY <1>5, <2>1, QuotientsAre
  <2> QED BY <1>4, <2>2
<1>7. f[4] = 0
  <2>1. f[1] = v \div 16 /\ f[2] = f[1] \div 16 /\ f[3] = f[2] \div 16 /\ f[4] = f[3] \div 16
    BY <1>6
  <2>2. f[1] \in Nat /\ f[2] \in Nat /\ f[3] \in Nat
    BY <1>6
  <2>3. f[2] = p
    <3>1. f[2] = (v \div 16) \div 16
      BY <2>1
    <3> QED BY <1>2, <3>1, ByteShift
  <2>4. f[3] \in 0 .. 15
    BY <2>1, <2>2, <2>3
  <2> QED BY <2>1, <2>4
<1>8. x \in Token /\ IsGroup(x)
  BY <1>4, <1>5, <1>7 DEF Token, IsGroup
<1>9. v \in Word
  BY <1>2 DEF Word
<1> QED BY <1>0, <1>1, <1>4, <1>8, <1>9

\* A text with a dotted tail, and the text with two groups in its place.
HeadLen(t) == Len(t) - 8
QuadOf(t) == SubSeq(t, Len(t) - 6, Len(t))

TailIs(t, m, q, u) ==
  /\ m \in Nat /\ m >= 1 /\ q \in Seq(Token) /\ IsDottedQuad(q)
  /\ \A i \in 1 .. 7 : q[i] = t[m + 1 + i]
  /\ u \in Seq(Token) /\ Len(u) = m + 4
  /\ \A j \in 1 .. m + 1 : u[j] = t[j]
  /\ IsGroup(u[m + 2]) /\ u[m + 2].v = DecValue(q[1]) * 256 + DecValue(q[3])
  /\ u[m + 3].c = ":"
  /\ IsGroup(u[m + 4]) /\ u[m + 4].v = DecValue(q[5]) * 256 + DecValue(q[7])
  /\ u[m + 2].v \in Word /\ u[m + 4].v \in Word
  /\ \A i \in 1 .. 4 : DecValue(q[2 * i - 1]) \in 0 .. 255

LEMMA InGroupsIs ==
  ASSUME NEW t \in Seq(Token), HasQuad(t)
  PROVE  TailIs(t, HeadLen(t), QuadOf(t), InGroups(t))
<1>m. PICK m, q, u : m = HeadLen(t) /\ q = QuadOf(t) /\ u = InGroups(t)
  OBVIOUS
<1>1. PICK n : n = Len(t)
  OBVIOUS
<1>0. m = Len(t) - 8 /\ q = SubSeq(t, Len(t) - 6, Len(t))
  BY <1>m DEF HeadLen, QuadOf
<1>2. n \in Nat /\ n >= 9 /\ IsDottedQuad(q)
  BY <1>0, <1>1 DEF HasQuad
<1>3. m \in Nat /\ m >= 1 /\ n = m + 8 /\ n - 6 = m + 2
  BY <1>0, <1>1, <1>2
<1>4. q = SubSeq(t, m + 2, n) /\ m + 2 \in 1 .. n /\ n \in 1 .. n
  <2>1. Len(t) - 6 = m + 2 /\ Len(t) = n
    BY ONLY <1>1, <1>3
  <2>2. q = SubSeq(t, m + 2, n)
    BY ONLY <1>0, <2>1
  <2>3. m + 2 \in 1 .. n /\ n \in 1 .. n
    BY ONLY <1>3
  <2> QED BY ONLY <2>2, <2>3
<1>5. q \in Seq(Token) /\ \A i \in 1 .. 7 : q[i] = t[m + 1 + i]
  <2>1. q = After(t, m + 1) /\ m + 1 \in 1 .. n
    <3>1. m + 1 + 1 = m + 2
      BY <1>3
    <3>2. n = Len(t) /\ m + 1 \in 1 .. n
      BY <1>1, <1>3
    <3> QED BY <1>4, <3>1, <3>2 DEF After
  <2>2. /\ After(t, m + 1) \in Seq(Token)
        /\ \A k \in 1 .. n - (m + 1) : After(t, m + 1)[k] = t[m + 1 + k]
    BY <1>1, <2>1, PartsAre
  <2>3. n - (m + 1) = 7
    BY ONLY <1>3
  <2> QED BY <2>1, <2>2, <2>3
<1>6. \A i \in 1 .. 4 : DecValue(q[2 * i - 1]) \in 0 .. 255
  <2>1. Len(q) = 7 /\ \A i \in 1 .. 4 : IsOctet(q[2 * i - 1])
    BY <1>2, <1>5, QuadIs
  <2>2. ASSUME NEW i \in 1 .. 4 PROVE DecValue(q[2 * i - 1]) \in 0 .. 255
    <3>1. 2 * i - 1 \in 1 .. 7
      OBVIOUS
    <3>2. q[2 * i - 1] \in Token
      BY <1>5, <2>1, <3>1, TextIs
    <3> QED BY <2>1, <3>2, OctetIs
  <2> QED BY <2>2
<1>7. PICK a, b, c, d : /\ a = DecValue(q[1]) /\ b = DecValue(q[3])
                        /\ c = DecValue(q[5]) /\ d = DecValue(q[7])
  OBVIOUS
<1>8. a \in 0 .. 255 /\ b \in 0 .. 255 /\ c \in 0 .. 255 /\ d \in 0 .. 255
  <2>1. 2 * 1 - 1 = 1 /\ 2 * 2 - 1 = 3 /\ 2 * 3 - 1 = 5 /\ 2 * 4 - 1 = 7
    OBVIOUS
  <2>2. 1 \in 1 .. 4 /\ 2 \in 1 .. 4 /\ 3 \in 1 .. 4 /\ 4 \in 1 .. 4
    OBVIOUS
  <2> QED BY <1>6, <1>7, <2>1, <2>2
<1>9. PICK x, y, z : x = Pair(a, b) /\ y = Char(":") /\ z = Pair(c, d)
  OBVIOUS
<1>10. /\ x \in Token /\ IsGroup(x) /\ x.v = a * 256 + b /\ x.v \in Word
       /\ z \in Token /\ IsGroup(z) /\ z.v = c * 256 + d /\ z.v \in Word
  <2>1. /\ Pair(a, b) \in Token /\ IsGroup(Pair(a, b))
        /\ Pair(a, b).v = a * 256 + b /\ Pair(a, b).v \in Word
    BY <1>8, GroupOfBytes
  <2>2. /\ Pair(c, d) \in Token /\ IsGroup(Pair(c, d))
        /\ Pair(c, d).v = c * 256 + d /\ Pair(c, d).v \in Word
    BY <1>8, GroupOfBytes
  <2> QED BY <1>9, <2>1, <2>2
<1>11. y \in Token /\ y.c = ":"
  <2>1. ":" \in Kinds
    BY DEF Kinds
  <2>2. Char(":") \in Token /\ Char(":").c = ":"
    BY <2>1, CharIsToken, Zenon
  <2> QED BY <1>9, <2>2
<1>12. Quad(q)[0] = a /\ Quad(q)[1] = b /\ Quad(q)[2] = c /\ Quad(q)[3] = d
  <2>1. 2 * 0 + 1 = 1 /\ 2 * 1 + 1 = 3 /\ 2 * 2 + 1 = 5 /\ 2 * 3 + 1 = 7
    OBVIOUS
  <2>2. \A k \in 0 .. 3 : Quad(q)[k] = DecValue(q[2 * k + 1])
    BY DEF Quad, V4Bytes
  <2> QED BY <1>7, <2>1, <2>2
<1>13. PICK g : g = SubSeq(t, 1, m + 1)
  OBVIOUS
<1>14. g \in Seq(Token) /\ Len(g) = m + 1 /\ \A j \in 1 .. m + 1 : g[j] = t[j]
  <2>1. PICK p : p = m + 2
    OBVIOUS
  <2>2. p \in 1 .. Len(t) /\ p - 1 = m + 1
    BY <1>1, <1>3, <1>4, <2>1
  <2>3. g = Before(t, p)
    BY <1>13, <2>2 DEF Before
  <2>4. /\ Before(t, p) \in Seq(Token) /\ Len(Before(t, p)) = p - 1
        /\ \A k \in 1 .. p - 1 : Before(t, p)[k] = t[k]
    BY <2>2, PartsAre
  <2> QED BY <2>2, <2>3, <2>4
<1>15. u = g \o <<x, y, z>>
  <2>1. u = SubSeq(t, 1, Len(t) - 7)
              \o <<Hex(Quad(q)[0] * 256 + Quad(q)[1], 4), Char(":"),
                   Hex(Quad(q)[2] * 256 + Quad(q)[3], 4)>>
    BY <1>m DEF InGroups, QuadOf
  <2>2. Len(t) - 7 = m + 1
    BY <1>1, <1>3
  <2>3. x = Hex(a * 256 + b, 4) /\ y = Char(":") /\ z = Hex(c * 256 + d, 4)
    BY ONLY <1>9 DEF Pair
  <2>4. SubSeq(t, 1, Len(t) - 7) = g
    BY ONLY <1>13, <2>2
  <2> QED BY ONLY <1>12, <2>1, <2>3, <2>4
<1>16. PICK r : r = <<x, y, z>>
  OBVIOUS
<1>17. r \in Seq(Token) /\ Len(r) = 3 /\ r[1] = x /\ r[2] = y /\ r[3] = z
  BY <1>10, <1>11, <1>16
<1>18. /\ g \o r \in Seq(Token) /\ Len(g \o r) = Len(g) + Len(r)
       /\ \A j \in 1 .. Len(g) : (g \o r)[j] = g[j]
       /\ \A j \in 1 .. Len(r) : (g \o r)[Len(g) + j] = r[j]
  <2>1. g \in Seq(Token) /\ r \in Seq(Token)
    BY <1>14, <1>17
  <2> QED BY ONLY <2>1
<1>19. /\ u \in Seq(Token) /\ Len(u) = m + 4 /\ \A j \in 1 .. m + 1 : u[j] = t[j]
       /\ u[m + 2] = x /\ u[m + 3] = y /\ u[m + 4] = z
  <2>1. u = g \o r
    BY <1>15, <1>16
  <2>2. m + 1 + 1 = m + 2 /\ m + 1 + 2 = m + 3 /\ m + 1 + 3 = m + 4
    BY <1>3
  <2>3. /\ u \in Seq(Token) /\ Len(u) = m + 1 + 3
        /\ \A j \in 1 .. m + 1 : u[j] = g[j]
        /\ \A j \in 1 .. 3 : u[m + 1 + j] = r[j]
    BY <1>14, <1>17, <1>18, <2>1
  <2>4. u[m + 1 + 1] = x /\ u[m + 1 + 2] = y /\ u[m + 1 + 3] = z
    BY <1>17, <2>3
  <2> QED BY <1>14, <2>2, <2>3, <2>4
<1>20. TailIs(t, m, q, u)
  BY <1>2, <1>3, <1>5, <1>6, <1>7, <1>10, <1>11, <1>19 DEF TailIs
<1> QED BY <1>m, <1>20

LEMMA FilledLonger ==
  ASSUME NEW b \in Seq(Word), NEW a \in Seq(Word), Len(b) + Len(a) <= 6,
         NEW v \in Word, NEW w \in Word,
         NEW F, \/ F = Filled(b, Longer(a, v, w), 8)
                \/ F = Filled(Longer(b, v, w), <<>>, 8) /\ Len(b) = 6
  PROVE  /\ \A i \in 0 .. 5 : F[i] = Filled(b, a, 6)[i]
         /\ F[6] = v /\ F[7] = w
<1>1. PICK m, l : m = Len(b) /\ l = Len(a)
  OBVIOUS
<1>2. m \in Nat /\ l \in Nat /\ m + l <= 6
  BY <1>1
<1>3. \A i \in 0 .. 5 : Filled(b, a, 6)[i] = IF i < m THEN b[i + 1]
                                             ELSE IF i >= 6 - l THEN a[i - 6 + 1 + l] ELSE 0
  <2>1. 6 - 1 = 5
    OBVIOUS
  <2> QED BY <1>1, <2>1 DEF Filled
<1>4. CASE F = Filled(b, Longer(a, v, w), 8)
  <2>1. PICK r : r = Longer(a, v, w)
    OBVIOUS
  <2>2. Len(r) = l + 2 /\ (\A i \in 1 .. l : r[i] = a[i]) /\ r[l + 1] = v /\ r[l + 2] = w
    <3>1. /\ Len(Longer(a, v, w)) = Len(a) + 2
          /\ \A i \in 1 .. Len(a) : Longer(a, v, w)[i] = a[i]
          /\ Longer(a, v, w)[Len(a) + 1] = v /\ Longer(a, v, w)[Len(a) + 2] = w
      BY ONLY a \in Seq(Word), v \in Word, w \in Word, LongerIs
    <3> QED BY <1>1, <2>1, <3>1
  <2>3. \A i \in 0 .. 7 : F[i] = IF i < m THEN b[i + 1]
                                 ELSE IF i >= 8 - (l + 2) THEN r[i - 8 + 1 + (l + 2)] ELSE 0
    <3>1. 8 - 1 = 7
      OBVIOUS
    <3>2. F = Filled(b, r, 8)
      BY <1>4, <2>1
    <3> QED BY <1>1, <2>2, <3>1, <3>2 DEF Filled
  <2>4. ASSUME NEW i \in 0 .. 5 PROVE F[i] = Filled(b, a, 6)[i]
    <3>1. PICK j : j = i - 6 + 1 + l
      OBVIOUS
    <3>2. i - 8 + 1 + (l + 2) = j /\ (i >= 8 - (l + 2) <=> i >= 6 - l)
      BY <1>2, <3>1
    <3>3. i >= 6 - l => j \in 1 .. l
      BY <1>2, <3>1
    <3>4. i \in 0 .. 7
      OBVIOUS
    <3>5. F[i] = IF i < m THEN b[i + 1] ELSE IF i >= 6 - l THEN r[j] ELSE 0
      BY <2>3, <3>2, <3>4
    <3>6. Filled(b, a, 6)[i] = IF i < m THEN b[i + 1] ELSE IF i >= 6 - l THEN a[j] ELSE 0
      BY <1>3, <3>1
    <3> QED BY <2>2, <3>3, <3>5, <3>6
  <2>5. F[6] = v /\ F[7] = w
    <3>1. /\ ~(6 < m) /\ 6 >= 8 - (l + 2) /\ 6 - 8 + 1 + (l + 2) = l + 1
          /\ ~(7 < m) /\ 7 >= 8 - (l + 2) /\ 7 - 8 + 1 + (l + 2) = l + 2
      BY <1>2
    <3>2. 6 \in 0 .. 7 /\ 7 \in 0 .. 7
      OBVIOUS
    <3>3. F[6] = r[l + 1]
      BY ONLY <2>3, <3>1, <3>2
    <3>4. F[7] = r[l + 2]
      BY ONLY <2>3, <3>1, <3>2
    <3> QED BY ONLY <2>2, <3>3, <3>4
  <2> QED BY <2>4, <2>5
<1>5. CASE F = Filled(Longer(b, v, w), <<>>, 8) /\ m = 6
  <2>1. PICK r : r = Longer(b, v, w)
    OBVIOUS
  <2>2. Len(r) = 8 /\ (\A i \in 1 .. 6 : r[i] = b[i]) /\ r[7] = v /\ r[8] = w
    <3>1. /\ Len(Longer(b, v, w)) = Len(b) + 2
          /\ \A i \in 1 .. Len(b) : Longer(b, v, w)[i] = b[i]
          /\ Longer(b, v, w)[Len(b) + 1] = v /\ Longer(b, v, w)[Len(b) + 2] = w
      BY ONLY b \in Seq(Word), v \in Word, w \in Word, LongerIs
    <3>2. Len(b) = 6
      BY <1>1, <1>5
    <3> QED BY <2>1, <3>1, <3>2
  <2>3. \A i \in 0 .. 7 : F[i] = r[i + 1]
    <3>1. 8 - 1 = 7 /\ \A i \in 0 .. 7 : i < 8
      OBVIOUS
    <3>2. F = Filled(r, <<>>, 8)
      BY <1>5, <2>1
    <3> QED BY <2>2, <3>1, <3>2 DEF Filled
  <2>4. ASSUME NEW i \in 0 .. 5 PROVE F[i] = Filled(b, a, 6)[i]
    <3>1. i \in 0 .. 7 /\ i < 6 /\ i + 1 \in 1 .. 6
      OBVIOUS
    <3>2. F[i] = b[i + 1]
      BY ONLY <2>2, <2>3, <3>1
    <3>3. Filled(b, a, 6)[i] = b[i + 1]
      BY ONLY <1>3, <1>5, <2>4, <3>1
    <3> QED BY ONLY <3>2, <3>3
  <2>5. F[6] = v /\ F[7] = w
    BY ONLY <2>2, <2>3
  <2> QED BY <2>4, <2>5
<1> QED BY <1>1, <1>4, <1>5

\* The bytes of six groups and four octets are those of eight groups.
LEMMA MixedBytes ==
  ASSUME NEW s \in GroupScan, CountFits(s, 6), NEW o, \A i \in 1 .. 4 : o[i] \in 0 .. 255,
         NEW F, \A i \in 0 .. 5 : F[i] = Filled(s.before, s.after, 6)[i],
         F[6] = o[1] * 256 + o[2], F[7] = o[3] * 256 + o[4]
  PROVE  [k \in V6Bytes |-> IF k < 12 THEN GroupByte(Expand(s, 6), k) ELSE o[k - 11]] =
           BytesOfGroups(F)
<1>1. PICK gs : gs = Expand(s, 6)
  OBVIOUS
<1>2. \A i \in 0 .. 5 : gs[i + 1] = F[i]
  <2>1. 6 \in Nat /\ 6 - 1 = 5
    OBVIOUS
  <2> QED BY <1>1, <2>1, ExpandIs
<1> DEFINE Found(k) == IF k < 12 THEN GroupByte(gs, k) ELSE o[k - 11]
           Wanted(k) == IF k % 2 = 0 THEN F[k \div 2] \div 256 ELSE F[k \div 2] % 256
<1>3. o[1] \in 0 .. 255 /\ o[2] \in 0 .. 255 /\ o[3] \in 0 .. 255 /\ o[4] \in 0 .. 255
  OBVIOUS
<1>4. /\ F[6] \div 256 = o[1] /\ F[6] % 256 = o[2]
      /\ F[7] \div 256 = o[3] /\ F[7] % 256 = o[4]
  <2>1. PICK a, b, c, d : a = o[1] /\ b = o[2] /\ c = o[3] /\ d = o[4]
    OBVIOUS
  <2>2. a \in 0 .. 255 /\ b \in 0 .. 255 /\ c \in 0 .. 255 /\ d \in 0 .. 255
    BY <1>3, <2>1
  <2>3. /\ (a * 256 + b) \div 256 = a /\ (a * 256 + b) % 256 = b
        /\ (c * 256 + d) \div 256 = c /\ (c * 256 + d) % 256 = d
    BY ONLY <2>2
  <2>4. F[6] = a * 256 + b /\ F[7] = c * 256 + d
    BY <2>1
  <2> QED BY <2>1, <2>3, <2>4
<1>5. ASSUME NEW k \in V6Bytes PROVE Found(k) = Wanted(k)
  <2>1. k \in 0 .. 15
    BY DEF V6Bytes
  <2>2. CASE k < 12
    <3>1. k \div 2 \in 0 .. 5
      BY <2>1, <2>2
    <3>2. gs[k \div 2 + 1] = F[k \div 2]
      BY <1>2, <3>1
    <3> QED BY <2>2, <3>2 DEF GroupByte
  <2>3. CASE k = 12
    <3>1. 12 \div 2 = 6 /\ 12 % 2 = 0 /\ ~(12 < 12) /\ 12 - 11 = 1
      OBVIOUS
    <3> QED BY <1>4, <2>3, <3>1
  <2>4. CASE k = 13
    <3>1. 13 \div 2 = 6 /\ 13 % 2 # 0 /\ ~(13 < 12) /\ 13 - 11 = 2
      OBVIOUS
    <3> QED BY <1>4, <2>4, <3>1
  <2>5. CASE k = 14
    <3>1. 14 \div 2 = 7 /\ 14 % 2 = 0 /\ ~(14 < 12) /\ 14 - 11 = 3
      OBVIOUS
    <3> QED BY <1>4, <2>5, <3>1
  <2>6. CASE k = 15
    <3>1. 15 \div 2 = 7 /\ 15 % 2 # 0 /\ ~(15 < 12) /\ 15 - 11 = 4
      OBVIOUS
    <3> QED BY <1>4, <2>6, <3>1
  <2> QED BY <2>1, <2>2, <2>3, <2>4, <2>5, <2>6
<1>6. BytesOfGroups(F) = [k \in V6Bytes |-> Wanted(k)]
  BY DEF BytesOfGroups
<1> HIDE DEF Found, Wanted
<1>7. [k \in V6Bytes |-> Found(k)] = [k \in V6Bytes |-> Wanted(k)]
  BY <1>5
<1> QED BY <1>1, <1>6, <1>7 DEF Found

\* The dot behind the last colon.
LEMMA MixedHasDot ==
  ASSUME NEW t \in Seq(Token), IsMixed(t)
  PROVE  ~IsHexadecimal(t) /\ \E p \in 1 .. Len(t) : t[p].c = "." /\ p > LastPos(t, ":")
<1>1. PICK p : p = LastPos(t, ".")
  OBVIOUS
<1>2. LastPos(t, ":") \in Nat /\ p \in 0 .. Len(t) /\ (p > 0 => t[p].c = ".")
  BY <1>1, TextIs, LastPosIs
<1>3. p > LastPos(t, ":") /\ p \in 1 .. Len(t) /\ t[p].c = "."
  <2>1. p > LastPos(t, ":")
    BY <1>1 DEF IsMixed
  <2> QED BY <1>2, <2>1, TextIs
<1>4. ~IsHexadecimal(t)
  <2> SUFFICES ASSUME IsHexadecimal(t) PROVE FALSE
    OBVIOUS
  <2>1. IsGroup(t[p]) \/ t[p].c = ":"
    BY <1>3, HexadecimalTokens
  <2> QED BY <1>3, <2>1 DEF IsGroup
<1> QED BY <1>3, <1>4

\* Where the text after the last colon is no dotted quad, the text is no
\* address, and where it is, it is the dotted tail.
LEMMA QuadTail ==
  ASSUME NEW t \in Seq(Token), IsMixed(t), NEW colon, colon = LastPos(t, ":"), colon > 0
  PROVE  /\ IsHexadecimal(InGroups(t)) =>
              HasQuad(t) /\ colon = Len(t) - 7 /\ IsDottedQuad(After(t, colon))
         /\ IsDottedQuad(After(t, colon)) /\ Len(t) >= 9 =>
              /\ HasQuad(t) /\ colon = Len(t) - 7
              /\ After(t, colon) = QuadOf(t)
<1>1. PICK n : n = Len(t)
  OBVIOUS
<1>2. /\ n \in Nat /\ colon \in 1 .. n /\ t[colon].c = ":"
      /\ \A p \in 1 .. n : p > colon => t[p].c # ":"
  <2>1. /\ LastPos(t, ":") \in 0 .. Len(t)
        /\ LastPos(t, ":") > 0 => t[LastPos(t, ":")].c = ":"
        /\ \A p \in 1 .. Len(t) : p > LastPos(t, ":") => t[p].c # ":"
    BY TextIs, LastPosIs
  <2> QED BY <1>1, <2>1, TextIs
<1>3. ASSUME IsHexadecimal(InGroups(t))
      PROVE  HasQuad(t) /\ colon = n - 7 /\ IsDottedQuad(After(t, colon))
  <2>1. HasQuad(t)
    <3> SUFFICES ASSUME ~HasQuad(t) PROVE FALSE
      OBVIOUS
    <3>1. InGroups(t) = t
      BY DEF InGroups
    <3> QED BY <1>3, <3>1, MixedHasDot
  <2>2. PICK m, q, u : m = HeadLen(t) /\ q = QuadOf(t) /\ u = InGroups(t)
    OBVIOUS
  <2>3. /\ m \in Nat /\ m >= 1 /\ q \in Seq(Token) /\ IsDottedQuad(q)
        /\ \A i \in 1 .. 7 : q[i] = t[m + 1 + i]
        /\ u \in Seq(Token) /\ Len(u) = m + 4
        /\ \A j \in 1 .. m + 1 : u[j] = t[j]
        /\ IsGroup(u[m + 2])
    <3>1. TailIs(t, HeadLen(t), QuadOf(t), InGroups(t))
      BY <2>1, InGroupsIs
    <3>2. TailIs(t, m, q, u)
      BY <2>2, <3>1
    <3> QED BY <3>2 DEF TailIs
  <2>4. t[m + 1].c = ":"
    <3>1. m + 2 \in 1 .. m + 4 /\ m + 2 > 1 /\ m + 2 - 1 = m + 1 /\ m + 1 \in 1 .. m + 1
      BY <2>3
    <3>2. \A p \in 1 .. m + 4 : IsGroup(u[p]) /\ p > 1 => u[p - 1].c = ":"
      BY <1>3, <2>2, <2>3, HexadecimalTokens
    <3>3. u[m + 2 - 1].c = ":"
      BY <2>3, <3>1, <3>2
    <3> QED BY <2>3, <3>1, <3>3
  <2>5. \A i \in 1 .. 7 : q[i].c # ":"
    <3>1. Len(q) = 7 /\ \A i \in 1 .. 7 : IF i % 2 = 1 THEN IsOctet(q[i]) ELSE q[i].c = "."
      <4>1. Len(q) = 7 /\ DOMAIN q = 1 .. Len(q)
        BY <2>3 DEF IsDottedQuad
      <4> QED BY <2>3, <4>1 DEF IsDottedQuad, IsListOf
    <3> QED BY <3>1 DEF IsOctet, IsDecimal
  <2>6. colon = m + 1
    <3>1. m + 1 \in 1 .. n /\ n = m + 8
      <4>1. m = n - 8
        BY <1>1, <2>2 DEF HeadLen
      <4>2. n \in Nat /\ m \in Nat
        BY <1>2, <2>3
      <4> QED BY ONLY <4>1, <4>2
    <3>2. ~(m + 1 > colon)
      BY <1>2, <2>4, <3>1
    <3>3. ~(colon > m + 1)
      <4> SUFFICES ASSUME colon > m + 1 PROVE FALSE
        OBVIOUS
      <4>1. PICK i : i = colon - (m + 1)
        OBVIOUS
      <4>2. i \in 1 .. 7 /\ m + 1 + i = colon
        <5>1. m \in Nat /\ colon \in 1 .. n
          BY <1>2, <2>3
        <5> QED BY ONLY colon > m + 1, <3>1, <4>1, <5>1
      <4> QED BY <1>2, <2>3, <2>5, <4>2
    <3> QED BY <1>2, <2>3, <3>2, <3>3
  <2>7. colon = n - 7 /\ n - 6 = colon + 1
    <3>1. m = n - 8 /\ m \in Nat /\ n \in Nat
      BY <1>1, <1>2, <2>2, <2>3 DEF HeadLen
    <3> QED BY ONLY <2>6, <3>1
  <2>8. After(t, colon) = q
    BY <1>1, <2>2, <2>7 DEF After, QuadOf
  <2> QED BY <2>1, <2>3, <2>7, <2>8
<1>4. ASSUME IsDottedQuad(After(t, colon)), n >= 9
      PROVE  /\ HasQuad(t) /\ colon = n - 7
             /\ After(t, colon) = QuadOf(t)
  <2>1. Len(After(t, colon)) = n - colon /\ Len(After(t, colon)) = 7
    BY <1>1, <1>2, <1>4, PartsAre DEF IsDottedQuad
  <2>2. colon = n - 7 /\ n - 6 = colon + 1
    <3>1. n - colon = 7 /\ n \in Nat /\ colon \in Int
      <4>1. n \in Nat /\ colon \in Int
        BY <1>2
      <4>2. n - colon = 7
        BY ONLY <2>1
      <4> QED BY <4>1, <4>2
    <3> QED BY ONLY <3>1
  <2>3. After(t, colon) = QuadOf(t)
    BY <1>1, <2>2 DEF After, QuadOf
  <2>4. HasQuad(t)
    BY <1>1, <1>4, <2>3 DEF HasQuad, QuadOf
  <2> QED BY <2>2, <2>3, <2>4
<1> QED BY <1>1, <1>3, <1>4

\* Everything the mixed path depends on.
LEMMA ParseMixedIs ==
  ASSUME NEW t, NEW out, NEW colon, colon = LastPos(t, ":"),
         NEW o, o = ScanOctets(After(t, colon)), NEW s, s = ScanMixed(Before(t, colon)),
         NEW B, B = [k \in V6Bytes |-> IF k < 12 THEN GroupByte(Expand(s, 6), k) ELSE o[k - 11]]
  PROVE  ParseMixed(t, out) =
           IF o = <<>> \/ s.bad \/ ~CountFits(s, 6) THEN [rc |-> "PARSE", out |-> out]
           ELSE IF ~MappedPrefix(B) THEN [rc |-> "PARSE", out |-> [out EXCEPT !.bytes = B]]
           ELSE [rc |-> "OK", out |-> [family |-> "INET6", bytes |-> B]]
BY DEF ParseMixed

\* A text laid out around one more colon behind its :: has no group after it,
\* and too few in front of it to be ::ffff:0:0.
LEMMA TripleColon ==
  ASSUME NEW s \in GroupScan, CountFits(s, 6), NEW o,
         NEW h \in Seq(Token), NEW g, g = Len(h) - 1, IsLaid(h, g, TRUE, 6),
         GroupsBefore(h, g, s.before), GroupsAfter(h, g, s.after),
         NEW B, B = [k \in V6Bytes |-> IF k < 12 THEN GroupByte(Expand(s, 6), k) ELSE o[k - 11]]
  PROVE  ~MappedPrefix(B)
<1>1. PICK m, b, a, F : m = Len(h) /\ b = s.before /\ a = s.after /\ F = Filled(b, a, 6)
  OBVIOUS
<1>2. m \in Nat /\ g = m - 1 /\ g # m + 1 /\ g \in 1 .. m + 1
  BY <1>1 DEF IsLaid
<1>3. g \div 2 + (m - g) \div 2 < 6
  BY <1>1, <1>2 DEF IsLaid
<1>4. Len(b) = g \div 2 /\ Len(a) = (m - g) \div 2
  BY <1>1, <1>2 DEF GroupsBefore, GroupsAfter
<1>5. Len(a) = 0 /\ Len(b) < 6 /\ Len(b) \in Nat
  <2>1. m - g = 1 /\ 1 \div 2 = 0 /\ g \div 2 \in Nat
    BY <1>2
  <2>2. Len(a) = 0
    BY <1>4, <2>1
  <2>3. g \div 2 + 0 < 6
    BY <1>3, <2>1
  <2> QED BY <1>4, <2>1, <2>2, <2>3
<1>6. F[5] = 0
  <2>1. 6 - 1 = 5 /\ 5 \in 0 .. 5 /\ ~(5 < Len(b)) /\ ~(5 >= 6 - 0)
    BY <1>5
  <2> QED BY <1>1, <1>5, <2>1 DEF Filled
<1>7. Expand(s, 6)[6] = 0
  <2>1. 6 \in Nat /\ 6 - 1 = 5 /\ 5 \in 0 .. 5 /\ 5 + 1 = 6
    OBVIOUS
  <2>2. \A i \in 0 .. 6 - 1 : Expand(s, 6)[i + 1] = Filled(s.before, s.after, 6)[i]
    BY <2>1, ExpandIs
  <2> QED BY <1>1, <1>6, <2>1, <2>2
<1>8. B[10] = 0
  <2>1. 10 \in 0 .. 15 /\ 10 < 12 /\ 10 \div 2 + 1 = 6 /\ 10 % 2 = 0 /\ 0 \div 256 = 0
    OBVIOUS
  <2>2. B[10] = GroupByte(Expand(s, 6), 10)
    BY <2>1 DEF V6Bytes
  <2>3. GroupByte(Expand(s, 6), 10) = Expand(s, 6)[6] \div 256
    BY <2>1 DEF GroupByte
  <2> QED BY <1>7, <2>1, <2>2, <2>3
<1> QED BY <1>8 DEF MappedPrefix

\* The mixed path takes the IPv6 texts among its own.
LEMMA MixedParsed ==
  ASSUME NEW t \in Seq(Token), IsMixed(t), LastPos(t, ":") > 0, NEW out
  PROVE  /\ IsIPv6Text(t) =>
              /\ BytesOfGroups(GroupsOf(InGroups(t))) \in [V6Bytes -> 0 .. 255]
              /\ ParseMixed(t, out) =
                   [rc  |-> "OK",
                    out |-> [family |-> "INET6", bytes |-> BytesOfGroups(GroupsOf(InGroups(t)))]]
         /\ ~IsIPv6Text(t) =>
              \E b : ParseMixed(t, out) \in {[rc |-> "PARSE", out |-> out],
                                             [rc |-> "PARSE", out |-> [out EXCEPT !.bytes = b]]}
<1>1. PICK n, colon, q, h : /\ n = Len(t) /\ colon = LastPos(t, ":")
                            /\ q = After(t, colon) /\ h = Before(t, colon)
  OBVIOUS
<1>2. n \in Nat /\ colon \in 1 .. n
  <2>1. LastPos(t, ":") \in 0 .. Len(t)
    BY TextIs, LastPosIs
  <2> QED BY <1>1, <2>1, TextIs
<1>3. /\ q \in Seq(Token) /\ h \in Seq(Token) /\ Len(h) = colon - 1 /\ Len(q) = n - colon
      /\ \A k \in 1 .. colon - 1 : h[k] = t[k]
  BY <1>1, <1>2, PartsAre
<1>4. PICK f : IsTrail(f, h, TRUE, 6) /\ ScanMixed(h) = f[Len(h)]
  BY <1>3, MixedPasses
<1>5. PICK o, s : o = ScanOctets(q) /\ s = ScanMixed(h)
  OBVIOUS
<1>6. PICK B : B = [k \in V6Bytes |-> IF k < 12 THEN GroupByte(Expand(s, 6), k) ELSE o[k - 11]]
  OBVIOUS
<1>7. ParseMixed(t, out) =
        IF o = <<>> \/ s.bad \/ ~CountFits(s, 6) THEN [rc |-> "PARSE", out |-> out]
        ELSE IF ~MappedPrefix(B) THEN [rc |-> "PARSE", out |-> [out EXCEPT !.bytes = B]]
        ELSE [rc |-> "OK", out |-> [family |-> "INET6", bytes |-> B]]
  BY <1>1, <1>5, <1>6, ParseMixedIs
<1>8. /\ s \in GroupScan
      /\ ~s.bad /\ CountFits(s, 6) => \E g : IsLaid(h, g, TRUE, 6)
      /\ \A g : IsLaid(h, g, TRUE, 6) =>
           /\ ~s.bad /\ CountFits(s, 6)
           /\ GroupsBefore(h, g, s.before) /\ GroupsAfter(h, g, s.after)
  <2>1. TRUE \in BOOLEAN /\ 6 \in Nat \ {0}
    OBVIOUS
  <2> QED BY <1>3, <1>4, <1>5, <2>1, GroupsScanned
<1>9. IsHexadecimal(InGroups(t)) => HasQuad(t) /\ colon = n - 7 /\ IsDottedQuad(q)
  BY <1>1, <1>2, QuadTail
<1>10. /\ ~IsDottedQuad(q) => o = <<>>
       /\ IsDottedQuad(q) => /\ o # <<>>
                             /\ \A i \in 1 .. 4 : o[i] = DecValue(q[2 * i - 1])
  <2>1. /\ ~IsDottedQuad(q) => o = <<>>
        /\ IsDottedQuad(q) => /\ Len(o) = 4
                              /\ \A i \in 1 .. 4 : o[i] = DecValue(q[2 * i - 1])
    BY <1>3, <1>5, OctetsScanned
  <2>2. Len(o) = 4 => o # <<>>
    <3>1. Len(<<>>) # 4
      OBVIOUS
    <3> QED BY <3>1
  <2> QED BY <2>1, <2>2
<1>11. IsIPv6Text(t) <=>
         /\ IsHexadecimal(InGroups(t))
         /\ HasQuad(t) => MappedPrefix(BytesOfGroups(GroupsOf(InGroups(t))))
  BY DEF IsIPv6Text
<1>12. CASE ~IsHexadecimal(InGroups(t)) /\ o # <<>> /\ ~s.bad /\ CountFits(s, 6)
  <2>1. PICK g : IsLaid(h, g, TRUE, 6)
    BY <1>8, <1>12
  <2>2. IsDottedQuad(q) /\ n - colon = 7
    <3>1. IsDottedQuad(q)
      BY <1>10, <1>12
    <3> QED BY <1>3, <3>1 DEF IsDottedQuad
  <2>3. Len(h) > 0
    <3> SUFFICES ASSUME Len(h) = 0 PROVE FALSE
      BY <1>2, <1>3
    <3>1. g \in 1 .. 0 + 1 /\ (g = 0 + 1 => g \div 2 = 6)
      BY <2>1 DEF IsLaid
    <3>2. g = 1 /\ 1 \div 2 = 0
      BY <3>1
    <3> QED BY <3>1, <3>2
  <2>4. n >= 9
    BY <1>2, <1>3, <2>2, <2>3
  <2>5. HasQuad(t) /\ q = QuadOf(t)
    BY <1>1, <1>2, <2>2, <2>4, QuadTail
  <2>6. PICK m, u : m = HeadLen(t) /\ u = InGroups(t)
    OBVIOUS
  <2>7. /\ m \in Nat /\ u \in Seq(Token) /\ Len(u) = m + 4
        /\ \A j \in 1 .. m + 1 : u[j] = t[j]
        /\ IsGroup(u[m + 2]) /\ u[m + 3].c = ":" /\ IsGroup(u[m + 4])
        /\ u[m + 2].v \in Word /\ u[m + 4].v \in Word
    <3>1. TailIs(t, HeadLen(t), QuadOf(t), InGroups(t))
      BY <2>5, InGroupsIs
    <3>2. TailIs(t, m, q, u)
      BY <2>5, <2>6, <3>1
    <3> QED BY <3>2 DEF TailIs
  <2>8. HasTail(u, h, m)
    <3>1. m = colon - 1 /\ m + 1 = colon /\ m + 1 \in 1 .. m + 1
      <4>1. m = n - 8
        BY <1>1, <2>6 DEF HeadLen
      <4>2. n \in Nat /\ colon \in Nat /\ m \in Nat /\ n - colon = 7
        BY <1>2, <2>2, <2>6, <2>7
      <4> QED BY ONLY <4>1, <4>2
    <3>2. t[colon].c = ":"
      BY <1>1, <1>2, TextIs, LastPosIs
    <3>3. \A j \in 1 .. m : j \in 1 .. m + 1 /\ j \in 1 .. colon - 1
      BY <2>7, <3>1
    <3> QED BY <1>3, <2>7, <3>1, <3>2, <3>3 DEF HasTail
  <2>9. g = m - 1
    <3> SUFFICES ASSUME g # m - 1 PROVE FALSE
      OBVIOUS
    <3>1. GroupsBefore(h, g, s.before) /\ GroupsAfter(h, g, s.after)
      BY <1>8, <2>1
    <3>2. s.before \in Seq(Word) /\ s.after \in Seq(Word)
      BY <1>8 DEF GroupScan
    <3>3. \E e : IsLaid(u, e, FALSE, 8) /\ EndsOdd(u, e)
      <4>1. u \in Seq(Token) /\ h \in Seq(Token) /\ m \in Nat
        BY <1>3, <2>7
      <4>2. u[m + 2].v \in Word /\ u[m + 4].v \in Word
        BY <2>7
      <4>3. PICK b, a, v, w : b = s.before /\ a = s.after /\ v = u[m + 2].v /\ w = u[m + 4].v
        OBVIOUS
      <4>4. /\ b \in Seq(Word) /\ a \in Seq(Word) /\ v \in Word /\ w \in Word
            /\ GroupsBefore(h, g, b) /\ GroupsAfter(h, g, a)
        BY <3>1, <3>2, <4>2, <4>3
      <4>5. v = u[m + 2].v /\ w = u[m + 4].v
        BY <4>3
      <4>6. LongerLaid(u, m, g, b, a, v, w)
        BY ONLY g # m - 1, <2>1, <2>8, <4>1, <4>4, <4>5, LaidLonger
      <4> QED BY <4>6 DEF LongerLaid
    <3>4. IsHexadecimal(u)
      BY <2>7, <3>3, HexadecimalIs DEF EndsOdd
    <3> QED BY <1>12, <2>6, <3>4
  <2>10. ~MappedPrefix(B)
    <3>1. g = Len(h) - 1
      BY <2>8, <2>9 DEF HasTail
    <3> QED BY <1>3, <1>6, <1>8, <1>12, <2>1, <3>1, TripleColon
  <2> QED BY <1>7, <1>11, <1>12, <2>10
<1>13. CASE ~IsHexadecimal(InGroups(t)) /\ (o = <<>> \/ s.bad \/ ~CountFits(s, 6))
  BY <1>7, <1>11, <1>13
<1>14. CASE IsHexadecimal(InGroups(t))
  <2>1. HasQuad(t) /\ colon = n - 7 /\ IsDottedQuad(q) /\ o # <<>>
    BY <1>9, <1>10, <1>14
  <2>2. n >= 9
    BY <1>1, <2>1 DEF HasQuad
  <2>3. q = QuadOf(t)
    BY <1>1, <1>2, <2>1, <2>2, QuadTail
  <2>4. PICK m, u : m = HeadLen(t) /\ u = InGroups(t)
    OBVIOUS
  <2>5. /\ m \in Nat /\ u \in Seq(Token) /\ Len(u) = m + 4
        /\ \A j \in 1 .. m + 1 : u[j] = t[j]
        /\ IsGroup(u[m + 2]) /\ u[m + 3].c = ":" /\ IsGroup(u[m + 4])
        /\ u[m + 2].v \in Word /\ u[m + 4].v \in Word
        /\ u[m + 2].v = DecValue(q[1]) * 256 + DecValue(q[3])
        /\ u[m + 4].v = DecValue(q[5]) * 256 + DecValue(q[7])
        /\ \A i \in 1 .. 4 : DecValue(q[2 * i - 1]) \in 0 .. 255
    <3>1. TailIs(t, HeadLen(t), QuadOf(t), InGroups(t))
      BY <2>1, InGroupsIs
    <3>2. TailIs(t, m, q, u)
      BY <2>3, <2>4, <3>1
    <3> QED BY <3>2 DEF TailIs
  <2>6. HasTail(u, h, m)
    <3>1. m = colon - 1 /\ m + 1 = colon /\ m + 1 \in 1 .. m + 1
      <4>1. m = n - 8
        BY <1>1, <2>4 DEF HeadLen
      <4>2. n \in Nat /\ colon \in Nat /\ m \in Nat /\ n - colon = 7
        BY <1>2, <2>1, <2>4, <2>5
      <4> QED BY ONLY <4>1, <4>2
    <3>2. t[colon].c = ":"
      BY <1>1, <1>2, TextIs, LastPosIs
    <3>3. \A j \in 1 .. m : j \in 1 .. m + 1 /\ j \in 1 .. colon - 1
      BY <2>5, <3>1
    <3>4. /\ m = Len(h) /\ Len(u) = m + 4
          /\ IsGroup(u[m + 2]) /\ u[m + 3].c = ":" /\ IsGroup(u[m + 4])
      BY <1>3, <2>5, <3>1
    <3>5. \A j \in 1 .. m : u[j] = h[j]
      BY <1>3, <2>5, <3>3
    <3>6. u[m + 1].c = ":"
      <4>1. u[m + 1] = t[m + 1]
        BY <2>5, <3>1
      <4> QED BY <3>1, <3>2, <4>1
    <3> QED BY <3>4, <3>5, <3>6 DEF HasTail
  <2>7. PICK e : IsLaid(u, e, FALSE, 8) /\ EndsOdd(u, e)
    BY <1>14, <2>4, <2>5, HexadecimalIs DEF EndsOdd
  <2>8. PICK g : g # m - 1 /\ IsLaid(h, g, TRUE, 6)
    <3>1. u \in Seq(Token) /\ h \in Seq(Token) /\ m \in Nat
      BY <1>3, <2>5
    <3> QED BY ONLY <2>6, <2>7, <3>1, LaidShorter
  <2>9. PICK b, a, v, w : b = s.before /\ a = s.after /\ v = u[m + 2].v /\ w = u[m + 4].v
    OBVIOUS
  <2>10. /\ ~s.bad /\ CountFits(s, 6)
         /\ GroupsBefore(h, g, b) /\ GroupsAfter(h, g, a)
         /\ b \in Seq(Word) /\ a \in Seq(Word)
    <3>1. b \in Seq(Word) /\ a \in Seq(Word)
      BY <1>8, <2>9 DEF GroupScan
    <3> QED BY <1>8, <2>8, <2>9, <3>1
  <2>11. v \in Word /\ w \in Word
    BY <2>5, <2>9
  <2>12. PICK d, x, y : /\ d = IF g = m + 1 THEN m + 5 ELSE g
                        /\ x = IF g = m + 1 THEN Longer(b, v, w) ELSE b
                        /\ y = IF g = m + 1 THEN <<>> ELSE Longer(a, v, w)
    OBVIOUS
  <2>13. /\ IsLaid(u, d, FALSE, 8) /\ EndsOdd(u, d)
         /\ GroupsBefore(u, d, x) /\ GroupsAfter(u, d, y)
    <3>1. u \in Seq(Token) /\ h \in Seq(Token) /\ m \in Nat
      BY <1>3, <2>5
    <3>2. v = u[m + 2].v /\ w = u[m + 4].v
      BY <2>9
    <3>3. LongerLaid(u, m, g, b, a, v, w)
      BY ONLY <2>6, <2>8, <2>10, <2>11, <3>1, <3>2, LaidLonger
    <3> QED BY <2>12, <3>3 DEF LongerLaid
  <2>14. GroupsOf(u) = Filled(x, y, 8)
    <3>1. u \in Seq(Token)
      BY <2>5
    <3>2. IF d = Len(u) + 1 THEN Len(u) = 15 ELSE d \in Gaps(u)
      BY <2>13 DEF EndsOdd
    <3> QED BY ONLY <2>13, <3>1, <3>2, GroupsOfAre
  <2>15. Len(b) + Len(a) <= 6
    <3>1. PICK i, j : i = Len(b) /\ j = Len(a)
      OBVIOUS
    <3>2. i \in Nat /\ j \in Nat
      BY <2>10, <3>1
    <3>3. IF s.cc THEN i + j < 6 ELSE i + j = 6
      BY <2>9, <2>10, <3>1 DEF CountFits
    <3> QED BY <3>1, <3>2, <3>3
  <2>16. PICK F : F = GroupsOf(u)
    OBVIOUS
  <2>17. \/ F = Filled(b, Longer(a, v, w), 8)
         \/ F = Filled(Longer(b, v, w), <<>>, 8) /\ Len(b) = 6
    <3>1. CASE g = m + 1
      <4>1. Len(h) = m
        BY <2>6 DEF HasTail
      <4>2. g \div 2 = 6
        BY <2>8, <3>1, <4>1 DEF IsLaid
      <4>3. Len(b) = 6
        BY <2>10, <4>2 DEF GroupsBefore
      <4> QED BY <2>12, <2>14, <2>16, <3>1, <4>3
    <3>2. CASE g # m + 1
      BY <2>12, <2>14, <2>16, <3>2
    <3> QED BY <3>1, <3>2
  <2>18. (\A i \in 0 .. 5 : F[i] = Filled(b, a, 6)[i]) /\ F[6] = v /\ F[7] = w
    BY <2>10, <2>11, <2>15, <2>17, FilledLonger
  <2>19. /\ \A i \in 1 .. 4 : o[i] \in 0 .. 255
         /\ v = o[1] * 256 + o[2] /\ w = o[3] * 256 + o[4]
    <3>1. 2 * 1 - 1 = 1 /\ 2 * 2 - 1 = 3 /\ 2 * 3 - 1 = 5 /\ 2 * 4 - 1 = 7
      OBVIOUS
    <3>2. \A i \in 1 .. 4 : o[i] = DecValue(q[2 * i - 1])
      BY <1>10, <2>1
    <3>3. 1 \in 1 .. 4 /\ 2 \in 1 .. 4 /\ 3 \in 1 .. 4 /\ 4 \in 1 .. 4
      OBVIOUS
    <3>4. /\ o[1] = DecValue(q[1]) /\ o[2] = DecValue(q[3])
          /\ o[3] = DecValue(q[5]) /\ o[4] = DecValue(q[7])
      BY <3>1, <3>2, <3>3
    <3>5. /\ v = DecValue(q[1]) * 256 + DecValue(q[3])
          /\ w = DecValue(q[5]) * 256 + DecValue(q[7])
      BY <2>5, <2>9
    <3>6. \A i \in 1 .. 4 : DecValue(q[2 * i - 1]) \in 0 .. 255
      BY <2>5
    <3>7. \A i \in 1 .. 4 : o[i] \in 0 .. 255
      BY <3>2, <3>6
    <3>8. v = o[1] * 256 + o[2] /\ w = o[3] * 256 + o[4]
      BY <3>4, <3>5
    <3> QED BY <3>7, <3>8
  <2>20. B = BytesOfGroups(F)
    <3>1. F[6] = o[1] * 256 + o[2] /\ F[7] = o[3] * 256 + o[4]
      BY <2>18, <2>19
    <3>2. \A i \in 0 .. 5 : F[i] = Filled(s.before, s.after, 6)[i]
      BY <2>9, <2>18
    <3> QED BY <1>6, <1>8, <2>10, <2>19, <3>1, <3>2, MixedBytes
  <2>21. BytesOfGroups(F) \in [V6Bytes -> 0 .. 255]
    <3>1. F \in [0 .. 7 -> Word]
      <4>1. /\ Filled(b, a, 6) \in [0 .. 5 -> Word]
        <5>1. 6 \in Nat /\ 6 - 1 = 5
          OBVIOUS
        <5> QED BY <2>10, <2>15, <5>1, FilledIs
      <4>2. F = [i \in 0 .. 7 |-> F[i]]
        <5>1. 8 - 1 = 7
          OBVIOUS
        <5>2. \A r, z : Filled(r, z, 8) = [i \in 0 .. 7 |-> Filled(r, z, 8)[i]]
          BY <5>1 DEF Filled
        <5> QED BY <2>17, <5>2
      <4>3. ASSUME NEW i \in 0 .. 7 PROVE F[i] \in Word
        <5>1. i \in 0 .. 5 \/ i = 6 \/ i = 7
          OBVIOUS
        <5> QED BY <2>11, <2>18, <4>1, <5>1
      <4> QED BY <4>2, <4>3
    <3>2. PICK gs : gs = [i \in 1 .. 8 |-> F[i - 1]]
      OBVIOUS
    <3>3. \A i \in 0 .. 7 : gs[i + 1] = F[i]
      BY <3>2
    <3> QED BY <3>1, <3>3, BytesOfGroupsAre
  <2>22. IsIPv6Text(t) <=> MappedPrefix(B)
    BY <1>11, <1>14, <2>1, <2>4, <2>16, <2>20
  <2>23. ParseMixed(t, out) =
           IF ~MappedPrefix(B) THEN [rc |-> "PARSE", out |-> [out EXCEPT !.bytes = B]]
           ELSE [rc |-> "OK", out |-> [family |-> "INET6", bytes |-> B]]
    BY <1>7, <2>1, <2>10
  <2> QED BY <2>4, <2>16, <2>20, <2>21, <2>22, <2>23
<1> QED BY <1>12, <1>13, <1>14

----------------------------------------------------------------------------
(* The parser takes the texts of the grammar, with their values.           *)

\* A C struct that holds an address, whatever is in it.
IsCell(a) == a = [family |-> a.family, bytes |-> a.bytes]

\* What a parser of t returns into a struct.
Parses(t, r) ==
  /\ r.rc \in {"OK", "PARSE"}
  /\ r.rc = "OK" <=> Taken(t)
  /\ IF r.rc = "OK" THEN r.out = Meaning(t) /\ IsAddress(r.out)
     ELSE IsCell(r.out) /\ r.out.family = "UNSPEC"

LEMMA MarkedIs ==
  ASSUME NEW t, NEW out,
         NEW r, r = IF LastPos(t, ":") = 0 THEN ParseIPv4(t, out)
                    ELSE IF IsMixed(t) THEN ParseMixed(t, out) ELSE ParsePure(t, out)
  PROVE  AddrParse(t, out) =
           IF r.rc = "OK" THEN r ELSE [rc |-> r.rc, out |-> [r.out EXCEPT !.family = "UNSPEC"]]
BY DEF AddrParse

\* A text of no colon is no IPv6 text, and a dotted quad has none.
LEMMA DottedHasNoColon ==
  ASSUME NEW t \in Seq(Token), IsDottedQuad(t)
  PROVE  LastPos(t, ":") = 0
<1>1. Len(t) \in Nat /\ DOMAIN t = 1 .. Len(t)
  BY TextIs
<1>2. \A p \in 1 .. Len(t) : IF p % 2 = 1 THEN IsOctet(t[p]) ELSE t[p].c = "."
  BY <1>1 DEF IsDottedQuad, IsListOf
<1>3. \A p \in 1 .. Len(t) : t[p].c # ":"
  BY <1>2 DEF IsOctet, IsDecimal
<1>4. LastPos(t, ":") \in 0 .. Len(t) /\ (LastPos(t, ":") > 0 => t[LastPos(t, ":")].c = ":")
  BY <1>1, LastPosIs
<1>5. PICK p : p = LastPos(t, ":")
  OBVIOUS
<1>6. p \in 0 .. Len(t) /\ (p > 0 => t[p].c = ":")
  BY <1>4, <1>5
<1> QED BY <1>1, <1>3, <1>5, <1>6

LEMMA ColonIsLast ==
  ASSUME NEW t \in Seq(Token), Len(t) > 0, t[Len(t)].c = ":"
  PROVE  LastPos(t, ":") = Len(t)
<1>1. PICK n, p : n = Len(t) /\ p = LastPos(t, ":")
  OBVIOUS
<1>2. /\ n \in Nat /\ p \in 0 .. n /\ n > 0
      /\ \A k \in 1 .. n : k > p => t[k].c # ":"
  BY <1>1, TextIs, LastPosIs
<1>3. t[n].c = ":"
  BY <1>1
<1> QED BY <1>1, <1>2, <1>3

\* The dot behind the last colon of a text with a dotted tail.
LEMMA QuadIsMixed ==
  ASSUME NEW t \in Seq(Token), HasQuad(t)
  PROVE  IsMixed(t) /\ ~IsHexadecimal(t)
<1>1. PICK n, m, q, u : /\ n = Len(t) /\ m = HeadLen(t) /\ q = QuadOf(t) /\ u = InGroups(t)
  OBVIOUS
<1>2. /\ m \in Nat /\ q \in Seq(Token) /\ IsDottedQuad(q)
      /\ \A i \in 1 .. 7 : q[i] = t[m + 1 + i]
  <2>1. TailIs(t, m, q, u)
    BY <1>1, InGroupsIs
  <2> QED BY <2>1 DEF TailIs
<1>3. n \in Nat /\ n = m + 8
  <2>1. m = n - 8 /\ n \in Nat
    BY <1>1, TextIs DEF HeadLen
  <2> QED BY <2>1
<1>4. \A i \in 1 .. 7 : q[i].c # ":"
  <2>1. Len(q) = 7 /\ DOMAIN q = 1 .. Len(q)
    BY <1>2 DEF IsDottedQuad
  <2>2. \A i \in 1 .. 7 : IF i % 2 = 1 THEN IsOctet(q[i]) ELSE q[i].c = "."
    BY <1>2, <2>1 DEF IsDottedQuad, IsListOf
  <2> QED BY <2>2 DEF IsOctet, IsDecimal
<1>5. q[2].c = "."
  <2>1. Len(q) = 7 /\ \A i \in 1 .. 3 : q[2 * i].c = "."
    BY <1>2, QuadIs
  <2>2. 2 * 1 = 2 /\ 1 \in 1 .. 3
    OBVIOUS
  <2> QED BY <2>1, <2>2
<1>6. PICK d : d = m + 3
  OBVIOUS
<1>7. d \in 1 .. n /\ t[d].c = "."
  <2>1. m + 1 + 2 = d /\ 2 \in 1 .. 7 /\ d \in 1 .. n
    BY <1>2, <1>3, <1>6
  <2>2. q[2] = t[m + 1 + 2]
    BY <1>2, <2>1
  <2> QED BY <1>5, <2>1, <2>2
<1>8. IsMixed(t)
  <2>1. PICK p, colon : p = LastPos(t, ".") /\ colon = LastPos(t, ":")
    OBVIOUS
  <2>2. /\ p \in 0 .. n /\ \A k \in 1 .. n : k > p => t[k].c # "."
        /\ colon \in 0 .. n /\ (colon > 0 => t[colon].c = ":")
    BY <1>1, <1>3, <2>1, LastPosIs
  <2>3. p >= d
    BY <1>3, <1>7, <2>2
  <2>4. ~(colon > m + 1)
    <3> SUFFICES ASSUME colon > m + 1 PROVE FALSE
      OBVIOUS
    <3>1. PICK i : i = colon - (m + 1)
      OBVIOUS
    <3>2. i \in 1 .. 7 /\ m + 1 + i = colon
      <4>1. m \in Nat /\ colon \in 0 .. n /\ n = m + 8
        BY <1>2, <1>3, <2>2
      <4> QED BY ONLY colon > m + 1, <3>1, <4>1
    <3>3. q[i] = t[colon]
      BY <1>2, <3>2
    <3>4. t[colon].c = ":"
      BY <1>2, <2>2
    <3> QED BY <1>4, <3>2, <3>3, <3>4
  <2>5. p > colon
    BY <1>2, <1>3, <1>6, <2>2, <2>3, <2>4
  <2> QED BY <2>1, <2>5 DEF IsMixed
<1>9. ~IsHexadecimal(t)
  <2> SUFFICES ASSUME IsHexadecimal(t) PROVE FALSE
    OBVIOUS
  <2>1. IsGroup(t[d]) \/ t[d].c = ":"
    BY <1>1, <1>7, HexadecimalTokens
  <2> QED BY <1>7, <2>1 DEF IsGroup
<1> QED BY <1>8, <1>9

LEMMA IPv4Parses ==
  ASSUME NEW t \in Seq(Token), LastPos(t, ":") = 0, NEW out, IsCell(out)
  PROVE  Parses(t, AddrParse(t, out))
<1>1. ~IsIPv6Text(t)
  BY DEF IsIPv6Text
<1>2. ~IsTrailingColonText(t)
  <2> SUFFICES ASSUME IsTrailingColonText(t) PROVE FALSE
    OBVIOUS
  <2>1. Len(t) > 1 /\ t[Len(t)].c = ":" /\ Len(t) \in Nat
    BY TextIs DEF IsTrailingColonText, IsChar
  <2>2. LastPos(t, ":") = Len(t)
    BY <2>1, ColonIsLast
  <2> QED BY <2>1, <2>2
<1>3. Taken(t) <=> IsDottedQuad(t)
  BY <1>1, <1>2 DEF Taken, IsAddressText
<1>4. PICK o : o = ScanOctets(t)
  OBVIOUS
<1>5. PICK r : r = ParseIPv4(t, out)
  OBVIOUS
<1>6. AddrParse(t, out) =
        IF r.rc = "OK" THEN r ELSE [rc |-> r.rc, out |-> [r.out EXCEPT !.family = "UNSPEC"]]
  BY <1>5, MarkedIs
<1>7. r = IF o = <<>> THEN [rc |-> "PARSE", out |-> out]
          ELSE [rc  |-> "OK",
                out |-> [family |-> "INET", bytes |-> [k \in V4Bytes |-> o[k + 1]]]]
  BY <1>4, <1>5 DEF ParseIPv4
<1>8. CASE ~IsDottedQuad(t)
  <2>1. o = <<>>
    BY <1>4, <1>8, OctetsScanned
  <2>2. AddrParse(t, out) = [rc |-> "PARSE", out |-> [out EXCEPT !.family = "UNSPEC"]]
    BY <1>6, <1>7, <2>1
  <2>3. [out EXCEPT !.family = "UNSPEC"] = [family |-> "UNSPEC", bytes |-> out.bytes]
    BY DEF IsCell
  <2> QED BY <1>3, <1>8, <2>2, <2>3 DEF Parses, IsCell
<1>9. CASE IsDottedQuad(t)
  <2>1. Len(o) = 4 /\ \A i \in 1 .. 4 : o[i] = DecValue(t[2 * i - 1])
    BY <1>4, <1>9, OctetsScanned
  <2>2. o # <<>>
    <3>1. Len(<<>>) # 4
      OBVIOUS
    <3> QED BY <2>1, <3>1
  <2>3. ASSUME NEW k \in V4Bytes PROVE o[k + 1] = DecValue(t[2 * k + 1]) /\ o[k + 1] \in 0 .. 255
    <3>1. k + 1 \in 1 .. 4 /\ 2 * (k + 1) - 1 = 2 * k + 1 /\ 2 * k + 1 \in 1 .. 7
      BY DEF V4Bytes
    <3>2. IsOctet(t[2 * (k + 1) - 1]) /\ Len(t) = 7
      BY <1>9, <3>1, QuadIs
    <3>3. t[2 * k + 1] \in Token
      BY <3>1, <3>2, TextIs
    <3>4. DecValue(t[2 * k + 1]) \in 0 .. 255
      BY <3>1, <3>2, <3>3, OctetIs
    <3>5. PICK i : i = k + 1
      OBVIOUS
    <3>6. i \in 1 .. 4 /\ 2 * i - 1 = 2 * k + 1
      BY <3>1, <3>5
    <3>7. o[i] = DecValue(t[2 * k + 1])
      BY <2>1, <3>6
    <3> QED BY <3>4, <3>5, <3>7
  <2>4. PICK b : b = [k \in V4Bytes |-> o[k + 1]]
    OBVIOUS
  <2>5. b = Quad(t) /\ b \in [V4Bytes -> 0 .. 255]
    BY <2>3, <2>4 DEF Quad
  <2>6. AddrParse(t, out) = [rc |-> "OK", out |-> [family |-> "INET", bytes |-> b]]
    BY <1>6, <1>7, <2>2, <2>4
  <2>7. Meaning(t) = [family |-> "INET", bytes |-> b]
    BY <1>9, <2>5 DEF Meaning, IsAddressText, Denoted
  <2>8. IsAddress([family |-> "INET", bytes |-> b])
    BY <2>5 DEF IsAddress, BytesOf
  <2> QED BY <1>3, <1>9, <2>6, <2>7, <2>8 DEF Parses
<1> QED BY <1>8, <1>9

LEMMA ColonIsNoQuad ==
  ASSUME NEW t \in Seq(Token), LastPos(t, ":") > 0
  PROVE  ~IsDottedQuad(t)
<1>1. IsDottedQuad(t) => LastPos(t, ":") = 0
  BY DottedHasNoColon
<1> QED BY <1>1

LEMMA IPv6IsAddress ==
  ASSUME NEW b \in [V6Bytes -> 0 .. 255]
  PROVE  IsAddress([family |-> "INET6", bytes |-> b])
BY DEF IsAddress, BytesOf

\* The trailing colon is the one the pure path reads over.
LEMMA TrailingIsOdd ==
  ASSUME NEW t \in Seq(Token)
  PROVE  IsTrailingColonText(t) <=> OddColon(t) /\ IsHexadecimal(Front(t))
<1>1. ASSUME IsTrailingColonText(t) PROVE OddColon(t) /\ IsHexadecimal(Front(t))
  <2>1. OddColon(t)
    <3>1. Len(t) > 1 /\ Len(t) \in Nat /\ DOMAIN t = 1 .. Len(t)
      BY <1>1, TextIs DEF IsTrailingColonText
    <3>2. Len(t) - 1 \in DOMAIN t
      BY <3>1
    <3>3. IsChar(t, Len(t), ":") /\ ~IsChar(t, Len(t) - 1, ":")
      BY <1>1 DEF IsTrailingColonText
    <3> QED BY <3>1, <3>2, <3>3 DEF OddColon, IsChar
  <2>2. ~HasQuad(Front(t)) /\ IsHexadecimal(InGroups(Front(t)))
    BY <1>1 DEF IsTrailingColonText, IsIPv6Text
  <2> QED BY <2>1, <2>2 DEF InGroups
<1>2. ASSUME OddColon(t), IsHexadecimal(Front(t)) PROVE IsTrailingColonText(t)
  <2>1. Len(t) > 1 /\ Len(t) \in Nat /\ DOMAIN t = 1 .. Len(t)
    BY <1>2, TextIs DEF OddColon
  <2>2. IsChar(t, Len(t), ":") /\ ~IsChar(t, Len(t) - 1, ":")
    BY <1>2, <2>1 DEF OddColon, IsChar
  <2>3. Front(t) \in Seq(Token)
    BY <2>1, FrontIs
  <2>4. PICK u : u = Front(t)
    OBVIOUS
  <2>5. u \in Seq(Token) /\ IsHexadecimal(u)
    BY <1>2, <2>3, <2>4
  <2>6. ~HasQuad(u) /\ LastPos(u, ":") > 0
    BY <2>5, QuadIsMixed, HexadecimalTokens
  <2>7. IsIPv6Text(u)
    BY <2>5, <2>6 DEF IsIPv6Text, InGroups
  <2> QED BY <2>1, <2>2, <2>4, <2>6, <2>7 DEF IsTrailingColonText
<1> QED BY <1>1, <1>2

LEMMA PureParses ==
  ASSUME NEW t \in Seq(Token), LastPos(t, ":") > 0, ~IsMixed(t), NEW out, IsCell(out)
  PROVE  Parses(t, AddrParse(t, out))
<1>1. ~IsDottedQuad(t) /\ ~HasQuad(t)
  BY ColonIsNoQuad, QuadIsMixed
<1>2. IsAddressText(t) <=> IsHexadecimal(t)
  BY <1>1 DEF IsAddressText, IsIPv6Text, InGroups
<1>3. IsHexadecimal(t) => ~OddColon(t)
  BY HexadecimalTokens
<1>4. PICK u : u = Written(t)
  OBVIOUS
<1>5. Taken(t) <=> IsHexadecimal(u)
  BY <1>2, <1>3, <1>4, TrailingIsOdd DEF Taken, Written
<1>6. ASSUME IsHexadecimal(u)
      PROVE  Meaning(t) = [family |-> "INET6", bytes |-> BytesOfGroups(GroupsOf(u))]
  <2>1. CASE IsAddressText(t)
    <3>1. u = t
      BY <1>2, <1>3, <1>4, <2>1 DEF Written
    <3>2. Meaning(t) = Denoted(t) /\ InGroups(t) = t
      BY <1>1, <2>1 DEF Meaning, InGroups
    <3> QED BY <1>1, <3>1, <3>2 DEF Denoted
  <2>2. CASE ~IsAddressText(t)
    <3>1. u = Front(t)
      BY <1>2, <1>4, <1>6, <2>2 DEF Written
    <3>2. u \in Seq(Token)
      BY <1>4, WrittenIs
    <3>3. ~HasQuad(u) /\ LastPos(u, ":") > 0
      BY <1>6, <3>2, QuadIsMixed, HexadecimalTokens
    <3>4. ~IsDottedQuad(u)
      BY <3>2, <3>3, ColonIsNoQuad
    <3>5. Meaning(t) = Denoted(u) /\ InGroups(u) = u
      BY <2>2, <3>1, <3>3 DEF Meaning, InGroups
    <3> QED BY <3>4, <3>5 DEF Denoted
  <2> QED BY <2>1, <2>2
<1>7. PICK r : r = ParsePure(t, out)
  OBVIOUS
<1>8. AddrParse(t, out) =
        IF r.rc = "OK" THEN r ELSE [rc |-> r.rc, out |-> [r.out EXCEPT !.family = "UNSPEC"]]
  BY <1>7, MarkedIs
<1>9. CASE IsHexadecimal(u)
  <2>1. PICK b : b = BytesOfGroups(GroupsOf(u))
    OBVIOUS
  <2>2. b \in [V6Bytes -> 0 .. 255] /\ r = [rc |-> "OK", out |-> [family |-> "INET6", bytes |-> b]]
    BY <1>4, <1>7, <1>9, <2>1, PureParsed
  <2>3. AddrParse(t, out) = [rc |-> "OK", out |-> [family |-> "INET6", bytes |-> b]]
    BY <1>8, <2>2
  <2>4. IsAddress([family |-> "INET6", bytes |-> b])
    BY <2>2, IPv6IsAddress
  <2> QED BY <1>5, <1>6, <1>9, <2>1, <2>3, <2>4 DEF Parses
<1>10. CASE ~IsHexadecimal(u)
  <2>1. r = [rc |-> "PARSE", out |-> out]
    BY <1>4, <1>7, <1>10, PureParsed
  <2>2. AddrParse(t, out) = [rc |-> "PARSE", out |-> [out EXCEPT !.family = "UNSPEC"]]
    BY <1>8, <2>1
  <2>3. [out EXCEPT !.family = "UNSPEC"] = [family |-> "UNSPEC", bytes |-> out.bytes]
    BY DEF IsCell
  <2> QED BY <1>5, <1>10, <2>2, <2>3 DEF Parses, IsCell
<1> QED BY <1>9, <1>10

LEMMA MixedParses ==
  ASSUME NEW t \in Seq(Token), LastPos(t, ":") > 0, IsMixed(t), NEW out, IsCell(out)
  PROVE  Parses(t, AddrParse(t, out))
<1>1. ~IsDottedQuad(t)
  BY ColonIsNoQuad
<1>2. ~IsTrailingColonText(t)
  <2> SUFFICES ASSUME IsTrailingColonText(t) PROVE FALSE
    OBVIOUS
  <2>1. Len(t) > 1 /\ t[Len(t)].c = ":" /\ Len(t) \in Nat
    BY TextIs DEF IsTrailingColonText, IsChar
  <2>2. LastPos(t, ":") = Len(t)
    BY <2>1, ColonIsLast
  <2>3. LastPos(t, ".") \in 0 .. Len(t)
    BY <2>1, LastPosIs
  <2> QED BY <2>1, <2>2, <2>3 DEF IsMixed
<1>3. Taken(t) <=> IsIPv6Text(t)
  BY <1>1, <1>2 DEF Taken, IsAddressText
<1>4. PICK r : r = ParseMixed(t, out)
  OBVIOUS
<1>5. AddrParse(t, out) =
        IF r.rc = "OK" THEN r ELSE [rc |-> r.rc, out |-> [r.out EXCEPT !.family = "UNSPEC"]]
  BY <1>4, MarkedIs
<1>6. CASE IsIPv6Text(t)
  <2>1. PICK b : b = BytesOfGroups(GroupsOf(InGroups(t)))
    OBVIOUS
  <2>2. b \in [V6Bytes -> 0 .. 255] /\ r = [rc |-> "OK", out |-> [family |-> "INET6", bytes |-> b]]
    BY <1>4, <1>6, <2>1, MixedParsed
  <2>3. AddrParse(t, out) = [rc |-> "OK", out |-> [family |-> "INET6", bytes |-> b]]
    BY <1>5, <2>2
  <2>4. IsAddress([family |-> "INET6", bytes |-> b])
    BY <2>2, IPv6IsAddress
  <2>5. Meaning(t) = [family |-> "INET6", bytes |-> b]
    BY <1>1, <1>6, <2>1 DEF Meaning, IsAddressText, Denoted
  <2> QED BY <1>3, <1>6, <2>3, <2>4, <2>5 DEF Parses
<1>7. CASE ~IsIPv6Text(t)
  <2>1. PICK b : r \in {[rc |-> "PARSE", out |-> out],
                        [rc |-> "PARSE", out |-> [out EXCEPT !.bytes = b]]}
    BY <1>4, <1>7, MixedParsed
  <2>2. PICK a : r = [rc |-> "PARSE", out |-> a] /\ IsCell(a)
    <3>1. IsCell([out EXCEPT !.bytes = b])
      BY DEF IsCell
    <3> QED BY <2>1, <3>1
  <2>3. AddrParse(t, out) = [rc |-> "PARSE", out |-> [a EXCEPT !.family = "UNSPEC"]]
    BY <1>5, <2>2
  <2>4. [a EXCEPT !.family = "UNSPEC"] = [family |-> "UNSPEC", bytes |-> a.bytes]
    BY <2>2 DEF IsCell
  <2> QED BY <1>3, <1>7, <2>3, <2>4 DEF Parses, IsCell
<1> QED BY <1>6, <1>7

\* cidr_addr_parse takes the texts of the grammar, returns the address such a
\* text denotes, and marks the struct as holding none otherwise.
LEMMA ParserIsGrammar ==
  ASSUME NEW t \in Seq(Token), NEW out, IsCell(out)
  PROVE  Parses(t, AddrParse(t, out))
<1>1. LastPos(t, ":") \in Nat
  BY TextIs, LastPosIs
<1> QED BY <1>1, IPv4Parses, PureParses, MixedParses

----------------------------------------------------------------------------
(* How long the texts are.                                                 *)

\* Where the characters of a text end.
IsWidths(t, f) == /\ f[0] = 0
                  /\ \A n \in 0 .. Len(t) : f[n] \in Nat
                  /\ \A n \in 1 .. Len(t) : f[n] = f[n - 1] + t[n].w
                  /\ Width(t) = f[Len(t)]

LEMMA WidthIs ==
  ASSUME NEW t \in Seq(Token)
  PROVE  \E f : IsWidths(t, f)
<1> DEFINE m == Len(t)
           step == [e \in (1 .. m) \X Nat |-> e[2] + t[e[1]].w]
           IsIt(f) == f = [n \in 0 .. m |-> IF n = 0 THEN 0 ELSE f[n - 1] + t[n].w]
           width == CHOOSE f : IsIt(f)
<1>1. m \in Nat /\ 0 \in Nat /\ \A n \in 1 .. m : t[n].w \in Nat
  <2>1. m \in Nat /\ \A n \in 1 .. m : t[n] \in Token
    BY TextIs
  <2> QED BY <2>1 DEF Token
<1>2. IsStep(step, m, Nat)
  <2>1. \A e \in (1 .. m) \X Nat : e[2] + t[e[1]].w \in Nat
    BY <1>1
  <2> QED BY <2>1 DEF IsStep
<1>3. PICK f : S4!IsLoop(f, m, Nat, 0, step)
  <2> HIDE DEF step, m
  <2> QED BY <1>1, <1>2, LoopResult
<1>4. IsIt(f)
  <2>1. /\ f \in [0 .. m -> Nat]
        /\ f[0] = 0
        /\ \A n \in 1 .. m : f[n] = step[<<n, f[n - 1]>>]
    <3> HIDE DEF step, m
    <3> QED BY <1>3 DEF S4!IsLoop
  <2>2. \A n \in 1 .. m : f[n - 1] \in Nat
    <3>1. \A n \in 1 .. m : n - 1 \in 0 .. m
      BY <1>1
    <3> HIDE DEF step, m
    <3> QED BY <2>1, <3>1
  <2>3. \A n \in 1 .. m : f[n] = f[n - 1] + t[n].w
    BY <2>1, <2>2
  <2> HIDE DEF step
  <2> QED BY <2>1, <2>3
<1>5. IsIt(width)
  <2> HIDE DEF IsIt
  <2> QED BY <1>4
<1>6. Width(t) = width[m]
  BY DEF Width
<1> HIDE DEF width
<1>7. width[0] = 0 /\ \A n \in 1 .. m : width[n] = width[n - 1] + t[n].w
  <2> HIDE DEF step
  <2> QED BY <1>1, <1>5
<1>8. \A n \in 0 .. m : width[n] \in Nat
  <2>1. \A n \in 1 .. m : width[n - 1] \in Nat => width[n] \in Nat
    BY <1>1, <1>7
  <2>2. width[0] \in Nat
    BY <1>7
  <2> HIDE DEF m
  <2> QED BY ONLY <1>1, <2>1, <2>2, LoopType
<1>9. IsWidths(t, width)
  BY <1>6, <1>7, <1>8 DEF IsWidths
<1> QED BY <1>9

\* Groups with colons between them take five characters for two tokens.
LEMMA GroupWidths ==
  ASSUME NEW t \in Seq(Token), NEW f, IsWidths(t, f), NEW n \in 0 .. Len(t),
         \A p \in 1 .. n : /\ IsGroup(t[p]) \/ t[p].c = ":"
                           /\ IsGroup(t[p]) /\ p > 1 => t[p - 1].c = ":"
  PROVE  /\ 2 * f[n] <= 5 * n + 3
         /\ n > 0 /\ t[n].c = ":" => 2 * f[n] <= 5 * n
<1> DEFINE S == {k \in 0 .. n : /\ 2 * f[k] <= 5 * k + 3
                                /\ k > 0 /\ t[k].c = ":" => 2 * f[k] <= 5 * k}
<1>1. 0 \in S
  BY DEF IsWidths
<1>2. ASSUME NEW k \in 1 .. n, k - 1 \in S PROVE k \in S
  <2>1. /\ k \in 1 .. Len(t) /\ k - 1 \in 0 .. Len(t) /\ n \in Nat
        /\ f[k - 1] \in Nat /\ f[k] = f[k - 1] + t[k].w
    <3>1. k \in 1 .. Len(t) /\ k - 1 \in 0 .. Len(t) /\ n \in Nat
      BY TextIs
    <3> QED BY <3>1 DEF IsWidths
  <2>2. t[k] \in Token /\ t[k].w \in Nat
    <3>1. t[k] \in Token
      BY <2>1, TextIs
    <3> QED BY <3>1 DEF Token
  <2>3. 2 * f[k - 1] <= 5 * (k - 1) + 3
    BY <1>2
  <2>4. CASE t[k].c = ":"
    <3>1. t[k].w = 1
      <4>1. t[k] = Char(":")
        BY <2>2, <2>4 DEF Token
      <4> QED BY <4>1 DEF Char
    <3>2. k \in 0 .. n /\ k \in Int /\ f[k] \in Nat
      <4>1. f[k] \in Nat
        BY <2>1, <3>1
      <4> QED BY <4>1
    <3>3. 2 * f[k] <= 5 * k
      BY <2>1, <2>3, <3>1
    <3>4. 2 * f[k] <= 5 * k + 3
      BY ONLY <3>2, <3>3
    <3> QED BY <3>2, <3>3, <3>4
  <2>5. CASE IsGroup(t[k]) /\ t[k].c # ":"
    <3>1. t[k].w \in 1 .. 4
      BY <2>2, <2>5, GroupIs
    <3>2. 2 * f[k - 1] <= 5 * (k - 1)
      <4>1. CASE k = 1
        BY <4>1 DEF IsWidths
      <4>2. CASE k > 1
        <5>1. t[k - 1].c = ":" /\ k - 1 > 0
          BY <2>5, <4>2
        <5> QED BY <1>2, <5>1
      <4> QED BY <4>1, <4>2
    <3>3. 2 * f[k] <= 5 * k + 3
      BY <2>1, <3>1, <3>2
    <3> QED BY <2>5, <3>3
  <2> QED BY <2>4, <2>5
<1>3. 0 .. n \subseteq S
  <2>1. n \in Nat
    BY TextIs
  <2>2. \A k \in 1 .. n : k - 1 \in S => k \in S
    BY <1>2
  <2> HIDE DEF S
  <2>3. 0 \in S
    BY <1>1
  <2> QED BY ONLY <2>1, <2>2, <2>3, S4!RoundByRound
<1>4. n \in 0 .. n
  BY TextIs
<1> QED BY <1>3, <1>4

\* Eight groups, or seven and a ::, are fifteen tokens at most.
LEMMA HexadecimalLength ==
  ASSUME NEW t \in Seq(Token), IsHexadecimal(t)
  PROVE  Len(t) <= 15
<1>1. SUFFICES ASSUME Gaps(t) # {} PROVE Len(t) <= 15
  <2>1. 15 <= 15
    OBVIOUS
  <2> QED BY <2>1, Zenon DEF IsHexadecimal
<1>2. PICK n, g : n = Len(t) /\ g \in Gaps(t)
  BY <1>1
<1>3. n \in Nat
  BY <1>2, TextIs
<1>4. /\ g \in 1 .. n - 1
      /\ IsGroups(Before(t, g)) /\ IsGroups(After(t, g + 1))
      /\ Len(Items(Before(t, g))) + Len(Items(After(t, g + 1))) < 8
  BY <1>2 DEF Gaps
<1>5. PICK h, q, e : h = Before(t, g) /\ q = After(t, e) /\ e = g + 1
  OBVIOUS
<1>6. /\ h \in Seq(Token) /\ Len(h) = g - 1
      /\ q \in Seq(Token) /\ Len(q) = n - e
  <2>1. g \in 1 .. Len(t) /\ e \in 1 .. Len(t)
    BY <1>2, <1>3, <1>4, <1>5
  <2> QED BY <1>2, <1>5, <2>1, PartsAre
<1>7. /\ Len(h) > 0 => Len(h) % 2 = 1
      /\ Len(q) > 0 => Len(q) % 2 = 1
  <2>1. Len(<<>>) = 0
    OBVIOUS
  <2>2. Len(h) > 0 => h # <<>>
    BY <2>1
  <2>3. Len(q) > 0 => q # <<>>
    BY <2>1
  <2> QED BY <1>4, <1>5, <2>2, <2>3 DEF IsGroups, IsListOf
<1>8. PICK a, b : a = Len(h) /\ b = Len(q)
  OBVIOUS
<1>9. (a + 1) \div 2 + (b + 1) \div 2 < 8
  BY <1>4, <1>5, <1>6, <1>8, ItemsAre
<1>10. a \in Nat /\ b \in Nat /\ n = a + b + 2
  <2>1. g \in Nat /\ e \in Nat /\ g \in 1 .. n - 1 /\ a = g - 1 /\ b = n - e /\ e = g + 1
    BY <1>3, <1>4, <1>5, <1>6, <1>8
  <2> QED BY ONLY <1>3, <2>1
<1>11. (a > 0 => a % 2 = 1) /\ (b > 0 => b % 2 = 1)
  BY <1>7, <1>8
<1>12. n <= 15
  <2>1. PICK x, y : x = (a + 1) \div 2 /\ y = (b + 1) \div 2
    OBVIOUS
  <2>2. x \in Nat /\ a <= 2 * x
    BY ONLY <1>10, <1>11, <2>1
  <2>3. y \in Nat /\ b <= 2 * y
    BY ONLY <1>10, <1>11, <2>1
  <2>4. x > 0 => a <= 2 * x - 1
    BY ONLY <1>10, <1>11, <2>1
  <2>5. x + y < 8
    BY <1>9, <2>1
  <2>6. y > 0 => b <= 2 * y - 1
    BY ONLY <1>10, <1>11, <2>1
  <2> QED BY ONLY <1>10, <2>2, <2>3, <2>4, <2>5, <2>6
<1> QED BY <1>2, <1>12

\* An octet and a dot take four characters.
LEMMA QuadWidths ==
  ASSUME NEW t \in Seq(Token), NEW f, IsWidths(t, f), NEW m \in Nat, m + 7 = Len(t),
         NEW q, IsDottedQuad(q), \A i \in 1 .. 7 : q[i] = t[m + i], q \in Seq(Token)
  PROVE  f[Len(t)] <= f[m] + 15
<1>1. \A i \in 1 .. 7 : /\ f[m + i] = f[m + i - 1] + q[i].w
                        /\ f[m + i] \in Nat /\ f[m + i - 1] \in Nat
  <2> TAKE i \in 1 .. 7
  <2>1. PICK n : n = Len(t)
    OBVIOUS
  <2>2. PICK p : p = m + i
    OBVIOUS
  <2>0. p \in 1 .. n /\ p \in 0 .. n /\ p - 1 \in 0 .. n
    <3>1. n = m + 7
      BY <2>1
    <3> QED BY <2>2, <3>1
  <2>3. t[p] = q[i]
    BY <2>2
  <2>4. f[p] = f[p - 1] + t[p].w /\ f[p] \in Nat /\ f[p - 1] \in Nat
    <3>1. /\ \A j \in 0 .. n : f[j] \in Nat
          /\ \A j \in 1 .. n : f[j] = f[j - 1] + t[j].w
      BY <2>1 DEF IsWidths
    <3> QED BY <2>0, <3>1
  <2> QED BY <2>2, <2>3, <2>4
<1>2. Len(q) = 7 /\ \A i \in 1 .. 7 : IF i % 2 = 1 THEN IsOctet(q[i]) ELSE q[i].c = "."
  <2>1. Len(q) = 7 /\ DOMAIN q = 1 .. Len(q)
    BY TextIs DEF IsDottedQuad
  <2> QED BY <2>1 DEF IsDottedQuad, IsListOf
<1>3. \A i \in 1 .. 7 : q[i] \in Token
  BY <1>2, TextIs
<1>4. \A i \in 1 .. 7 : i % 2 = 1 => q[i].w \in 1 .. 3
  BY <1>2, <1>3, OctetIs
<1>5. \A i \in 1 .. 7 : i % 2 # 1 => q[i].w = 1
  BY <1>2, <1>3, TokenIs
<1>6. PICK g, w : g = [i \in 0 .. 7 |-> f[m + i]] /\ w = [i \in 1 .. 7 |-> q[i].w]
  OBVIOUS
<1>7. \A i \in 1 .. 7 : /\ i % 2 = 1 => w[i] \in 1 .. 3
                        /\ i % 2 # 1 => w[i] = 1
  <2>1. \A i \in 1 .. 7 : w[i] = q[i].w
    BY <1>6
  <2> QED BY <1>4, <1>5, <2>1
<1>8. \A i \in 1 .. 7 : g[i] = g[i - 1] + w[i] /\ g[i] \in Nat /\ g[i - 1] \in Nat
  <2> TAKE i \in 1 .. 7
  <2>1. i \in 0 .. 7 /\ i - 1 \in 0 .. 7 /\ m + (i - 1) = m + i - 1
    OBVIOUS
  <2>2. g[i] = f[m + i] /\ g[i - 1] = f[m + i - 1] /\ w[i] = q[i].w
    BY <1>6, <2>1
  <2> QED BY <1>1, <2>2
<1>9. \A i \in 1 .. 7 : /\ g[i] \in Nat /\ g[i - 1] \in Nat
                        /\ i % 2 = 1 => g[i] <= g[i - 1] + 3
                        /\ i % 2 # 1 => g[i] = g[i - 1] + 1
  <2> TAKE i \in 1 .. 7
  <2>1. g[i] = g[i - 1] + w[i] /\ g[i] \in Nat /\ g[i - 1] \in Nat
    BY <1>8
  <2>2. i % 2 = 1 => w[i] \in 1 .. 3
    BY <1>7
  <2>3. i % 2 # 1 => w[i] = 1
    BY <1>7
  <2> QED BY ONLY <2>1, <2>2, <2>3
<1>10. g[7] <= g[0] + 15
  <2>1. PICK a, b, c, d, e : a = g[0] /\ b = g[2] /\ c = g[4] /\ d = g[6] /\ e = g[7]
    OBVIOUS
  <2>2. a \in Nat /\ b \in Nat /\ c \in Nat /\ d \in Nat /\ e \in Nat
    BY ONLY <1>9, <2>1
  <2>3. g[1] <= g[0] + 3 /\ g[2] = g[1] + 1 /\ g[1] \in Nat
    BY ONLY <1>9
  <2>4. b <= a + 4
    BY ONLY <2>1, <2>2, <2>3
  <2>5. g[3] <= g[2] + 3 /\ g[4] = g[3] + 1 /\ g[3] \in Nat
    BY ONLY <1>9
  <2>6. c <= b + 4
    BY ONLY <2>1, <2>2, <2>5
  <2>7. g[5] <= g[4] + 3 /\ g[6] = g[5] + 1 /\ g[5] \in Nat
    BY ONLY <1>9
  <2>8. d <= c + 4
    BY ONLY <2>1, <2>2, <2>7
  <2>9. g[7] <= g[6] + 3
    BY ONLY <1>9
  <2>10. e <= d + 3
    BY ONLY <2>1, <2>9
  <2>11. e <= a + 15
    BY ONLY <2>2, <2>4, <2>6, <2>8, <2>10
  <2> QED BY ONLY <2>1, <2>11
<1>11. g[7] = f[Len(t)] /\ g[0] = f[m]
  BY <1>6
<1> QED BY <1>10, <1>11

\* The texts the parser takes fit the buffer that cidr_prefix_parse copies the
\* part before the slash into.
LEMMA HexadecimalFits ==
  ASSUME NEW t \in Seq(Token), IsHexadecimal(t)
  PROVE  2 * Width(t) <= 78
<1>1. PICK f : IsWidths(t, f)
  BY WidthIs
<1>2. PICK n : n = Len(t)
  OBVIOUS
<1>3. n \in Nat /\ n <= 15 /\ n \in 0 .. Len(t)
  BY <1>2, TextIs, HexadecimalLength
<1>4. \A p \in 1 .. n : /\ IsGroup(t[p]) \/ t[p].c = ":"
                        /\ IsGroup(t[p]) /\ p > 1 => t[p - 1].c = ":"
  BY <1>2, HexadecimalTokens
<1>5. 2 * f[n] <= 5 * n + 3
  BY <1>1, <1>3, <1>4, GroupWidths
<1>6. f[n] \in Nat /\ Width(t) = f[n]
  BY <1>1, <1>2, <1>3 DEF IsWidths
<1> QED BY <1>3, <1>5, <1>6

LEMMA QuadFits ==
  ASSUME NEW t \in Seq(Token), IsDottedQuad(t)
  PROVE  Width(t) <= 15
<1>1. PICK f : IsWidths(t, f)
  BY WidthIs
<1>2. Len(t) = 7
  BY DEF IsDottedQuad
<1>3. f[Len(t)] <= f[0] + 15
  <2>1. 0 \in Nat /\ 0 + 7 = Len(t) /\ \A i \in 1 .. 7 : t[i] = t[0 + i]
    BY <1>2
  <2> QED BY <1>1, <2>1, QuadWidths
<1>4. f[0] = 0 /\ Width(t) = f[Len(t)]
  BY <1>1 DEF IsWidths
<1> QED BY <1>3, <1>4

LEMMA MixedFits ==
  ASSUME NEW t \in Seq(Token), HasQuad(t), IsHexadecimal(InGroups(t))
  PROVE  Width(t) <= 45
<1>1. PICK f : IsWidths(t, f)
  BY WidthIs
<1>2. PICK n, m, q, u : /\ n = Len(t) /\ m = HeadLen(t) /\ q = QuadOf(t) /\ u = InGroups(t)
  OBVIOUS
<1>3. /\ m \in Nat /\ q \in Seq(Token) /\ IsDottedQuad(q)
      /\ \A i \in 1 .. 7 : q[i] = t[m + 1 + i]
      /\ u \in Seq(Token) /\ Len(u) = m + 4
      /\ \A j \in 1 .. m + 1 : u[j] = t[j]
      /\ IsGroup(u[m + 2])
  <2>1. TailIs(t, m, q, u)
    BY <1>2, InGroupsIs
  <2> QED BY <2>1 DEF TailIs
<1>4. n \in Nat /\ n = m + 8
  <2>1. m = n - 8 /\ n \in Nat
    BY <1>2, TextIs DEF HeadLen
  <2> QED BY <2>1
<1>5. PICK k : k = m + 1
  OBVIOUS
<1>6. k \in Nat /\ k > 0 /\ k + 7 = Len(t) /\ k \in 0 .. Len(t) /\ k <= 12
  <2>1. Len(u) <= 15 /\ Len(u) = m + 4
    BY <1>2, <1>3, HexadecimalLength
  <2>2. n = Len(t) /\ n = m + 8 /\ m \in Nat
    BY <1>2, <1>3, <1>4
  <2> QED BY ONLY <1>5, <2>1, <2>2
<1>7. \A p \in 1 .. Len(u) : /\ IsGroup(u[p]) \/ u[p].c = ":"
                             /\ IsGroup(u[p]) /\ p > 1 => u[p - 1].c = ":"
  BY <1>2, <1>3, HexadecimalTokens
<1>8. \A p \in 1 .. k : /\ IsGroup(t[p]) \/ t[p].c = ":"
                        /\ IsGroup(t[p]) /\ p > 1 => t[p - 1].c = ":"
  <2> TAKE p \in 1 .. k
  <2>1. p \in 1 .. Len(u) /\ p \in 1 .. m + 1 /\ (p > 1 => p - 1 \in 1 .. m + 1)
    BY <1>3, <1>5
  <2>2. u[p] = t[p] /\ (p > 1 => u[p - 1] = t[p - 1])
    BY <1>3, <2>1
  <2> QED BY <1>7, <2>1, <2>2
<1>9. t[k].c = ":"
  <2>1. m + 2 \in 1 .. Len(u) /\ m + 2 > 1 /\ m + 2 - 1 = k /\ k \in 1 .. m + 1
    BY <1>3, <1>5
  <2>2. u[k].c = ":"
    <3>1. PICK p : p = m + 2
      OBVIOUS
    <3>2. p \in 1 .. Len(u) /\ p > 1 /\ p - 1 = k /\ IsGroup(u[p])
      BY <1>3, <2>1, <3>1
    <3>3. u[p - 1].c = ":"
      BY <1>7, <3>2
    <3> QED BY <3>2, <3>3
  <2> QED BY <1>3, <2>1, <2>2
<1>10. 2 * f[k] <= 5 * k
  BY <1>1, <1>6, <1>8, <1>9, GroupWidths
<1>11. f[Len(t)] <= f[k] + 15
  BY <1>1, <1>3, <1>5, <1>6, QuadWidths
<1>12. f[k] \in Nat /\ f[Len(t)] \in Nat /\ Width(t) = f[Len(t)]
  BY <1>1, <1>2, <1>4, <1>6 DEF IsWidths
<1> QED BY <1>6, <1>10, <1>11, <1>12

LEMMA TakenFits ==
  ASSUME NEW t \in Seq(Token), Taken(t)
  PROVE  Width(t) < 46
<1>1. PICK f : IsWidths(t, f)
  BY WidthIs
<1>2. Width(t) \in Nat
  <2>1. Len(t) \in 0 .. Len(t)
    BY TextIs
  <2> QED BY <1>1, <2>1 DEF IsWidths
<1>3. CASE IsDottedQuad(t)
  BY <1>2, <1>3, QuadFits
<1>4. CASE IsIPv6Text(t)
  <2>1. IsHexadecimal(InGroups(t))
    BY <1>4 DEF IsIPv6Text
  <2>2. CASE HasQuad(t)
    BY <1>2, <2>1, <2>2, MixedFits
  <2>3. CASE ~HasQuad(t)
    BY <1>2, <2>1, <2>3, HexadecimalFits DEF InGroups
  <2> QED BY <2>2, <2>3
<1>5. CASE IsTrailingColonText(t)
  <2>1. OddColon(t) /\ IsHexadecimal(Front(t))
    BY <1>5, TrailingIsOdd
  <2>2. PICK n, u : n = Len(t) /\ u = Front(t)
    OBVIOUS
  <2>3. /\ n \in Nat /\ n > 1 /\ t[n].c = ":" /\ u \in Seq(Token) /\ Len(u) = n - 1
        /\ \A j \in 1 .. n - 1 : u[j] = t[j]
    <3>1. Len(t) > 1 /\ t[Len(t)].c = ":" /\ Len(t) \in Nat
      BY <2>1, TextIs DEF OddColon
    <3>2. n \in Nat /\ n > 1 /\ t[n].c = ":"
      BY <2>2, <3>1
    <3> QED BY <2>2, <3>1, <3>2, FrontIs
  <2>4. n <= 16
    BY <2>1, <2>2, <2>3, HexadecimalLength
  <2>5. \A p \in 1 .. n - 1 : /\ IsGroup(u[p]) \/ u[p].c = ":"
                              /\ IsGroup(u[p]) /\ p > 1 => u[p - 1].c = ":"
    BY <2>1, <2>2, <2>3, HexadecimalTokens
  <2>6. \A p \in 1 .. n : /\ IsGroup(t[p]) \/ t[p].c = ":"
                          /\ IsGroup(t[p]) /\ p > 1 => t[p - 1].c = ":"
    <3> TAKE p \in 1 .. n
    <3>1. CASE p = n
      BY <2>3, <3>1 DEF IsGroup
    <3>2. CASE p # n
      <4>1. p \in 1 .. n - 1 /\ (p > 1 => p - 1 \in 1 .. n - 1)
        BY <2>3, <3>2
      <4>2. u[p] = t[p] /\ (p > 1 => u[p - 1] = t[p - 1])
        BY <2>3, <4>1
      <4> QED BY <2>5, <4>1, <4>2
    <3> QED BY <3>1, <3>2
  <2>7. n \in 0 .. Len(t)
    BY <2>2, <2>3
  <2>8. 2 * f[n] <= 5 * n
    BY <1>1, <2>3, <2>6, <2>7, GroupWidths
  <2>9. Width(t) = f[n]
    BY <1>1, <2>2 DEF IsWidths
  <2> QED BY <1>2, <2>3, <2>4, <2>8, <2>9
<1> QED BY <1>3, <1>4, <1>5 DEF Taken, IsAddressText

----------------------------------------------------------------------------
(* The two widths of the library.                                          *)

LEMMA Shape4 ==
  /\ S4!BytePos = V4Bytes /\ S4!Byte = 0 .. 255 /\ S4!ByteSize = 256
  /\ S4!KeyBits = 32 /\ S4!Pfxlen = 0 .. 32 /\ S4!Address = [V4Bytes -> 0 .. 255]
<1>1. S4!BytePos = V4Bytes
  <2>1. 4 - 1 = 3
    OBVIOUS
  <2> QED BY <2>1 DEF S4!BytePos, V4Bytes
<1>2. S4!ByteSize = 256 /\ S4!Byte = 0 .. 255
  <2>1. 2^8 = 256 /\ 256 - 1 = 255
    OBVIOUS
  <2> QED BY <2>1 DEF S4!ByteSize, S4!Byte
<1>3. S4!KeyBits = 32 /\ S4!Pfxlen = 0 .. 32
  <2>1. 8 * 4 = 32
    OBVIOUS
  <2> QED BY <2>1 DEF S4!KeyBits, S4!MaxPfxlen, S4!Pfxlen
<1> QED BY <1>1, <1>2, <1>3 DEF S4!Address

LEMMA Shape6 ==
  /\ S6!BytePos = V6Bytes /\ S6!Byte = 0 .. 255 /\ S6!ByteSize = 256
  /\ S6!KeyBits = 128 /\ S6!Pfxlen = 0 .. 128 /\ S6!Address = [V6Bytes -> 0 .. 255]
<1>1. S6!BytePos = V6Bytes
  <2>1. 16 - 1 = 15
    OBVIOUS
  <2> QED BY <2>1 DEF S6!BytePos, V6Bytes
<1>2. S6!ByteSize = 256 /\ S6!Byte = 0 .. 255
  <2>1. 2^8 = 256 /\ 256 - 1 = 255
    OBVIOUS
  <2> QED BY <2>1 DEF S6!ByteSize, S6!Byte
<1>3. S6!KeyBits = 128 /\ S6!Pfxlen = 0 .. 128
  <2>1. 8 * 16 = 128
    OBVIOUS
  <2> QED BY <2>1 DEF S6!KeyBits, S6!MaxPfxlen, S6!Pfxlen
<1> QED BY <1>1, <1>2, <1>3 DEF S6!Address

\* Masks, ranges and comparisons of one width are those of the lemmas.
LEMMA Same4 ==
  ASSUME NEW a, NEW b, NEW n, NEW p, NEW q
  PROVE  /\ V4!MaskApply(a, n) = S4!MaskApply(a, n)
         /\ V4!FillHost(a, n) = S4!FillHost(a, n)
         /\ V4!Last(p) = S4!Last(p)
         /\ V4!MaskCompute(n) = S4!MaskCompute(n)
         /\ V4!Contains(p, a) <=> S4!Contains(p, a)
         /\ V4!Overlaps(p, q) <=> S4!Overlaps(p, q)
         /\ V4!AddrLess(a, b) <=> S4!AddrLess(a, b)
         /\ V4!AddrCmp(a, b) = S4!AddrCmp(a, b)
         /\ V4!PrefixCmp(p, q) = S4!PrefixCmp(p, q)
         /\ V4!KeepTop(a, n) = S4!KeepTop(a, n)
<1>1. V4!BytePos = S4!BytePos /\ V4!ByteSize = S4!ByteSize
  BY DEF V4!BytePos, S4!BytePos, V4!ByteSize, S4!ByteSize
<1>2. \A x, m : V4!KeepTop(x, m) = S4!KeepTop(x, m) /\ V4!AndMask(x, m) = S4!AndMask(x, m)
  BY <1>1 DEF V4!KeepTop, S4!KeepTop, V4!AndMask, S4!AndMask
<1>3. V4!MaskApply(a, n) = S4!MaskApply(a, n)
  BY <1>1, <1>2 DEF V4!MaskApply, S4!MaskApply
<1>4. \A m : V4!MaskCompute(m) = S4!MaskCompute(m)
  BY <1>1, <1>2 DEF V4!MaskCompute, S4!MaskCompute
<1>5. \A x, m : V4!FillHost(x, m) = S4!FillHost(x, m)
  BY <1>1, <1>2, <1>4 DEF V4!FillHost, S4!FillHost
<1>6. \A r, x : V4!Contains(r, x) <=> S4!Contains(r, x)
  BY <1>1, <1>2, <1>4 DEF V4!Contains, S4!Contains
<1>7. V4!Overlaps(p, q) <=> S4!Overlaps(p, q)
  BY <1>6 DEF V4!Overlaps, S4!Overlaps
<1>8. \A x, y : V4!AddrLess(x, y) <=> S4!AddrLess(x, y)
  BY <1>1 DEF V4!AddrLess, S4!AddrLess
<1>9. \A x, y : V4!AddrCmp(x, y) = S4!AddrCmp(x, y)
  BY <1>8 DEF V4!AddrCmp, S4!AddrCmp
<1>10. V4!PrefixCmp(p, q) = S4!PrefixCmp(p, q)
  BY <1>9 DEF V4!PrefixCmp, S4!PrefixCmp
<1>11. V4!Last(p) = S4!Last(p)
  BY <1>5 DEF V4!Last, S4!Last
<1> QED BY <1>2, <1>3, <1>4, <1>5, <1>6, <1>7, <1>8, <1>9, <1>10, <1>11

LEMMA Same6 ==
  ASSUME NEW a, NEW b, NEW n, NEW p, NEW q
  PROVE  /\ V6!MaskApply(a, n) = S6!MaskApply(a, n)
         /\ V6!FillHost(a, n) = S6!FillHost(a, n)
         /\ V6!Last(p) = S6!Last(p)
         /\ V6!MaskCompute(n) = S6!MaskCompute(n)
         /\ V6!Contains(p, a) <=> S6!Contains(p, a)
         /\ V6!Overlaps(p, q) <=> S6!Overlaps(p, q)
         /\ V6!AddrLess(a, b) <=> S6!AddrLess(a, b)
         /\ V6!AddrCmp(a, b) = S6!AddrCmp(a, b)
         /\ V6!PrefixCmp(p, q) = S6!PrefixCmp(p, q)
         /\ V6!KeepTop(a, n) = S6!KeepTop(a, n)
<1>1. V6!BytePos = S6!BytePos /\ V6!ByteSize = S6!ByteSize
  BY DEF V6!BytePos, S6!BytePos, V6!ByteSize, S6!ByteSize
<1>2. \A x, m : V6!KeepTop(x, m) = S6!KeepTop(x, m) /\ V6!AndMask(x, m) = S6!AndMask(x, m)
  BY <1>1 DEF V6!KeepTop, S6!KeepTop, V6!AndMask, S6!AndMask
<1>3. V6!MaskApply(a, n) = S6!MaskApply(a, n)
  BY <1>1, <1>2 DEF V6!MaskApply, S6!MaskApply
<1>4. \A m : V6!MaskCompute(m) = S6!MaskCompute(m)
  BY <1>1, <1>2 DEF V6!MaskCompute, S6!MaskCompute
<1>5. \A x, m : V6!FillHost(x, m) = S6!FillHost(x, m)
  BY <1>1, <1>2, <1>4 DEF V6!FillHost, S6!FillHost
<1>6. \A r, x : V6!Contains(r, x) <=> S6!Contains(r, x)
  BY <1>1, <1>2, <1>4 DEF V6!Contains, S6!Contains
<1>7. V6!Overlaps(p, q) <=> S6!Overlaps(p, q)
  BY <1>6 DEF V6!Overlaps, S6!Overlaps
<1>8. \A x, y : V6!AddrLess(x, y) <=> S6!AddrLess(x, y)
  BY <1>1 DEF V6!AddrLess, S6!AddrLess
<1>9. \A x, y : V6!AddrCmp(x, y) = S6!AddrCmp(x, y)
  BY <1>8 DEF V6!AddrCmp, S6!AddrCmp
<1>10. V6!PrefixCmp(p, q) = S6!PrefixCmp(p, q)
  BY <1>9 DEF V6!PrefixCmp, S6!PrefixCmp
<1>11. V6!Last(p) = S6!Last(p)
  BY <1>5 DEF V6!Last, S6!Last
<1> QED BY <1>2, <1>3, <1>4, <1>5, <1>6, <1>7, <1>8, <1>9, <1>10, <1>11

----------------------------------------------------------------------------
(* Networks of both families.                                              *)

\* A cidr_prefix_t whose address has no host bits.
IsNet(p) == /\ p = [addr |-> p.addr, pfxlen |-> p.pfxlen]
            /\ IsAddress(p.addr)
            /\ p.pfxlen \in 0 .. MaxLen(p.addr.family)
            /\ MaskedTo(p.addr, p.pfxlen) = p.addr

LEMMA NetIsNetwork ==
  ASSUME NEW p, IsNet(p)
  PROVE  IsNetwork(p)
<1>1. p.addr.bytes \in [BytesOf(p.addr.family) -> 0 .. 255] /\ p.addr.family \in {"INET", "INET6"}
  BY DEF IsNet, IsAddress
<1>2. DOMAIN p.addr.bytes = BytesOf(p.addr.family)
  BY <1>1
<1> QED BY <1>1, <1>2 DEF IsNetwork, IsNet

\* prefix_mask_apply leaves an address, and nothing to clear a second time.
LEMMA MaskedIs ==
  ASSUME NEW a, IsAddress(a), NEW n \in 0 .. MaxLen(a.family)
  PROVE  IsNet([addr |-> MaskedTo(a, n), pfxlen |-> n])
<1>1. a = [family |-> a.family, bytes |-> a.bytes] /\ a.family \in {"INET", "INET6"}
  BY DEF IsAddress
<1>2. CASE a.family = "INET"
  <2>1. a.bytes \in S4!Address /\ n \in S4!Pfxlen
    BY <1>2, Shape4 DEF IsAddress, BytesOf, MaxLen
  <2>2. PICK b : b = V4!MaskApply(a.bytes, n)
    OBVIOUS
  <2>3. b \in S4!Address /\ S4!MaskApply(b, n) = b
    <3>1. b = S4!MaskApply(a.bytes, n)
      BY ONLY <2>2, Same4
    <3>2. /\ S4!MaskApply(a.bytes, n) \in S4!Address
          /\ S4!MaskApply(S4!MaskApply(a.bytes, n), n) = S4!MaskApply(a.bytes, n)
      BY ONLY <2>1, Widths, S4!MaskedAddress
    <3> QED BY ONLY <3>1, <3>2
  <2>4. V4!MaskApply(b, n) = b
    BY <2>3, Same4
  <2>5. MaskedTo(a, n) = [family |-> "INET", bytes |-> b]
    BY <1>1, <1>2, <2>2 DEF MaskedTo
  <2>6. MaskedTo([family |-> "INET", bytes |-> b], n) = [family |-> "INET", bytes |-> b]
    BY <2>4 DEF MaskedTo
  <2>7. IsAddress([family |-> "INET", bytes |-> b])
    BY <2>3, Shape4 DEF IsAddress, BytesOf
  <2>8. n \in 0 .. MaxLen("INET")
    BY <1>2
  <2> QED BY <2>5, <2>6, <2>7, <2>8 DEF IsNet
<1>3. CASE a.family = "INET6"
  <2>1. a.bytes \in S6!Address /\ n \in S6!Pfxlen
    BY <1>3, Shape6 DEF IsAddress, BytesOf, MaxLen
  <2>2. PICK b : b = V6!MaskApply(a.bytes, n)
    OBVIOUS
  <2>3. b \in S6!Address /\ S6!MaskApply(b, n) = b
    <3>1. b = S6!MaskApply(a.bytes, n)
      BY ONLY <2>2, Same6
    <3>2. /\ S6!MaskApply(a.bytes, n) \in S6!Address
          /\ S6!MaskApply(S6!MaskApply(a.bytes, n), n) = S6!MaskApply(a.bytes, n)
      BY ONLY <2>1, Widths, S6!MaskedAddress
    <3> QED BY ONLY <3>1, <3>2
  <2>4. V6!MaskApply(b, n) = b
    BY <2>3, Same6
  <2>5. MaskedTo(a, n) = [family |-> "INET6", bytes |-> b]
    BY <1>1, <1>3, <2>2 DEF MaskedTo
  <2>6. MaskedTo([family |-> "INET6", bytes |-> b], n) = [family |-> "INET6", bytes |-> b]
    BY <2>4 DEF MaskedTo
  <2>7. IsAddress([family |-> "INET6", bytes |-> b])
    BY <2>3, Shape6 DEF IsAddress, BytesOf
  <2>8. n \in 0 .. MaxLen("INET6")
    BY <1>3
  <2> QED BY <2>5, <2>6, <2>7, <2>8 DEF IsNet
<1> QED BY <1>1, <1>2, <1>3

\* cidr_prefix_from_host returns a network or leaves the struct as it was.
LEMMA FromHostIs ==
  ASSUME NEW a, IsAddress(a), NEW n \in Int, NEW out
  PROVE  /\ n \in 0 .. MaxLen(a.family) =>
              /\ FromHost(a, n, out).rc = "OK"
              /\ FromHost(a, n, out).out = [addr |-> MaskedTo(a, n), pfxlen |-> n]
              /\ IsNet(FromHost(a, n, out).out)
         /\ n > MaxLen(a.family) => FromHost(a, n, out) = [rc |-> "PFXLEN", out |-> out]
<1>1. a.family # "UNSPEC" /\ MaxLen(a.family) \in Nat
  BY DEF IsAddress, MaxLen
<1>2. ASSUME n \in 0 .. MaxLen(a.family)
      PROVE  /\ FromHost(a, n, out).rc = "OK"
             /\ FromHost(a, n, out).out = [addr |-> MaskedTo(a, n), pfxlen |-> n]
             /\ IsNet(FromHost(a, n, out).out)
  <2>1. FromHost(a, n, out) = [rc |-> "OK", out |-> [addr |-> MaskedTo(a, n), pfxlen |-> n]]
    BY <1>1, <1>2 DEF FromHost
  <2> QED BY <1>2, <2>1, MaskedIs
<1>3. ASSUME n > MaxLen(a.family) PROVE FromHost(a, n, out) = [rc |-> "PFXLEN", out |-> out]
  BY <1>1, <1>3 DEF FromHost
<1> QED BY <1>2, <1>3

----------------------------------------------------------------------------
(* The prefix parser.                                                      *)

LEMMA CellOfAddress ==
  ASSUME NEW a, IsAddress(a)
  PROVE  IsCell(a) /\ a.family # "UNSPEC"
BY DEF IsCell, IsAddress

LEMMA NoAddrIsCell == IsCell(NoAddr)
BY DEF IsCell, NoAddr

LEMMA TakenIsNotEmpty ==
  ASSUME NEW t \in Seq(Token), Taken(t)
  PROVE  Len(t) > 0
<1>1. Len(t) \in Nat /\ LastPos(t, ":") \in 0 .. Len(t)
  BY TextIs, LastPosIs
<1>2. CASE IsDottedQuad(t)
  BY <1>2 DEF IsDottedQuad
<1>3. CASE IsIPv6Text(t)
  BY <1>1, <1>3 DEF IsIPv6Text
<1>4. CASE IsTrailingColonText(t)
  BY <1>1, <1>4 DEF IsTrailingColonText
<1> QED BY <1>2, <1>3, <1>4 DEF Taken, IsAddressText

LEMMA ParsePfxlenIs ==
  ASSUME NEW t \in Seq(Token)
  PROVE  ParsePfxlen(t) \in 0 .. 128 \cup {-1}
<1>1. ASSUME Len(t) = 1 PROVE DecValue(t[1]) \in Nat
  <2>1. t[1] \in Token
    BY <1>1, TextIs
  <2> QED BY <2>1, DecValueIsNat
<1>2. -1 \in 0 .. 128 \cup {-1}
  OBVIOUS
<1>3. CASE Len(t) = 1 /\ IsDecimal(t[1]) /\ DecValue(t[1]) <= 128
  <2>1. ParsePfxlen(t) = DecValue(t[1])
    BY <1>3 DEF ParsePfxlen
  <2>2. PICK v : v = DecValue(t[1])
    OBVIOUS
  <2>3. v \in 0 .. 128
    <3>1. v \in Nat
      BY <1>1, <1>3, <2>2
    <3>2. v <= 128
      BY <1>3, <2>2
    <3> QED BY ONLY <3>1, <3>2
  <2> QED BY <2>1, <2>2, <2>3
<1>4. CASE ~(Len(t) = 1 /\ IsDecimal(t[1]) /\ DecValue(t[1]) <= 128)
  BY <1>2, <1>4 DEF ParsePfxlen
<1> QED BY <1>3, <1>4

\* What a parser of networks returns for t into a struct.
ParsesNet(t, slash, host, r, out) ==
  /\ r.rc \in {"OK", "PARSE", "PFXLEN", "HOSTBITS"}
  /\ r.rc # "PARSE" <=> slash > 0 /\ Taken(host)
  /\ r.rc # "OK" => r.out = out
  /\ r.rc = "OK" => r.out.addr = Meaning(host) /\ IsNet(r.out)

LEMMA PrefixParseIs ==
  ASSUME NEW t, NEW out, NEW slash, slash = LastPos(t, "/"), NEW host, host = Before(t, slash),
         NEW a, a = AddrParse(host, NoAddr), NEW n, n = ParsePfxlen(After(t, slash)),
         NEW net, net = [addr |-> MaskedTo(a.out, n), pfxlen |-> n]
  PROVE  PrefixParse(t, out) =
           IF slash <= 1 \/ Width(host) >= CIDR_ADDR_STR_MAX THEN [rc |-> "PARSE", out |-> out]
           ELSE IF a.rc # "OK" THEN [rc |-> a.rc, out |-> out]
           ELSE IF n = -1 \/ n > MaxLen(a.out.family) THEN [rc |-> "PFXLEN", out |-> out]
           ELSE IF net.addr # a.out THEN [rc |-> "HOSTBITS", out |-> out]
           ELSE [rc |-> "OK", out |-> net]
BY DEF PrefixParse

LEMMA PrefixParserIsGrammar ==
  ASSUME NEW t \in Seq(Token), NEW out
  PROVE  ParsesNet(t, LastPos(t, "/"), Before(t, LastPos(t, "/")), PrefixParse(t, out), out)
<1>1. PICK slash, host : slash = LastPos(t, "/") /\ host = Before(t, slash)
  OBVIOUS
<1>2. PICK a, n : a = AddrParse(host, NoAddr) /\ n = ParsePfxlen(After(t, slash))
  OBVIOUS
<1>3. PICK net : net = [addr |-> MaskedTo(a.out, n), pfxlen |-> n]
  OBVIOUS
<1>4. PICK r : r = PrefixParse(t, out)
  OBVIOUS
<1>5. r = IF slash <= 1 \/ Width(host) >= 46 THEN [rc |-> "PARSE", out |-> out]
          ELSE IF a.rc # "OK" THEN [rc |-> a.rc, out |-> out]
          ELSE IF n = -1 \/ n > MaxLen(a.out.family) THEN [rc |-> "PFXLEN", out |-> out]
          ELSE IF net.addr # a.out THEN [rc |-> "HOSTBITS", out |-> out]
          ELSE [rc |-> "OK", out |-> net]
  BY <1>1, <1>2, <1>3, <1>4, PrefixParseIs DEF CIDR_ADDR_STR_MAX
<1>6. /\ slash \in 0 .. Len(t) /\ Len(t) \in Nat
      /\ host \in Seq(Token) /\ After(t, slash) \in Seq(Token)
  <2>1. slash \in 0 .. Len(t) /\ Len(t) \in Nat
    BY <1>1, TextIs, LastPosIs
  <2> QED BY <1>1, <2>1, BeforeIsText
<1>7. Parses(host, a)
  BY <1>2, <1>6, NoAddrIsCell, ParserIsGrammar
<1>8. n \in 0 .. 128 \cup {-1}
  BY <1>2, <1>6, ParsePfxlenIs
<1>9. Width(host) \in Nat /\ (Taken(host) => Width(host) < 46)
  <2>1. PICK f : IsWidths(host, f)
    BY <1>6, WidthIs
  <2>2. Len(host) \in 0 .. Len(host)
    BY <1>6, TextIs
  <2>3. Width(host) \in Nat
    BY <2>1, <2>2 DEF IsWidths
  <2> QED BY <1>6, <2>3, TakenFits
<1>10. ParsesNet(t, slash, host, r, out)
  <2>1. CASE slash <= 1 \/ Width(host) >= 46
    <3>1. r = [rc |-> "PARSE", out |-> out]
      BY <1>5, <2>1
    <3>2. ~(slash > 0 /\ Taken(host))
      <4> SUFFICES ASSUME slash > 0, Taken(host) PROVE FALSE
        OBVIOUS
      <4>1. Width(host) < 46 /\ Width(host) \in Nat
        BY <1>9
      <4>2. slash = 1
        <5>1. slash <= 1
          BY <2>1, <4>1
        <5> QED BY <1>6, <5>1
      <4>3. Len(host) = 0
        <5>1. slash \in 1 .. Len(t)
          BY <1>6, <4>2
        <5>2. Len(Before(t, slash)) = slash - 1
          BY <5>1, PartsAre
        <5> QED BY <1>1, <4>2, <5>2
      <4>4. Len(host) > 0
        BY <1>6, TakenIsNotEmpty
      <4> QED BY <4>3, <4>4
    <3> QED BY <3>1, <3>2 DEF ParsesNet
  <2>2. CASE ~(slash <= 1 \/ Width(host) >= 46) /\ a.rc # "OK"
    <3>1. r = [rc |-> a.rc, out |-> out]
      BY <1>5, <2>2
    <3>2. a.rc = "PARSE" /\ ~Taken(host)
      BY <1>7, <2>2 DEF Parses
    <3> QED BY <3>1, <3>2 DEF ParsesNet
  <2>3. CASE ~(slash <= 1 \/ Width(host) >= 46) /\ a.rc = "OK"
    <3>1. Taken(host) /\ a.out = Meaning(host) /\ IsAddress(a.out)
      BY <1>7, <2>3 DEF Parses
    <3>2. slash > 0
      BY <1>6, <2>3
    <3>3. CASE n = -1 \/ n > MaxLen(a.out.family)
      <4>1. r = [rc |-> "PFXLEN", out |-> out]
        BY <1>5, <2>3, <3>3
      <4> QED BY <3>1, <3>2, <4>1 DEF ParsesNet
    <3>4. CASE ~(n = -1 \/ n > MaxLen(a.out.family)) /\ net.addr # a.out
      <4>1. r = [rc |-> "HOSTBITS", out |-> out]
        BY <1>5, <2>3, <3>4
      <4> QED BY <3>1, <3>2, <4>1 DEF ParsesNet
    <3>5. CASE ~(n = -1 \/ n > MaxLen(a.out.family)) /\ net.addr = a.out
      <4>1. r = [rc |-> "OK", out |-> net]
        BY <1>5, <2>3, <3>5
      <4>2. n \in 0 .. MaxLen(a.out.family)
        <5>1. MaxLen(a.out.family) \in Nat
          BY DEF MaxLen
        <5> QED BY <1>8, <3>5, <5>1
      <4>3. IsNet(net)
        BY <1>3, <3>1, <4>2, MaskedIs
      <4> QED BY <3>1, <3>2, <3>5, <4>1, <4>3 DEF ParsesNet
    <3> QED BY <3>3, <3>4, <3>5
  <2> QED BY <2>1, <2>2, <2>3
<1> QED BY <1>1, <1>4, <1>10
=============================================================================
