---------------------------- MODULE ProgramProofs ----------------------------
(***************************************************************************)
(* Programs that use the library, in C and in Python.                      *)
(*                                                                         *)
(* The formatters write the canonical text, which is parsed to the value   *)
(* they wrote; batches are parsed item by item.  The properties of the     *)
(* programs of TextCalls and PyValues follow from one inductive invariant, *)
(* Holds: their texts are texts, and they hold addresses, networks and     *)
(* objects of them, as the last call that succeeded wrote them.            *)
(*                                                                         *)
(* The bulk functions of the extension keep nothing and report what fails, *)
(* for lists of any length.  The invariant says at each point what a call  *)
(* may own: a way out is right when it releases at least that.             *)
(*                                                                         *)
(* A PrefixIndex frees its index once and no lookup reads it afterwards,   *)
(* for any number of callers.  Ownership is inductive together with the    *)
(* types: whoever clears the pointer frees the index in the same step.     *)
(***************************************************************************)
EXTENDS ParserProofs, PyValues, PyExtension

----------------------------------------------------------------------------
(* The tokens the formatters write.                                        *)

\* The last digits of a run x of up to four.
RunIs(x, v, w) ==
  /\ x.c = "hex" /\ x.v = v /\ x.w = w
  /\ Nibble(x, 0) = v % 16
  /\ w >= 2 => Nibble(x, 1) = (v \div 16) % 16
  /\ w >= 3 => Nibble(x, 2) = ((v \div 16) \div 16) % 16
  /\ w >= 4 => Nibble(x, 3) = (((v \div 16) \div 16) \div 16) % 16
  /\ w = 1 /\ v \div 16 = 0 => x \in Token
  /\ w = 2 /\ (v \div 16) \div 16 = 0 => x \in Token
  /\ w = 3 /\ ((v \div 16) \div 16) \div 16 = 0 => x \in Token
  /\ w = 4 /\ (((v \div 16) \div 16) \div 16) \div 16 = 0 => x \in Token

LEMMA DigitsOf ==
  ASSUME NEW v \in Nat, NEW w \in 1 .. 4
  PROVE  RunIs(Hex(v, w), v, w)
<1> PICK x : x = Hex(v, w)
  OBVIOUS
<1>1. x.c = "hex" /\ x.v = v /\ x.w = w
  BY DEF Hex
<1>2. PICK q : q = Quotients(x)
  OBVIOUS
<1>3. q[0] = v /\ \A k \in 1 .. w : q[k] = q[k - 1] \div 16
  BY <1>1, <1>2, QuotientsAre
<1>4. q[1] = v \div 16
  BY <1>3
<1>5. w >= 2 => q[2] = (v \div 16) \div 16
  BY <1>3, <1>4
<1>6. w >= 3 => q[3] = ((v \div 16) \div 16) \div 16
  <2> HAVE w >= 3
  <2>1. 3 \in 1 .. w /\ 3 - 1 = 2
    OBVIOUS
  <2> QED BY <1>3, <1>5, <2>1
<1>7. w >= 4 => q[4] = (((v \div 16) \div 16) \div 16) \div 16
  <2> HAVE w >= 4
  <2>1. 4 \in 1 .. w /\ 4 - 1 = 3
    OBVIOUS
  <2> QED BY <1>3, <1>6, <2>1
<1>8. q[w] = 0 => x \in Token
  <2> HAVE q[w] = 0
  <2>1. x = [c |-> "hex", v |-> v, w |-> w] /\ "hex" \in Kinds
    BY DEF Hex, Kinds
  <2>2. x \in [c : Kinds, v : Nat, w : Nat \ {0}]
    BY <2>1
  <2>3. Quotients(x)[x.w] = 0
    BY <1>1, <1>2
  <2> QED BY <1>1, <2>2, <2>3, Zenon DEF Token
<1>9. w \in {1, 2, 3, 4}
  OBVIOUS
<1>10. \A k : Nibble(x, k) = q[k] % 16
  BY <1>2 DEF Nibble
<1>11. RunIs(x, v, w)
  BY <1>1, <1>3, <1>4, <1>5, <1>6, <1>7, <1>8, <1>9, <1>10 DEF RunIs
<1> QED BY <1>11

\* An octet's decimal text.
LEMMA DecIs ==
  ASSUME NEW n \in 0 .. 255
  PROVE  /\ Dec(n) \in Token /\ IsDecimal(Dec(n)) /\ ~LeadingZero(Dec(n))
         /\ DecValue(Dec(n)) = n /\ Dec(n).w \in 1 .. 3
<1>1. PICK h, t, u : h = n \div 100 /\ t = (n \div 10) % 10 /\ u = n % 10
  OBVIOUS
<1>2. h \in 0 .. 2 /\ t \in 0 .. 9 /\ u \in 0 .. 9
  BY <1>1
<1>3. n = 100 * h + 10 * t + u
  BY <1>1
<1>4. PICK v : v = h * 256 + t * 16 + u
  OBVIOUS
<1>5. v \in Nat /\ v % 16 = u /\ v \div 16 = h * 16 + t
  BY ONLY <1>2, <1>4
<1>6. (v \div 16) % 16 = t /\ (v \div 16) \div 16 = h
  BY ONLY <1>2, <1>5
<1>7. h % 16 = h /\ h \div 16 = 0
  BY ONLY <1>2
<1>8. PICK w : w = IF n >= 100 THEN 3 ELSE IF n >= 10 THEN 2 ELSE 1
  OBVIOUS
<1>9. PICK x : x = Hex(v, w)
  OBVIOUS
<1>10. w \in 1 .. 4 /\ Dec(n) = x
  BY <1>1, <1>4, <1>8, <1>9 DEF Dec
<1>11. /\ x.c = "hex" /\ x.w = w /\ Nibble(x, 0) = u
       /\ w >= 2 => Nibble(x, 1) = t
       /\ w >= 3 => Nibble(x, 2) = h
       /\ w = 1 /\ v \div 16 = 0 => x \in Token
       /\ w = 2 /\ h = 0 => x \in Token
       /\ w = 3 => x \in Token
  <2>1. RunIs(x, v, w)
    BY <1>5, <1>9, <1>10, DigitsOf
  <2> QED BY <1>5, <1>6, <1>7, <2>1 DEF RunIs
<1>12. CASE n < 10
  <2>1. w = 1 /\ h = 0 /\ t = 0 /\ u = n
    BY ONLY <1>1, <1>8, <1>12
  <2>2. x \in Token
    BY <1>5, <1>11, <2>1
  <2>3. IsDecimal(x)
    <3>1. \A k \in 0 .. w - 1 : k = 0
      BY <2>1
    <3>2. u <= 9
      BY <1>2
    <3> QED BY <1>11, <3>1, <3>2 DEF IsDecimal
  <2>4. ~LeadingZero(x)
    BY <1>11, <2>1 DEF LeadingZero
  <2>5. PICK f : /\ f[0] = 0
                 /\ \A k \in 1 .. x.w : f[k] = f[k - 1] * 10 + Nibble(x, x.w - k)
                 /\ DecValue(x) = f[x.w]
    BY <2>2, DecValueIs
  <2>6. f[1] = n
    <3>1. f[1] = f[0] * 10 + Nibble(x, 0)
      BY <1>11, <2>1, <2>5
    <3> QED BY <1>11, <2>1, <2>5, <3>1
  <2> QED BY <1>10, <1>11, <2>1, <2>2, <2>3, <2>4, <2>5, <2>6
<1>13. CASE n >= 10 /\ n < 100
  <2>1. w = 2 /\ h = 0 /\ t # 0
    BY ONLY <1>1, <1>8, <1>13
  <2>2. x \in Token
    BY <1>11, <2>1
  <2>3. IsDecimal(x)
    <3>1. \A k \in 0 .. w - 1 : k = 0 \/ k = 1
      BY <2>1
    <3>2. u <= 9 /\ t <= 9 /\ Nibble(x, 1) = t
      BY <1>2, <1>11, <2>1
    <3> QED BY <1>11, <3>1, <3>2 DEF IsDecimal
  <2>4. ~LeadingZero(x)
    <3>1. Nibble(x, x.w - 1) = t
      BY <1>11, <2>1
    <3> QED BY <2>1, <3>1 DEF LeadingZero
  <2>5. PICK f : /\ f[0] = 0
                 /\ \A k \in 1 .. x.w : f[k] = f[k - 1] * 10 + Nibble(x, x.w - k)
                 /\ DecValue(x) = f[x.w]
    BY <2>2, DecValueIs
  <2>6. f[2] = n
    <3>1. f[1] = f[0] * 10 + Nibble(x, 1)
      BY <1>11, <2>1, <2>5
    <3>2. f[1] = t
      BY <1>2, <1>11, <2>1, <2>5, <3>1
    <3>3. f[2] = f[1] * 10 + Nibble(x, 0)
      BY <1>11, <2>1, <2>5
    <3> QED BY <1>2, <1>3, <1>11, <2>1, <3>2, <3>3
  <2> QED BY <1>10, <1>11, <2>1, <2>2, <2>3, <2>4, <2>5, <2>6
<1>14. CASE n >= 100
  <2>1. w = 3 /\ h # 0
    BY ONLY <1>1, <1>8, <1>14, n \in 0 .. 255
  <2>2. x \in Token
    BY <1>11, <2>1
  <2>3. IsDecimal(x)
    <3>1. \A k \in 0 .. w - 1 : k = 0 \/ k = 1 \/ k = 2
      BY <2>1
    <3>2. u <= 9 /\ t <= 9 /\ h <= 9 /\ Nibble(x, 1) = t /\ Nibble(x, 2) = h
      BY <1>2, <1>11, <2>1
    <3> QED BY <1>11, <3>1, <3>2 DEF IsDecimal
  <2>4. ~LeadingZero(x)
    <3>1. Nibble(x, x.w - 1) = h
      BY <1>11, <2>1
    <3> QED BY <2>1, <3>1 DEF LeadingZero
  <2>5. PICK f : /\ f[0] = 0
                 /\ \A k \in 1 .. x.w : f[k] = f[k - 1] * 10 + Nibble(x, x.w - k)
                 /\ DecValue(x) = f[x.w]
    BY <2>2, DecValueIs
  <2>6. f[3] = n
    <3>1. f[1] = f[0] * 10 + Nibble(x, 2)
      BY <1>11, <2>1, <2>5
    <3>2. f[1] = h
      BY <1>2, <1>11, <2>1, <2>5, <3>1
    <3>3. f[2] = f[1] * 10 + Nibble(x, 1)
      BY <1>11, <2>1, <2>5
    <3>4. f[3] = f[2] * 10 + Nibble(x, 0)
      BY <1>11, <2>1, <2>5
    <3>5. f[2] = h * 10 + t
      BY <1>11, <2>1, <3>2, <3>3
    <3>6. f[3] = (h * 10 + t) * 10 + u
      BY <1>11, <3>4, <3>5
    <3> QED BY <1>2, <1>3, <3>6
  <2> QED BY <1>10, <1>11, <2>1, <2>2, <2>3, <2>4, <2>5, <2>6
<1> QED BY <1>12, <1>13, <1>14

\* A group's hexadecimal text.
LEMMA Hex16Is ==
  ASSUME NEW v \in Word
  PROVE  /\ Hex16(v) \in Token /\ Hex(v, 4) \in Token
         /\ IsGroup(Hex16(v)) /\ IsGroup(Hex(v, 4))
         /\ Hex16(v).v = v /\ Hex(v, 4).v = v
         /\ ~LeadingZero(Hex16(v))
<1>1. v \in Nat /\ v \div 256 \in 0 .. 255
  BY DEF Word
<1>2. PICK b, c, d : b = v \div 16 /\ c = b \div 16 /\ d = c \div 16
  OBVIOUS
<1>3. b \in Nat /\ c \in Nat /\ d \in Nat
  BY ONLY <1>1, <1>2
<1>4. c = v \div 256
  BY ONLY <1>1, <1>2
<1>5. d \div 16 = 0
  <2>1. c \in 0 .. 255
    BY <1>1, <1>4
  <2>2. d \in 0 .. 15
    BY ONLY <1>2, <2>1
  <2> QED BY ONLY <2>2
<1>6. PICK x : x = Hex(v, 4)
  OBVIOUS
<1>7. x \in Token /\ IsGroup(x) /\ x.v = v
  <2>1. x.c = "hex" /\ x.v = v /\ x.w = 4 /\ x \in Token
    <3>1. 4 \in 1 .. 4
      OBVIOUS
    <3>2. RunIs(x, v, 4)
      BY <1>1, <1>6, <3>1, DigitsOf
    <3> QED BY <1>2, <1>5, <3>2 DEF RunIs
  <2> QED BY <2>1 DEF IsGroup
<1>8. PICK w : w = IF v < 16 THEN 1 ELSE IF v < 256 THEN 2 ELSE IF v < 4096 THEN 3 ELSE 4
  OBVIOUS
<1>9. PICK y : y = Hex(v, w)
  OBVIOUS
<1>10. Hex16(v) = y
  BY <1>8, <1>9 DEF Hex16
<1>11. w \in 1 .. 4
  BY <1>8
<1>12. /\ y.c = "hex" /\ y.v = v /\ y.w = w
       /\ w >= 2 => Nibble(y, 1) = b % 16
       /\ w >= 3 => Nibble(y, 2) = c % 16
       /\ w >= 4 => Nibble(y, 3) = d % 16
       /\ w = 1 /\ b = 0 => y \in Token
       /\ w = 2 /\ c = 0 => y \in Token
       /\ w = 3 /\ d = 0 => y \in Token
       /\ w = 4 => y \in Token
  <2>1. RunIs(y, v, w)
    BY <1>1, <1>9, <1>11, DigitsOf
  <2> QED BY <1>2, <1>5, <2>1 DEF RunIs
<1>13. IsGroup(y)
  BY <1>11, <1>12 DEF IsGroup
<1>14. y \in Token /\ (w > 1 => Nibble(y, w - 1) # 0)
  <2>1. CASE v < 16
    <3>1. w = 1 /\ b = 0
      BY ONLY <1>1, <1>2, <1>8, <2>1
    <3> QED BY <1>12, <3>1
  <2>2. CASE v >= 16 /\ v < 256
    <3>1. w = 2 /\ b \in 1 .. 15
      BY ONLY <1>1, <1>2, <1>8, <2>2
    <3>2. c = 0 /\ b % 16 # 0
      BY ONLY <1>2, <3>1
    <3> QED BY <1>12, <3>1, <3>2
  <2>3. CASE v >= 256 /\ v < 4096
    <3>1. w = 3
      BY ONLY <1>1, <1>8, <2>3
    <3>2. c \in 1 .. 15
      BY ONLY <1>1, <1>4, <2>3
    <3>3. d = 0 /\ c % 16 # 0
      BY ONLY <1>2, <3>2
    <3> QED BY <1>12, <3>1, <3>3
  <2>4. CASE v >= 4096
    <3>1. w = 4
      BY ONLY <1>1, <1>8, <2>4
    <3>2. c \in 16 .. 255
      BY ONLY <1>1, <1>4, <2>4
    <3>3. d % 16 # 0
      <4>1. d \in 1 .. 15
        BY ONLY <1>2, <3>2
      <4> QED BY ONLY <4>1
    <3> QED BY <1>12, <3>1, <3>3
  <2> QED BY <1>1, <2>1, <2>2, <2>3, <2>4
<1>15. ~LeadingZero(y)
  BY <1>12, <1>14 DEF LeadingZero
<1> QED BY <1>6, <1>7, <1>10, <1>12, <1>13, <1>14, <1>15

----------------------------------------------------------------------------
(* The texts the formatters write.                                         *)

LEMMA SameText ==
  ASSUME NEW x \in Seq(Token), NEW y \in Seq(Token), Len(x) = Len(y),
         \A i \in 1 .. Len(x) : x[i] = y[i]
  PROVE  x = y
<1>1. x = [i \in 1 .. Len(x) |-> x[i]] /\ y = [i \in 1 .. Len(y) |-> y[i]]
  OBVIOUS
<1> QED BY <1>1

IsJoined(t, x, c, y) ==
  /\ t \in Seq(Token) /\ Len(t) = Len(x) + 2 + Len(y)
  /\ \A i \in 1 .. Len(x) : t[i] = x[i]
  /\ t[Len(x) + 1] = c /\ t[Len(x) + 2] = c
  /\ \A i \in 1 .. Len(y) : t[Len(x) + 2 + i] = y[i]

LEMMA Joined ==
  ASSUME NEW x \in Seq(Token), NEW y \in Seq(Token), NEW c \in Token
  PROVE  IsJoined(x \o <<c, c>> \o y, x, c, y)
<1>0. PICK t : t = x \o <<c, c>> \o y
  OBVIOUS
<1>1. PICK m, s : m = x \o s /\ s = <<c, c>>
  OBVIOUS
<1>2. s \in Seq(Token) /\ Len(s) = 2 /\ s[1] = c /\ s[2] = c
  BY <1>1
<1>3. m \in Seq(Token) /\ Len(m) = Len(x) + 2 /\ Len(x) \in Nat /\ Len(y) \in Nat
  BY <1>1, <1>2
<1>4. (\A i \in 1 .. Len(x) : m[i] = x[i]) /\ (\A i \in 1 .. 2 : m[Len(x) + i] = s[i])
  BY <1>1, <1>2
<1>5. t = m \o y /\ y \in Seq(Token)
  BY <1>0, <1>1
<1>6. t \in Seq(Token) /\ Len(t) = Len(m) + Len(y)
  <2>1. m \in Seq(Token) /\ y \in Seq(Token) /\ t = m \o y
    BY <1>3, <1>5
  <2> QED BY ONLY <2>1
<1>7. (\A i \in 1 .. Len(m) : t[i] = m[i]) /\ (\A i \in 1 .. Len(y) : t[Len(m) + i] = y[i])
  <2>1. m \in Seq(Token) /\ y \in Seq(Token) /\ t = m \o y
    BY <1>3, <1>5
  <2>2. \A i \in 1 .. Len(m) : t[i] = m[i]
    BY ONLY <2>1
  <2>3. \A i \in 1 .. Len(y) : t[Len(m) + i] = y[i]
    BY ONLY <2>1
  <2> QED BY <2>2, <2>3
<1>8. \A i \in 1 .. Len(x) : i \in 1 .. Len(m)
  BY <1>3
<1>9. Len(x) + 1 \in 1 .. Len(m) /\ Len(x) + 2 \in 1 .. Len(m) /\ 1 \in 1 .. 2 /\ 2 \in 1 .. 2
  BY <1>3
<1>10. t[Len(x) + 1] = c /\ t[Len(x) + 2] = c
  BY <1>2, <1>4, <1>7, <1>9
<1>11. \A i \in 1 .. Len(x) : t[i] = x[i]
  BY <1>4, <1>7, <1>8
<1>12. \A i \in 1 .. Len(y) : t[Len(x) + 2 + i] = y[i]
  BY <1>3, <1>7
<1>13. Len(t) = Len(x) + 2 + Len(y)
  BY <1>3, <1>6
<1> QED BY <1>0, <1>6, <1>10, <1>11, <1>12, <1>13 DEF IsJoined

\* A text with one :: between two lists of groups.
HasOneGap(t, g, x, y) ==
  /\ Gaps(t) = {g} /\ IsHexadecimal(t)
  /\ GroupsOf(t) =
       [i \in 0 .. 7 |-> IF i < Len(Items(x)) THEN Items(x)[i + 1].v
                         ELSE IF i >= 8 - Len(Items(y)) THEN Items(y)[i - 7 + Len(Items(y))].v
                         ELSE 0]

LEMMA GapText ==
  ASSUME NEW t \in Seq(Token), NEW g \in 1 .. Len(t) - 1, t[g].c = ":", t[g + 1].c = ":",
         NEW x, x = Before(t, g), NEW y, y = After(t, g + 1), IsGroups(x), IsGroups(y),
         Len(Items(x)) + Len(Items(y)) < 8
  PROVE  HasOneGap(t, g, x, y)
<1>1. Len(t) \in Nat /\ DOMAIN t = 1 .. Len(t) /\ g \in DOMAIN t /\ g + 1 \in DOMAIN t
  BY TextIs
<1>2. g \in Gaps(t)
  BY <1>1 DEF Gaps, IsChar
<1>3. IsLaid(t, g, FALSE, 8)
  BY <1>2, GapsAre
<1>4. \A h \in Gaps(t) : h = g
  BY <1>3, OneGap
<1>5. Gaps(t) = {g}
  BY <1>2, <1>4
<1>6. (CHOOSE p \in Gaps(t) : TRUE) = g
  BY <1>5
<1>7. Gaps(t) # {}
  BY <1>5
<1> QED BY <1>5, <1>6, <1>7 DEF IsHexadecimal, GroupsOf, HasOneGap

\* Eight groups without a ::.
LEMMA FullText ==
  ASSUME NEW t \in Seq(Token), IsGroups(t), Len(t) = 15
  PROVE  /\ Gaps(t) = {} /\ IsHexadecimal(t)
         /\ GroupsOf(t) = [i \in 0 .. 7 |-> Items(t)[i + 1].v]
<1>1. DOMAIN t = 1 .. 15
  BY TextIs
<1>2. \A p \in 1 .. 15 : IF p % 2 = 1 THEN IsGroup(t[p]) ELSE t[p].c = ":"
  BY <1>1 DEF IsGroups, IsListOf
<1>3. ASSUME NEW p \in Gaps(t) PROVE FALSE
  <2>1. p \in 1 .. 15 /\ p + 1 \in 1 .. 15 /\ t[p].c = ":" /\ t[p + 1].c = ":"
    <3>1. p \in 1 .. 15 - 1 /\ IsChar(t, p, ":") /\ IsChar(t, p + 1, ":")
      BY DEF Gaps
    <3> QED BY <3>1 DEF IsChar
  <2>2. p % 2 = 1 \/ (p + 1) % 2 = 1
    <3>1. p \in 1 .. 15
      BY <2>1
    <3> QED BY ONLY <3>1, SMTT(30)
  <2>3. \A q \in 1 .. 15 : q % 2 = 1 => t[q].c = "hex"
    BY <1>2 DEF IsGroup
  <2>4. t[p].c = "hex" \/ t[p + 1].c = "hex"
    BY <2>1, <2>2, <2>3
  <2> QED BY <2>1, <2>4
<1>4. Gaps(t) = {}
  BY <1>3
<1> QED BY <1>4 DEF IsHexadecimal, GroupsOf

LEMMA GroupIsWord ==
  ASSUME NEW b \in [V6Bytes -> 0 .. 255], NEW i \in 0 .. 7
  PROVE  /\ Group(b, i) \in Word
         /\ Group(b, i) \div 256 = b[2 * i] /\ Group(b, i) % 256 = b[2 * i + 1]
<1>1. PICK x, y, v : x = b[2 * i] /\ y = b[2 * i + 1] /\ v = Group(b, i)
  OBVIOUS
<1>2. x \in 0 .. 255 /\ y \in 0 .. 255
  <2>1. 2 * i \in V6Bytes /\ 2 * i + 1 \in V6Bytes
    BY DEF V6Bytes
  <2> QED BY <1>1, <2>1
<1>3. v = x * 256 + y
  BY <1>1 DEF Group
<1>4. v \in Nat /\ v \div 256 = x /\ v % 256 = y
  BY ONLY <1>2, <1>3
<1>5. v \in Word
  BY <1>2, <1>4 DEF Word
<1> QED BY <1>1, <1>4, <1>5

\* Groups that are an address's are its bytes.
LEMMA BytesAgain ==
  ASSUME NEW b \in [V6Bytes -> 0 .. 255], NEW gs, \A i \in 0 .. 7 : gs[i] = Group(b, i)
  PROVE  BytesOfGroups(gs) = b
<1>1. ASSUME NEW k \in V6Bytes
      PROVE  (IF k % 2 = 0 THEN gs[k \div 2] \div 256 ELSE gs[k \div 2] % 256) = b[k]
  <2>1. PICK i : i = k \div 2
    OBVIOUS
  <2>2. i \in 0 .. 7 /\ k = 2 * i + (k % 2) /\ (k % 2 = 0 \/ k % 2 = 1)
    BY <2>1 DEF V6Bytes
  <2>3. gs[i] \div 256 = b[2 * i] /\ gs[i] % 256 = b[2 * i + 1]
    BY <2>2, GroupIsWord
  <2>4. CASE k % 2 = 0
    <3>1. k = 2 * i
      BY <2>2, <2>4
    <3> QED BY <2>1, <2>3, <2>4, <3>1
  <2>5. CASE k % 2 = 1
    <3>1. k = 2 * i + 1
      BY <2>2, <2>5
    <3> QED BY <2>1, <2>3, <2>5, <3>1
  <2> QED BY <2>2, <2>4, <2>5
<1> QED BY <1>1 DEF BytesOfGroups

\* A token of the formatters.
IsWritten(x) == x \in Token /\ ~LeadingZero(x) /\ x.c \in {"hex", ":", ".", "/"}

LEMMA CharIsWritten ==
  ASSUME NEW c \in {":", ".", "/"}
  PROVE  IsWritten(Char(c)) /\ Char(c).c = c
<1>1. c \in Kinds
  BY DEF Kinds
<1>2. Char(c) \in Token /\ Char(c).c = c
  BY <1>1, CharIsToken
<1>3. ~LeadingZero(Char(c))
  BY DEF LeadingZero, Char
<1> QED BY <1>2, <1>3 DEF IsWritten

LEMMA DecIsWritten ==
  ASSUME NEW n \in 0 .. 255
  PROVE  IsWritten(Dec(n)) /\ IsOctet(Dec(n)) /\ DecValue(Dec(n)) = n
<1>1. Dec(n) \in Token /\ IsDecimal(Dec(n)) /\ ~LeadingZero(Dec(n)) /\ DecValue(Dec(n)) = n
  BY DecIs
<1>2. Dec(n).c = "hex"
  BY <1>1 DEF IsDecimal
<1> QED BY <1>1, <1>2 DEF IsWritten, IsOctet

LEMMA Hex16IsWritten ==
  ASSUME NEW v \in Word
  PROVE  IsWritten(Hex16(v)) /\ IsGroup(Hex16(v)) /\ Hex16(v).v = v
BY Hex16Is DEF IsWritten, IsGroup

\* Dotted decimal.
LEMMA DottedIs ==
  ASSUME NEW b, NEW k \in Nat, \A i \in k .. k + 3 : b[i] \in 0 .. 255
  PROVE  /\ Dotted(b, k) \in Seq(Token) /\ IsDottedQuad(Dotted(b, k))
         /\ \A p \in 1 .. 7 : IsWritten(Dotted(b, k)[p])
         /\ \A i \in 0 .. 3 : DecValue(Dotted(b, k)[2 * i + 1]) = b[k + i]
<1>1. PICK w, x, y, z, d : /\ w = b[k] /\ x = b[k + 1] /\ y = b[k + 2] /\ z = b[k + 3]
                           /\ d = Char(".")
  OBVIOUS
<1>2. w \in 0 .. 255 /\ x \in 0 .. 255 /\ y \in 0 .. 255 /\ z \in 0 .. 255
  BY <1>1
<1>3. PICK t : t = Dotted(b, k)
  OBVIOUS
<1>4. t = <<Dec(w), d, Dec(x), d, Dec(y), d, Dec(z)>>
  BY <1>1, <1>3 DEF Dotted
<1>5. Len(t) = 7 /\ DOMAIN t = 1 .. 7
  BY <1>4
<1>6. /\ t[1] = Dec(w) /\ t[3] = Dec(x) /\ t[5] = Dec(y) /\ t[7] = Dec(z)
      /\ t[2] = d /\ t[4] = d /\ t[6] = d
  BY <1>4
<1>7. IsWritten(d) /\ d.c = "."
  BY <1>1, CharIsWritten
<1>8. \A p \in 1 .. 7 : IF p % 2 = 1 THEN IsOctet(t[p]) ELSE t[p].c = "."
  <2> TAKE p \in 1 .. 7
  <2>1. IsOctet(t[1]) /\ IsOctet(t[3]) /\ IsOctet(t[5]) /\ IsOctet(t[7])
    BY <1>2, <1>6, DecIsWritten
  <2>2. p % 2 = 1 => p = 1 \/ p = 3 \/ p = 5 \/ p = 7
    OBVIOUS
  <2>3. p % 2 # 1 => p = 2 \/ p = 4 \/ p = 6
    OBVIOUS
  <2> QED BY <1>6, <1>7, <2>1, <2>2, <2>3
<1>9. \A p \in 1 .. 7 : IsWritten(t[p])
  <2> TAKE p \in 1 .. 7
  <2>1. IsWritten(t[1]) /\ IsWritten(t[3]) /\ IsWritten(t[5]) /\ IsWritten(t[7])
    BY <1>2, <1>6, DecIsWritten
  <2>2. IsWritten(t[2]) /\ IsWritten(t[4]) /\ IsWritten(t[6])
    BY <1>6, <1>7
  <2>3. p = 1 \/ p = 2 \/ p = 3 \/ p = 4 \/ p = 5 \/ p = 6 \/ p = 7
    OBVIOUS
  <2> QED BY <2>1, <2>2, <2>3
<1>10. t \in Seq(Token)
  <2>1. \A p \in 1 .. 7 : t[p] \in Token
    BY <1>9 DEF IsWritten
  <2>2. t \in [1 .. 7 -> Token]
    <3>1. t = [p \in 1 .. 7 |-> t[p]]
      BY <1>4, <1>5
    <3> QED BY <2>1, <3>1
  <2>3. PICK n : n = 7
    OBVIOUS
  <2>4. n \in Nat /\ t \in [1 .. n -> Token]
    BY <2>2, <2>3
  <2> QED BY ONLY <2>4
<1>11. IsDottedQuad(t)
  <2>1. 7 % 2 = 1
    OBVIOUS
  <2> QED BY <1>5, <1>8, <2>1 DEF IsDottedQuad, IsListOf
<1>12. \A i \in 0 .. 3 : DecValue(t[2 * i + 1]) = b[k + i]
  <2> TAKE i \in 0 .. 3
  <2>1. /\ DecValue(t[1]) = w /\ DecValue(t[3]) = x /\ DecValue(t[5]) = y /\ DecValue(t[7]) = z
    BY <1>2, <1>6, DecIsWritten
  <2>2. i = 0 \/ i = 1 \/ i = 2 \/ i = 3
    OBVIOUS
  <2>3. 2 * 0 + 1 = 1 /\ 2 * 1 + 1 = 3 /\ 2 * 2 + 1 = 5 /\ 2 * 3 + 1 = 7 /\ k + 0 = k
    OBVIOUS
  <2> QED BY <1>1, <2>1, <2>2, <2>3
<1> QED BY <1>3, <1>9, <1>10, <1>11, <1>12

\* Groups first .. last - 1.
ColonsFrom(b, first, n) == Colons(b, first, first + n - 1)

AreColons(t, b, first, n) ==
  /\ t \in Seq(Token) /\ IsGroups(t) /\ Len(Items(t)) = n
  /\ Len(t) = IF n = 0 THEN 0 ELSE 2 * n - 1
  /\ \A p \in 1 .. Len(t) : IsWritten(t[p])
  /\ \A i \in 0 .. n - 1 : Items(t)[i + 1].v = Group(b, first + i)

LEMMA ColonsAre ==
  ASSUME NEW b \in [V6Bytes -> 0 .. 255], NEW first \in 0 .. 8, NEW n \in 0 .. 8, first + n <= 8
  PROVE  AreColons(ColonsFrom(b, first, n), b, first, n)
<1>0. PICK t : t = ColonsFrom(b, first, n)
  OBVIOUS
<1>1. CASE n = 0
  <2>1. t = <<>>
    BY <1>0, <1>1 DEF Colons, ColonsFrom
  <2>5. t \in Seq(Token) /\ Len(t) = 0
    <3>1. <<>> \in Seq(Token) /\ Len(<<>>) = 0
      OBVIOUS
    <3> QED BY ONLY <2>1, <3>1
  <2>6. DOMAIN t = {}
    <3>1. DOMAIN t = 1 .. 0
      BY <2>5, TextIs
    <3> QED BY <3>1
  <2>7. (0 + 1) \div 2 = 0
    OBVIOUS
  <2>2. t \in Seq(Token) /\ Len(t) = 0 /\ DOMAIN t = {} /\ (0 + 1) \div 2 = 0
    BY <2>5, <2>6, <2>7
  <2>3. IsGroups(t)
    BY <2>1, <2>2 DEF IsGroups, IsListOf
  <2>4. Len(Items(t)) = 0
    BY <2>2, ItemsAre
  <2>8. \A i \in 0 .. n - 1 : FALSE
    BY <1>1
  <2> QED BY <1>0, <1>1, <2>2, <2>3, <2>4, <2>8 DEF AreColons
<1>2. CASE n > 0
  <2>1. PICK m : m = 2 * n - 1
    OBVIOUS
  <2>2. m \in 1 .. 15 /\ m % 2 = 1 /\ (m + 1) \div 2 = n
    BY ONLY <1>2, <2>1, n \in 0 .. 8
  <2>3. t = [p \in 1 .. m |-> IF p % 2 = 1 THEN Hex16(Group(b, first + p \div 2)) ELSE Char(":")]
    <3>1. ~(first + n - 1 < first) /\ 2 * (first + n - 1 - first) + 1 = m
      BY <1>2, <2>1
    <3> QED BY <1>0, <3>1 DEF Colons, ColonsFrom
  <2>4. ASSUME NEW p \in 1 .. m
        PROVE  /\ IsWritten(t[p])
               /\ IF p % 2 = 1 THEN IsGroup(t[p]) /\ t[p].v = Group(b, first + p \div 2)
                  ELSE t[p].c = ":"
    <3>1. CASE p % 2 = 1
      <4>1. PICK j : j = first + p \div 2
        OBVIOUS
      <4>2. j \in 0 .. 7
        <5>1. p \div 2 \in 0 .. n - 1
          BY <2>1, <2>2, <3>1
        <5> QED BY <4>1, <5>1
      <4>3. Group(b, j) \in Word
        BY <4>2, GroupIsWord
      <4>4. t[p] = Hex16(Group(b, j))
        BY <2>3, <3>1, <4>1
      <4> QED BY <3>1, <4>1, <4>3, <4>4, Hex16IsWritten
    <3>2. CASE p % 2 # 1
      <4>1. t[p] = Char(":")
        BY <2>3, <3>2
      <4> QED BY <3>2, <4>1, CharIsWritten
    <3> QED BY <3>1, <3>2
  <2>5. t \in Seq(Token) /\ Len(t) = m /\ DOMAIN t = 1 .. m
    <3>1. \A p \in 1 .. m : t[p] \in Token
      BY <2>4 DEF IsWritten
    <3>2. t \in [1 .. m -> Token] /\ m \in Nat
      BY <2>2, <2>3, <3>1
    <3> QED BY <3>2
  <2>6. IsGroups(t)
    BY <2>2, <2>4, <2>5 DEF IsGroups, IsListOf
  <2>7. Len(Items(t)) = n /\ \A i \in 1 .. n : Items(t)[i] = t[2 * i - 1]
    BY <2>2, <2>5, ItemsAre
  <2>8. ASSUME NEW i \in 0 .. n - 1 PROVE Items(t)[i + 1].v = Group(b, first + i)
    <3>1. PICK p : p = 2 * i + 1
      OBVIOUS
    <3>2. p \in 1 .. m /\ p % 2 = 1 /\ p \div 2 = i /\ i + 1 \in 1 .. n /\ 2 * (i + 1) - 1 = p
      BY <2>1, <3>1
    <3>3. t[p].v = Group(b, first + p \div 2)
      BY <2>4, <3>2
    <3>4. Items(t)[i + 1] = t[p]
      <4>1. Items(t)[i + 1] = t[2 * (i + 1) - 1]
        BY <2>7, <3>2
      <4> QED BY <3>2, <4>1
    <3> QED BY <3>2, <3>3, <3>4
  <2>9. Len(t) = IF n = 0 THEN 0 ELSE 2 * n - 1
    BY ONLY <1>2, <2>1, <2>5, n \in 0 .. 8
  <2>10. \A p \in 1 .. Len(t) : IsWritten(t[p])
    BY <2>4, <2>5
  <2> QED BY <1>0, <2>5, <2>6, <2>7, <2>8, <2>9, <2>10 DEF AreColons
<1> QED BY <1>1, <1>2

----------------------------------------------------------------------------
(* find_zero_compress.  Behind n groups it has the run of zeros that ends  *)
(* there and the leftmost of the longest ones.                             *)

IsZeroRun(gs, a, l) == \A i \in a .. a + l - 1 : gs[i] = 0

RunStep(gs, n, s) ==
  LET run == IF gs[n - 1] = 0 THEN s.curr + 1 ELSE 0
  IN  IF run > s.len THEN [start |-> n - run, len |-> run, curr |-> run]
      ELSE [s EXCEPT !.curr = run]

EndsIn(gs, n, l) ==
  /\ l \in 0 .. n
  /\ \A i \in n - l .. n - 1 : gs[i] = 0
  /\ l < n => gs[n - l - 1] # 0

IsBest(gs, n, start, len) ==
  /\ len \in 0 .. n
  /\ len = 0 => start = -1
  /\ len > 0 => start \in 0 .. n - len /\ IsZeroRun(gs, start, len)
  /\ \A a \in 0 .. n, l \in 1 .. n :
       a + l <= n /\ IsZeroRun(gs, a, l) => l < len \/ (l = len /\ start <= a)

RunsSoFar(gs, n, s) == /\ s = [start |-> s.start, len |-> s.len, curr |-> s.curr]
                       /\ EndsIn(gs, n, s.curr)
                       /\ IsBest(gs, n, s.start, s.len)

LEMMA RunGrows ==
  ASSUME NEW gs, NEW n \in 1 .. 8, NEW c, EndsIn(gs, n - 1, c),
         NEW run, run = IF gs[n - 1] = 0 THEN c + 1 ELSE 0
  PROVE  EndsIn(gs, n, run)
<1>1. PICK m : m = n - 1
  OBVIOUS
<1>2. m \in 0 .. 7 /\ n = m + 1 /\ c \in 0 .. m /\ (\A i \in m - c .. m - 1 : gs[i] = 0)
      /\ (c < m => gs[m - c - 1] # 0)
  BY <1>1 DEF EndsIn
<1>3. CASE gs[m] = 0
  <2>1. run = c + 1
    BY <1>1, <1>3
  <2>2. run \in 0 .. n /\ n - run = m - c /\ n - 1 = m /\ (run < n => c < m)
        /\ n - run - 1 = m - c - 1
    BY <1>2, <2>1
  <2>3. \A i \in m - c .. m : gs[i] = 0
    <3>1. \A i \in m - c .. m : i = m \/ i \in m - c .. m - 1
      BY <1>2
    <3> QED BY <1>2, <1>3, <3>1
  <2> QED BY <1>2, <2>2, <2>3 DEF EndsIn
<1>4. CASE gs[m] # 0
  <2>1. run = 0
    BY <1>1, <1>4
  <2>2. run \in 0 .. n /\ n - run - 1 = m /\ \A i \in n - run .. n - 1 : FALSE
    BY <1>2, <2>1
  <2> QED BY <1>4, <2>2 DEF EndsIn
<1> QED BY <1>3, <1>4

\* A run of zeros among n groups is one among the first n - 1, or ends here and
\* is no longer than the one that does.
LEMMA RunEnds ==
  ASSUME NEW gs, NEW n \in 1 .. 8, NEW run, EndsIn(gs, n, run),
         NEW a \in 0 .. n, NEW l \in 1 .. n, a + l <= n, IsZeroRun(gs, a, l)
  PROVE  a + l <= n - 1 \/ (a + l = n /\ l <= run)
<1>1. run \in 0 .. n /\ (run < n => gs[n - run - 1] # 0)
  BY DEF EndsIn
<1>2. CASE a + l = n /\ l > run
  <2>1. PICK i : i = n - run - 1
    OBVIOUS
  <2>2. run < n /\ i \in a .. a + l - 1
    BY <1>1, <1>2, <2>1
  <2>3. gs[i] = 0
    BY <2>2 DEF IsZeroRun
  <2> QED BY <1>1, <2>1, <2>2, <2>3
<1> QED BY <1>1, <1>2

LEMMA BestGrows ==
  ASSUME NEW gs, NEW n \in 1 .. 8, NEW run, EndsIn(gs, n, run),
         NEW start, NEW len, IsBest(gs, n - 1, start, len)
  PROVE  /\ run > len => IsBest(gs, n, n - run, run)
         /\ ~(run > len) => IsBest(gs, n, start, len)
<1>1. run \in 0 .. n /\ IsZeroRun(gs, n - run, run)
  <2>1. run \in 0 .. n /\ \A i \in n - run .. n - 1 : gs[i] = 0
    BY DEF EndsIn
  <2>2. n - run + run - 1 = n - 1
    BY <2>1
  <2> QED BY <2>1, <2>2 DEF IsZeroRun
<1>2. /\ len \in 0 .. n - 1
      /\ len = 0 => start = -1
      /\ len > 0 => start \in 0 .. n - 1 - len /\ IsZeroRun(gs, start, len)
      /\ \A a \in 0 .. n - 1, l \in 1 .. n - 1 :
           a + l <= n - 1 /\ IsZeroRun(gs, a, l) => l < len \/ (l = len /\ start <= a)
  BY DEF IsBest
<1>3. ASSUME NEW a \in 0 .. n, NEW l \in 1 .. n, a + l <= n, IsZeroRun(gs, a, l)
      PROVE  \/ l < len \/ (l = len /\ start <= a)
             \/ a + l = n /\ l <= run
  <2>1. a + l <= n - 1 \/ (a + l = n /\ l <= run)
    BY <1>3, RunEnds
  <2>2. CASE a + l <= n - 1
    <3>1. a \in 0 .. n - 1 /\ l \in 1 .. n - 1
      BY <2>2
    <3> QED BY <1>2, <1>3, <2>2, <3>1
  <2> QED BY <2>1, <2>2
<1>4. ASSUME run > len
      PROVE  IsBest(gs, n, n - run, run)
  <2>1. run > 0 /\ n - run \in 0 .. n - run
    BY <1>1, <1>2, <1>4
  <2>2. ASSUME NEW a \in 0 .. n, NEW l \in 1 .. n, a + l <= n, IsZeroRun(gs, a, l)
        PROVE  l < run \/ (l = run /\ n - run <= a)
    BY <1>1, <1>2, <1>3, <1>4, <2>2
  <2> QED BY <1>1, <2>1, <2>2 DEF IsBest
<1>5. ASSUME ~(run > len)
      PROVE  IsBest(gs, n, start, len)
  <2>1. run <= len /\ len \in 0 .. n
    BY <1>1, <1>2, <1>5
  <2>2. len > 0 => start \in 0 .. n - len /\ IsZeroRun(gs, start, len)
    BY <1>2
  <2>3. ASSUME NEW a \in 0 .. n, NEW l \in 1 .. n, a + l <= n, IsZeroRun(gs, a, l)
        PROVE  l < len \/ (l = len /\ start <= a)
    <3>1. CASE a + l = n /\ l <= run
      <4>1. l <= len /\ len > 0
        BY <2>1, <3>1, <1>1, <1>2
      <4>2. start <= n - len /\ start \in Int
        BY <2>2, <4>1, <2>1
      <4> QED BY <2>1, <3>1, <4>1, <4>2
    <3> QED BY <1>3, <2>3, <3>1
  <2> QED BY <1>2, <2>1, <2>2, <2>3 DEF IsBest
<1> QED BY <1>4, <1>5

LEMMA RunsGrow ==
  ASSUME NEW gs, NEW n \in 1 .. 8, NEW s, RunsSoFar(gs, n - 1, s)
  PROVE  RunsSoFar(gs, n, RunStep(gs, n, s))
<1>1. PICK run, r : run = (IF gs[n - 1] = 0 THEN s.curr + 1 ELSE 0) /\ r = RunStep(gs, n, s)
  OBVIOUS
<1>2. s = [start |-> s.start, len |-> s.len, curr |-> s.curr]
  BY DEF RunsSoFar
<1>3. EndsIn(gs, n, run)
  BY <1>1, RunGrows DEF RunsSoFar
<1>4. /\ run > s.len => IsBest(gs, n, n - run, run)
      /\ ~(run > s.len) => IsBest(gs, n, s.start, s.len)
  BY <1>3, BestGrows DEF RunsSoFar
<1>5. r = IF run > s.len THEN [start |-> n - run, len |-> run, curr |-> run]
          ELSE [s EXCEPT !.curr = run]
  BY <1>1 DEF RunStep
<1>6. CASE run > s.len
  <2>1. r = [start |-> n - run, len |-> run, curr |-> run]
    BY <1>5, <1>6
  <2> QED BY <1>1, <1>3, <1>4, <1>6, <2>1 DEF RunsSoFar
<1>7. CASE ~(run > s.len)
  <2>1. r = [start |-> s.start, len |-> s.len, curr |-> run]
    <3>1. r = [s EXCEPT !.curr = run]
      BY <1>5, <1>7
    <3> QED BY <1>2, <3>1
  <2> QED BY <1>1, <1>3, <1>4, <1>7, <2>1 DEF RunsSoFar
<1> QED BY <1>6, <1>7

RunScan == [start : Int, len : Nat, curr : Nat]
NoRun == [start |-> -1, len |-> 0, curr |-> 0]

\* The leftmost of the longest runs of two zeros or more, or none.
LEMMA LongestRunIs ==
  ASSUME NEW gs, NEW run, run = LongestRun(gs)
  PROVE  \/ /\ run.start = -1
            /\ \A r \in ZeroRuns(gs) : r[2] = 1
         \/ /\ run.start \in 0 .. 6 /\ run.len \in 2 .. 8 /\ run.start + run.len <= 8
            /\ IsZeroRun(gs, run.start, run.len)
            /\ \A r \in ZeroRuns(gs) :
                 r[2] < run.len \/ (r[2] = run.len /\ r[1] >= run.start)
<1> DEFINE step == [e \in (1 .. 8) \X RunScan |-> RunStep(gs, e[1], e[2])]
           IsIt(f) == f = [n \in 0 .. 8 |->
                             IF n = 0 THEN [start |-> -1, len |-> 0, curr |-> 0]
                             ELSE IF (IF gs[n - 1] = 0 THEN f[n - 1].curr + 1 ELSE 0) > f[n - 1].len
                               THEN [start |-> n - (IF gs[n - 1] = 0 THEN f[n - 1].curr + 1 ELSE 0),
                                     len |-> IF gs[n - 1] = 0 THEN f[n - 1].curr + 1 ELSE 0,
                                     curr |-> IF gs[n - 1] = 0 THEN f[n - 1].curr + 1 ELSE 0]
                             ELSE [f[n - 1] EXCEPT
                                     !.curr = IF gs[n - 1] = 0 THEN f[n - 1].curr + 1 ELSE 0]]
           after == CHOOSE f : IsIt(f)
<1>1. 8 \in Nat /\ NoRun \in RunScan
  BY DEF NoRun, RunScan
<1>2. IsStep(step, 8, RunScan)
  <2>1. ASSUME NEW n \in 1 .. 8, NEW s \in RunScan
        PROVE  RunStep(gs, n, s) \in RunScan
    <3>1. PICK l : l = (IF gs[n - 1] = 0 THEN s.curr + 1 ELSE 0)
      OBVIOUS
    <3>2. l \in Nat /\ n - l \in Int
      BY <3>1 DEF RunScan
    <3>3. RunStep(gs, n, s) = IF l > s.len THEN [start |-> n - l, len |-> l, curr |-> l]
                              ELSE [s EXCEPT !.curr = l]
      BY <3>1 DEF RunStep
    <3>4. [start |-> n - l, len |-> l, curr |-> l] \in RunScan /\ [s EXCEPT !.curr = l] \in RunScan
      BY <3>2 DEF RunScan
    <3> QED BY <3>3, <3>4
  <2> QED BY <2>1 DEF IsStep
<1>3. PICK f : S4!IsLoop(f, 8, RunScan, NoRun, step)
  <2> HIDE DEF step
  <2> QED BY <1>1, <1>2, LoopResult
<1>4. IsIt(f)
  <2>1. /\ f \in [0 .. 8 -> RunScan]
        /\ f[0] = NoRun
        /\ \A n \in 1 .. 8 : f[n] = step[<<n, f[n - 1]>>]
    <3> HIDE DEF step
    <3> QED BY <1>3 DEF S4!IsLoop
  <2>2. \A n \in 1 .. 8 : f[n - 1] \in RunScan
    <3>1. \A n \in 1 .. 8 : n - 1 \in 0 .. 8
      OBVIOUS
    <3> HIDE DEF step
    <3> QED BY <2>1, <3>1
  <2>3. \A n \in 1 .. 8 : f[n] = RunStep(gs, n, f[n - 1])
    BY <2>1, <2>2
  <2> HIDE DEF step
  <2>4. \A n \in 0 .. 8 : n = 0 \/ n \in 1 .. 8
    OBVIOUS
  <2>5. f = [n \in 0 .. 8 |-> IF n = 0 THEN NoRun ELSE RunStep(gs, n, f[n - 1])]
    BY <2>1, <2>3, <2>4
  <2> QED BY <2>5, Zenon DEF NoRun, RunStep
<1>5. IsIt(after)
  <2> HIDE DEF IsIt
  <2> QED BY <1>4
<1>6. run = IF after[8].len < 2 THEN [start |-> -1, len |-> 0]
            ELSE [start |-> after[8].start, len |-> after[8].len]
  BY Zenon DEF LongestRun
<1> HIDE DEF after
<1>7. after[0] = NoRun /\ \A n \in 1 .. 8 : after[n] = RunStep(gs, n, after[n - 1])
  <2>1. after = [n \in 0 .. 8 |-> IF n = 0 THEN NoRun ELSE RunStep(gs, n, after[n - 1])]
    BY <1>5, Zenon DEF NoRun, RunStep
  <2>2. 0 \in 0 .. 8 /\ \A n \in 1 .. 8 : n \in 0 .. 8 /\ n # 0
    OBVIOUS
  <2> HIDE DEF IsIt
  <2> QED BY <2>1, <2>2
<1> HIDE DEF IsIt, step
<1> DEFINE S == {n \in 0 .. 8 : RunsSoFar(gs, n, after[n])}
<1>8. 0 \in S
  <2>1. RunsSoFar(gs, 0, NoRun)
    BY DEF RunsSoFar, NoRun, EndsIn, IsBest
  <2> QED BY <1>7, <2>1
<1>9. \A n \in 1 .. 8 : n - 1 \in S => n \in S
  BY <1>7, RunsGrow
<1>10. 8 \in S
  <2> HIDE DEF S
  <2>1. \A k \in 0 .. 8 : k \in S
    BY ONLY <1>1, <1>8, <1>9, S4!RoundByRound
  <2> QED BY <2>1
<1>11. PICK s : s = after[8]
  OBVIOUS
<1>12. IsBest(gs, 8, s.start, s.len)
  BY <1>10, <1>11 DEF RunsSoFar
<1>13. /\ s.len \in 0 .. 8
       /\ s.len > 0 => s.start \in 0 .. 8 - s.len /\ IsZeroRun(gs, s.start, s.len)
       /\ \A a \in 0 .. 8, l \in 1 .. 8 :
            a + l <= 8 /\ IsZeroRun(gs, a, l) => l < s.len \/ (l = s.len /\ s.start <= a)
  BY <1>12 DEF IsBest
<1>14. ASSUME NEW r \in ZeroRuns(gs)
       PROVE  /\ r[1] \in 0 .. 8 /\ r[2] \in 1 .. 8
              /\ r[2] < s.len \/ (r[2] = s.len /\ s.start <= r[1])
  <2>1. /\ r[1] \in 0 .. 7 /\ r[2] \in 1 .. 8 /\ r[1] + r[2] <= 8
        /\ IsZeroRun(gs, r[1], r[2])
    BY DEF ZeroRuns, IsZeroRun
  <2> QED BY <1>13, <2>1
<1>15. CASE s.len < 2
  <2>1. run.start = -1
    BY <1>6, <1>11, <1>15
  <2>2. \A r \in ZeroRuns(gs) : r[2] = 1
    BY <1>13, <1>14, <1>15
  <2> QED BY <2>1, <2>2
<1>16. CASE ~(s.len < 2)
  <2>1. run.start = s.start /\ run.len = s.len
    BY <1>6, <1>11, <1>16
  <2>2. s.len \in 2 .. 8 /\ s.start \in 0 .. 6 /\ s.start + s.len <= 8
    BY <1>13, <1>16
  <2>3. IsZeroRun(gs, s.start, s.len)
    BY <1>13, <2>2
  <2>4. \A r \in ZeroRuns(gs) : r[2] < s.len \/ (r[2] = s.len /\ r[1] >= s.start)
    BY <1>14, <2>2
  <2> QED BY <2>1, <2>2, <2>3, <2>4
<1> QED BY <1>15, <1>16

----------------------------------------------------------------------------
(* The text of an IPv6 address.                                            *)

LEMMA HasColon ==
  ASSUME NEW t \in Seq(Token), NEW p \in 1 .. Len(t), t[p].c = ":"
  PROVE  LastPos(t, ":") > 0
<1>1. PICK n, q : n = Len(t) /\ q = LastPos(t, ":")
  OBVIOUS
<1>2. n \in Nat /\ q \in 0 .. n /\ \A k \in 1 .. n : k > q => t[k].c # ":"
  BY <1>1, TextIs, LastPosIs
<1>3. ~(p > q)
  BY <1>1, <1>2
<1> QED BY <1>1, <1>2, <1>3

GroupsIn(b) == [i \in 0 .. 7 |-> Group(b, i)]

\* What the formatter promises of its text t for the bytes b.
Names6(t, b) ==
  /\ t \in Seq(Token) /\ \A p \in 1 .. Len(t) : IsWritten(t[p])
  /\ LastPos(t, ":") > 0 /\ IsHexadecimal(InGroups(t))
  /\ BytesOfGroups(GroupsOf(InGroups(t))) = b
  /\ HasQuad(t) <=> MappedPrefix(b)
  /\ ~MappedPrefix(b) => ElidesLongestRun(t, GroupsIn(b))

LEMMA AllGroups ==
  ASSUME NEW b \in [V6Bytes -> 0 .. 255], ~MappedPrefix(b),
         \A r \in ZeroRuns(GroupsIn(b)) : r[2] = 1,
         NEW t, t = Colons(b, 0, 7)
  PROVE  Names6(t, b)
<1>1. /\ t \in Seq(Token) /\ IsGroups(t) /\ Len(t) = 15
      /\ \A p \in 1 .. Len(t) : IsWritten(t[p])
      /\ \A i \in 0 .. 7 : Items(t)[i + 1].v = Group(b, i)
  <2>1. PICK n, first : n = 8 /\ first = 0
    OBVIOUS
  <2>2. first \in 0 .. 8 /\ n \in 0 .. 8 /\ first + n <= 8 /\ first + n - 1 = 7 /\ n - 1 = 7
        /\ 2 * n - 1 = 15 /\ n # 0
    BY <2>1
  <2>3. t = ColonsFrom(b, first, n)
    BY <2>1, <2>2 DEF ColonsFrom
  <2>7. AreColons(t, b, first, n)
    BY <2>2, <2>3, ColonsAre
  <2>4. /\ t \in Seq(Token) /\ IsGroups(t)
        /\ Len(t) = IF n = 0 THEN 0 ELSE 2 * n - 1
        /\ \A p \in 1 .. Len(t) : IsWritten(t[p])
        /\ \A i \in 0 .. n - 1 : Items(t)[i + 1].v = Group(b, first + i)
    BY <2>7 DEF AreColons
  <2>5. Len(t) = 15
    BY <2>2, <2>4
  <2>6. \A i \in 0 .. 7 : i \in 0 .. n - 1 /\ first + i = i
    BY <2>1
  <2> QED BY <2>4, <2>5, <2>6
<1>2. Gaps(t) = {} /\ IsHexadecimal(t) /\ GroupsOf(t) = [i \in 0 .. 7 |-> Items(t)[i + 1].v]
  BY <1>1, FullText
<1>3. ~HasQuad(t)
  BY <1>1, <1>2, QuadIsMixed
<1>4. InGroups(t) = t
  BY <1>3 DEF InGroups
<1>5. LastPos(t, ":") > 0
  <2>3. 2 \in 1 .. 15 /\ 2 % 2 # 1
    OBVIOUS
  <2>1. DOMAIN t = 1 .. 15 /\ 2 \in 1 .. 15 /\ 2 \in 1 .. Len(t) /\ 2 % 2 # 1
    BY <1>1, <2>3, TextIs
  <2>2. t[2].c = ":"
    BY <1>1, <2>1 DEF IsGroups, IsListOf
  <2> QED BY <1>1, <2>1, <2>2, HasColon
<1>6. BytesOfGroups(GroupsOf(t)) = b
  <2>1. \A i \in 0 .. 7 : GroupsOf(t)[i] = Group(b, i)
    BY <1>1, <1>2
  <2> QED BY <2>1, BytesAgain
<1>7. ElidesLongestRun(t, GroupsIn(b))
  BY <1>2 DEF ElidesLongestRun
<1> QED BY <1>1, <1>2, <1>3, <1>4, <1>5, <1>6, <1>7 DEF Names6

LEMMA OneGroupRun ==
  ASSUME NEW b \in [V6Bytes -> 0 .. 255], ~MappedPrefix(b),
         NEW s \in 0 .. 6, NEW l \in 2 .. 8, s + l <= 8, IsZeroRun(GroupsIn(b), s, l),
         \A r \in ZeroRuns(GroupsIn(b)) : r[2] < l \/ (r[2] = l /\ r[1] >= s),
         NEW t, t = Colons(b, 0, s - 1) \o <<Char(":"), Char(":")>> \o Colons(b, s + l, 7)
  PROVE  Names6(t, b)
<1>1. PICK x, y, c, e, n : /\ x = Colons(b, 0, s - 1) /\ y = Colons(b, s + l, 7) /\ c = Char(":")
                           /\ e = s + l /\ n = 8 - (s + l)
  OBVIOUS
<1>2. e \in 0 .. 8 /\ n \in 0 .. 8 /\ e + n <= 8 /\ e + n - 1 = 7 /\ s \in 0 .. 8 /\ 0 \in 0 .. 8
      /\ 0 + s <= 8 /\ 0 + s - 1 = s - 1 /\ s + n = 8 - l /\ s + n < 8
  BY <1>1
<1>3. /\ x \in Seq(Token) /\ IsGroups(x) /\ Len(Items(x)) = s
      /\ \A p \in 1 .. Len(x) : IsWritten(x[p])
      /\ \A i \in 0 .. s - 1 : Items(x)[i + 1].v = Group(b, 0 + i)
  <2>1. x = ColonsFrom(b, 0, s)
    BY <1>1, <1>2 DEF ColonsFrom
  <2>2. AreColons(x, b, 0, s)
    BY <1>2, <2>1, ColonsAre
  <2> QED BY <2>2 DEF AreColons
<1>4. /\ y \in Seq(Token) /\ IsGroups(y) /\ Len(Items(y)) = n
      /\ \A p \in 1 .. Len(y) : IsWritten(y[p])
      /\ \A i \in 0 .. n - 1 : Items(y)[i + 1].v = Group(b, e + i)
  <2>1. y = ColonsFrom(b, e, n)
    BY <1>1, <1>2 DEF ColonsFrom
  <2>2. AreColons(y, b, e, n)
    BY <1>2, <2>1, ColonsAre
  <2> QED BY <2>2 DEF AreColons
<1>5. IsWritten(c) /\ c.c = ":" /\ c \in Token
  <2>1. IsWritten(c) /\ c.c = ":"
    BY <1>1, CharIsWritten
  <2> QED BY <2>1 DEF IsWritten
<1>6. /\ t \in Seq(Token) /\ Len(t) = Len(x) + 2 + Len(y)
      /\ \A i \in 1 .. Len(x) : t[i] = x[i]
      /\ t[Len(x) + 1] = c /\ t[Len(x) + 2] = c
      /\ \A i \in 1 .. Len(y) : t[Len(x) + 2 + i] = y[i]
  <2>1. t = x \o <<c, c>> \o y
    BY <1>1
  <2>2. IsJoined(t, x, c, y)
    BY <1>3, <1>4, <1>5, <2>1, Joined
  <2> QED BY <2>2 DEF IsJoined
<1>7. PICK g, k, m : g = Len(x) + 1 /\ k = Len(x) /\ m = Len(y)
  OBVIOUS
<1>8. k \in Nat /\ m \in Nat /\ g = k + 1 /\ g \in 1 .. Len(t) - 1 /\ Len(t) = k + 2 + m
      /\ g \in 1 .. Len(t) /\ g + 1 \in 1 .. Len(t) /\ g + 1 = k + 2 /\ Len(t) - (g + 1) = m
      /\ g - 1 = k
  <2>1. Len(x) \in Nat /\ Len(y) \in Nat /\ Len(t) = Len(x) + 2 + Len(y)
    BY <1>3, <1>4, <1>6
  <2> QED BY ONLY <1>7, <2>1
<1>9. Before(t, g) = x
  <2>1. /\ Before(t, g) \in Seq(Token) /\ Len(Before(t, g)) = g - 1
        /\ \A j \in 1 .. g - 1 : Before(t, g)[j] = t[j]
    BY <1>6, <1>8, PartsAre
  <2>2. PICK z : z = Before(t, g)
    OBVIOUS
  <2>3. z \in Seq(Token) /\ Len(z) = k /\ \A j \in 1 .. k : z[j] = t[j]
    BY <1>8, <2>1, <2>2
  <2>4. Len(x) = k /\ \A j \in 1 .. k : t[j] = x[j]
    BY <1>6, <1>7
  <2> QED BY <1>3, <2>2, <2>3, <2>4, SameText
<1>10. After(t, g + 1) = y
  <2>1. PICK h, z : h = g + 1 /\ z = After(t, g + 1)
    OBVIOUS
  <2>2. /\ z \in Seq(Token) /\ Len(z) = Len(t) - h
        /\ \A j \in 1 .. Len(t) - h : z[j] = t[h + j]
    BY <1>6, <1>8, <2>1, PartsAre
  <2>3. Len(t) - h = m /\ h = k + 2
    BY <1>8, <2>1
  <2>4. Len(z) = m /\ \A j \in 1 .. m : z[j] = t[k + 2 + j]
    BY <2>2, <2>3
  <2>5. Len(y) = m /\ \A j \in 1 .. m : t[k + 2 + j] = y[j]
    BY <1>6, <1>7
  <2>6. z \in Seq(Token) /\ y \in Seq(Token)
    BY <1>4, <2>2
  <2>7. Len(z) = Len(y) /\ \A j \in 1 .. Len(z) : z[j] = y[j]
    BY ONLY <2>4, <2>5
  <2>8. z = y
    BY ONLY <2>6, <2>7, SameText
  <2> QED BY <2>1, <2>8
<1>11. /\ Gaps(t) = {g} /\ IsHexadecimal(t)
       /\ GroupsOf(t) = [i \in 0 .. 7 |-> IF i < s THEN Items(x)[i + 1].v
                                          ELSE IF i >= 8 - n THEN Items(y)[i - 7 + n].v
                                          ELSE 0]
  <2>1. t[g].c = ":" /\ t[g + 1].c = ":"
    BY <1>5, <1>6, <1>7, <1>8
  <2>2. Len(Items(x)) + Len(Items(y)) < 8
    BY <1>2, <1>3, <1>4
  <2>3. /\ Gaps(t) = {g} /\ IsHexadecimal(t)
        /\ GroupsOf(t) = [i \in 0 .. 7 |-> IF i < Len(Items(x)) THEN Items(x)[i + 1].v
                                           ELSE IF i >= 8 - Len(Items(y))
                                             THEN Items(y)[i - 7 + Len(Items(y))].v
                                           ELSE 0]
    <3>1. HasOneGap(t, g, x, y)
      <4>1. x = Before(t, g) /\ y = After(t, g + 1) /\ IsGroups(x) /\ IsGroups(y)
        BY <1>3, <1>4, <1>9, <1>10
      <4> QED BY <1>6, <1>8, <2>1, <2>2, <4>1, GapText
    <3> QED BY <3>1 DEF HasOneGap
  <2> QED BY <1>3, <1>4, <2>3
<1>12. ~HasQuad(t)
  BY <1>6, <1>11, QuadIsMixed
<1>13. InGroups(t) = t
  BY <1>12 DEF InGroups
<1>14. LastPos(t, ":") > 0
  BY <1>5, <1>6, <1>7, <1>8, HasColon
<1>15. ASSUME NEW i \in 0 .. 7 PROVE GroupsOf(t)[i] = Group(b, i)
  <2>1. GroupsOf(t)[i] = IF i < s THEN Items(x)[i + 1].v
                         ELSE IF i >= 8 - n THEN Items(y)[i - 7 + n].v
                         ELSE 0
    BY <1>11
  <2>2. CASE i < s
    <3>1. i \in 0 .. s - 1 /\ 0 + i = i
      BY <2>2
    <3>2. Items(x)[i + 1].v = Group(b, 0 + i)
      BY <1>3, <3>1
    <3> QED BY <2>1, <2>2, <3>1, <3>2
  <2>3. CASE ~(i < s) /\ i >= 8 - n
    <3>1. PICK j : j = i - (8 - n)
      OBVIOUS
    <3>2. j \in 0 .. n - 1 /\ e + j = i /\ j + 1 = i - 7 + n
      BY <1>1, <1>2, <2>3, <3>1
    <3>3. Items(y)[j + 1].v = Group(b, e + j)
      BY <1>4, <3>2
    <3> QED BY <2>1, <2>3, <3>2, <3>3
  <2>4. CASE ~(i < s) /\ ~(i >= 8 - n)
    <3>1. i \in s .. s + l - 1
      BY <1>1, <1>2, <2>4
    <3>2. GroupsIn(b)[i] = 0
      BY <3>1 DEF IsZeroRun
    <3> QED BY <2>1, <2>4, <3>2 DEF GroupsIn
  <2> QED BY <2>2, <2>3, <2>4
<1>16. BytesOfGroups(GroupsOf(t)) = b
  BY <1>15, BytesAgain
<1>17. \A p \in 1 .. Len(t) : IsWritten(t[p])
  <2> TAKE p \in 1 .. Len(t)
  <2>1. \/ p \in 1 .. k \/ p = k + 1 \/ p = k + 2
        \/ p - (k + 2) \in 1 .. m /\ k + 2 + (p - (k + 2)) = p
    BY <1>8
  <2>2. CASE p \in 1 .. k
    BY <1>3, <1>6, <1>7, <2>2
  <2>3. CASE p = k + 1 \/ p = k + 2
    BY <1>5, <1>6, <1>7, <2>3
  <2>4. CASE p - (k + 2) \in 1 .. m /\ k + 2 + (p - (k + 2)) = p
    <3>1. PICK j : j = p - (k + 2)
      OBVIOUS
    <3>2. j \in 1 .. m /\ Len(x) + 2 + j = p
      BY <1>7, <2>4, <3>1
    <3> QED BY <1>4, <1>6, <1>7, <3>2
  <2> QED BY <2>1, <2>2, <2>3, <2>4
<1>18. ElidesLongestRun(t, GroupsIn(b))
  <2>1. (CHOOSE p \in Gaps(t) : TRUE) = g
    BY <1>11
  <2>2. PICK front, back : /\ front = Len(Items(Before(t, CHOOSE p \in Gaps(t) : TRUE)))
                           /\ back = Len(Items(After(t, 1 + CHOOSE p \in Gaps(t) : TRUE)))
    OBVIOUS
  <2>3. front = s /\ back = n
    <3>1. 1 + g = g + 1
      BY <1>8
    <3> QED BY <1>3, <1>4, <1>9, <1>10, <2>1, <2>2, <3>1
  <2>4. PICK elided : elided = <<s, l>>
    OBVIOUS
  <2>5. <<front, 8 - front - back>> = elided
    <3>1. 8 - s - n = l
      BY <1>1, <1>2
    <3> QED BY <2>3, <2>4, <3>1
  <2>6. elided \in ZeroRuns(GroupsIn(b)) /\ elided[1] = s /\ elided[2] = l
    <3>1. elided \in (0 .. 7) \X (1 .. 8) /\ elided[1] = s /\ elided[2] = l
      BY <2>4
    <3> QED BY <3>1 DEF ZeroRuns, IsZeroRun
  <2>7. Gaps(t) # {}
    BY <1>11
  <2>8. ElidesLongestRun(t, GroupsIn(b)) <=>
          /\ elided \in ZeroRuns(GroupsIn(b))
          /\ elided[2] >= 2
          /\ \A r \in ZeroRuns(GroupsIn(b)) : \/ r[2] < elided[2]
                                              \/ r[2] = elided[2] /\ r[1] >= elided[1]
    BY <2>2, <2>5, <2>7, Zenon DEF ElidesLongestRun
  <2> QED BY <2>6, <2>8
<1> QED BY <1>6, <1>11, <1>12, <1>13, <1>14, <1>16, <1>17, <1>18 DEF Names6

Ffff == Hex(65535, 4)

LEMMA MappedGroups ==
  ASSUME NEW b \in [V6Bytes -> 0 .. 255], MappedPrefix(b)
  PROVE  /\ \A i \in 0 .. 4 : Group(b, i) = 0
         /\ Ffff = Hex16(Group(b, 5)) /\ Group(b, 5) \in Word
<1>1. (\A k \in 0 .. 9 : b[k] = 0) /\ b[10] = 255 /\ b[11] = 255
  BY DEF MappedPrefix
<1>2. \A i \in 0 .. 4 : Group(b, i) = 0
  <2>1. \A i \in 0 .. 4 : 2 * i \in 0 .. 9 /\ 2 * i + 1 \in 0 .. 9
    OBVIOUS
  <2>2. 0 * 256 + 0 = 0
    OBVIOUS
  <2> QED BY <1>1, <2>1, <2>2 DEF Group
<1>3. PICK v : v = Group(b, 5)
  OBVIOUS
<1>4. v = 255 * 256 + 255
  <2>1. 2 * 5 = 10 /\ 10 + 1 = 11
    OBVIOUS
  <2> QED BY <1>1, <1>3, <2>1 DEF Group
<1>5. v = 65535 /\ ~(v < 16) /\ ~(v < 256) /\ ~(v < 4096)
  BY ONLY <1>4, SMT
<1>6. Hex16(v) = Ffff
  BY ONLY <1>5, SMT DEF Hex16, Ffff
<1>7. v \in Word
  BY <1>3, GroupIsWord
<1> QED BY <1>2, <1>3, <1>6, <1>7

\* The tokens of ::ffff:a.b.c.d, and those of the text with groups in place of
\* the octets.
IsMappedText(t, c, x, d) ==
  /\ t \in Seq(Token) /\ Len(t) = 11 /\ Len(d) = 7
  /\ t[1] = c /\ t[2] = c /\ t[3] = x /\ t[4] = c
  /\ \A i \in 1 .. 7 : t[4 + i] = d[i]
  /\ QuadOf(t) = d /\ HasQuad(t)

LEMMA MappedTokens ==
  ASSUME NEW d \in Seq(Token), IsDottedQuad(d), NEW x \in Token, NEW c \in Token,
         NEW t, t = <<c, c, x, c>> \o d
  PROVE  IsMappedText(t, c, x, d)
<1>1. PICK h : h = <<c, c, x, c>>
  OBVIOUS
<1>2. h \in Seq(Token) /\ Len(h) = 4 /\ h[1] = c /\ h[2] = c /\ h[3] = x /\ h[4] = c
  BY <1>1
<1>3. Len(d) = 7
  BY DEF IsDottedQuad
<1>4. t = h \o d /\ d \in Seq(Token) /\ h \in Seq(Token)
  BY <1>1, <1>2
<1>5. t \in Seq(Token) /\ Len(t) = Len(h) + Len(d)
  BY ONLY <1>4
<1>6. \A i \in 1 .. Len(h) : t[i] = h[i]
  BY ONLY <1>4
<1>7. \A i \in 1 .. Len(d) : t[Len(h) + i] = d[i]
  BY ONLY <1>4
<1>8. Len(t) = 11
  BY <1>2, <1>3, <1>5
<1>9. t[1] = c /\ t[2] = c /\ t[3] = x /\ t[4] = c
  BY <1>2, <1>6
<1>10. \A i \in 1 .. 7 : t[4 + i] = d[i]
  BY <1>2, <1>3, <1>7
<1>11. PICK q : q = QuadOf(t)
  OBVIOUS
<1>12. q = SubSeq(t, 5, 11)
  BY <1>8, <1>11 DEF QuadOf
<1>13. q \in Seq(Token) /\ Len(q) = 7 /\ \A i \in 1 .. 7 : q[i] = t[4 + i]
  <2>1. /\ q \in Seq(Token) /\ Len(q) = 11 - 5 + 1
        /\ \A i \in 1 .. 11 - 5 + 1 : q[i] = t[5 + i - 1]
    BY <1>5, <1>8, <1>12
  <2>2. 11 - 5 + 1 = 7 /\ \A i \in 1 .. 7 : 5 + i - 1 = 4 + i
    OBVIOUS
  <2> QED BY <2>1, <2>2
<1>14. q = d
  BY <1>3, <1>10, <1>13, SameText
<1>15. HasQuad(t)
  <2>1. SubSeq(t, Len(t) - 6, Len(t)) = d
    BY <1>11, <1>14 DEF QuadOf
  <2>2. Len(t) >= 9
    BY <1>8
  <2> QED BY <2>1, <2>2 DEF HasQuad
<1> QED BY <1>3, <1>5, <1>8, <1>9, <1>10, <1>11, <1>14, <1>15 DEF IsMappedText

LEMMA MappedInGroups ==
  ASSUME NEW u \in Seq(Token), Len(u) = 7, u[1].c = ":", u[2].c = ":", IsGroup(u[3]),
         u[4].c = ":", IsGroup(u[5]), u[6].c = ":", IsGroup(u[7])
  PROVE  /\ IsHexadecimal(u) /\ \A i \in 0 .. 4 : GroupsOf(u)[i] = 0
         /\ GroupsOf(u)[5] = u[3].v /\ GroupsOf(u)[6] = u[5].v /\ GroupsOf(u)[7] = u[7].v
<1>1. PICK x, y : x = Before(u, 1) /\ y = After(u, 1 + 1)
  OBVIOUS
<1>2. x \in Seq(Token) /\ Len(x) = 0
  <2>1. 1 \in 1 .. Len(u) /\ 1 - 1 = 0
    OBVIOUS
  <2> QED BY <1>1, <2>1, PartsAre
<1>3. y \in Seq(Token) /\ Len(y) = 5 /\ \A k \in 1 .. 5 : y[k] = u[2 + k]
  <2>1. 2 \in 1 .. Len(u) /\ Len(u) - 2 = 5 /\ 1 + 1 = 2
    OBVIOUS
  <2>2. y = After(u, 2)
    BY <1>1, <2>1
  <2>3. /\ y \in Seq(Token) /\ Len(y) = Len(u) - 2
        /\ \A k \in 1 .. Len(u) - 2 : y[k] = u[2 + k]
    BY <2>1, <2>2, PartsAre
  <2> QED BY ONLY <2>1, <2>3
<1>4. IsGroups(x) /\ Len(Items(x)) = 0
  <2>1. DOMAIN x = {}
    <3>1. DOMAIN x = 1 .. 0
      BY <1>2, TextIs
    <3> QED BY <3>1
  <2>2. x = <<>>
    BY <1>2
  <2>3. (0 + 1) \div 2 = 0
    OBVIOUS
  <2>4. IsGroups(x)
    BY <2>1, <2>2 DEF IsGroups, IsListOf
  <2>5. Len(Items(x)) = 0
    BY <1>2, <2>3, ItemsAre
  <2> QED BY <2>4, <2>5
<1>5. y[1] = u[3] /\ y[2] = u[4] /\ y[3] = u[5] /\ y[4] = u[6] /\ y[5] = u[7]
  BY <1>3
<1>6. IsGroups(y)
  <2>1. \A p \in 1 .. 5 : IF p % 2 = 1 THEN IsGroup(y[p]) ELSE y[p].c = ":"
    <3> TAKE p \in 1 .. 5
    <3>1. p = 1 \/ p = 2 \/ p = 3 \/ p = 4 \/ p = 5
      OBVIOUS
    <3>2. 1 % 2 = 1 /\ 2 % 2 # 1 /\ 3 % 2 = 1 /\ 4 % 2 # 1 /\ 5 % 2 = 1
      OBVIOUS
    <3> QED BY <1>5, <3>1, <3>2
  <2>2. DOMAIN y = 1 .. 5 /\ 5 % 2 = 1
    BY <1>3
  <2> QED BY <1>3, <2>1, <2>2 DEF IsGroups, IsListOf
<1>7. Len(Items(y)) = 3 /\ Items(y)[1] = u[3] /\ Items(y)[2] = u[5] /\ Items(y)[3] = u[7]
  <2>1. (5 + 1) \div 2 = 3 /\ 2 * 1 - 1 = 1 /\ 2 * 2 - 1 = 3 /\ 2 * 3 - 1 = 5
    OBVIOUS
  <2>2. Len(Items(y)) = 3 /\ \A i \in 1 .. 3 : Items(y)[i] = y[2 * i - 1]
    BY <1>3, <2>1, ItemsAre
  <2> QED BY <1>5, <2>1, <2>2
<1>8. HasOneGap(u, 1, x, y)
  <2>1. 1 \in 1 .. Len(u) - 1 /\ Len(Items(x)) + Len(Items(y)) < 8 /\ u[1 + 1].c = ":"
    BY <1>4, <1>7
  <2> QED BY <1>1, <1>4, <1>6, <2>1, GapText
<1>9. GroupsOf(u) = [i \in 0 .. 7 |-> IF i < 0 THEN Items(x)[i + 1].v
                                      ELSE IF i >= 8 - 3 THEN Items(y)[i - 7 + 3].v ELSE 0]
  BY <1>4, <1>7, <1>8 DEF HasOneGap
<1>10. \A i \in 0 .. 4 : GroupsOf(u)[i] = 0
  BY <1>9
<1>11. GroupsOf(u)[5] = u[3].v /\ GroupsOf(u)[6] = u[5].v /\ GroupsOf(u)[7] = u[7].v
  <2>1. 5 - 7 + 3 = 1 /\ 6 - 7 + 3 = 2 /\ 7 - 7 + 3 = 3
    OBVIOUS
  <2>2. GroupsOf(u)[5] = Items(y)[5 - 7 + 3].v
    BY <1>9
  <2>3. GroupsOf(u)[6] = Items(y)[6 - 7 + 3].v
    BY <1>9
  <2>4. GroupsOf(u)[7] = Items(y)[7 - 7 + 3].v
    BY <1>9
  <2> QED BY <1>7, <2>1, <2>2, <2>3, <2>4
<1> QED BY <1>8, <1>10, <1>11 DEF HasOneGap

LEMMA MappedText ==
  ASSUME NEW b \in [V6Bytes -> 0 .. 255], MappedPrefix(b),
         NEW t, t = <<Char(":"), Char(":"), Ffff, Char(":")>> \o Dotted(b, 12)
  PROVE  Names6(t, b)
<1>1. PICK c, x, d, u : c = Char(":") /\ x = Ffff /\ d = Dotted(b, 12) /\ u = InGroups(t)
  OBVIOUS
<1>2. x = Hex16(Group(b, 5)) /\ Group(b, 5) \in Word /\ \A i \in 0 .. 4 : Group(b, i) = 0
  BY ONLY <1>1, MappedGroups, b \in [V6Bytes -> 0 .. 255], MappedPrefix(b)
<1>3. IsWritten(x) /\ IsGroup(x) /\ x.v = Group(b, 5)
  BY <1>2, Hex16IsWritten
<1>4. IsWritten(c) /\ c.c = ":"
  BY <1>1, CharIsWritten
<1>5. c \in Token /\ x \in Token
  BY <1>3, <1>4 DEF IsWritten
<1>6. /\ d \in Seq(Token) /\ IsDottedQuad(d) /\ \A p \in 1 .. 7 : IsWritten(d[p])
      /\ \A i \in 0 .. 3 : DecValue(d[2 * i + 1]) = b[12 + i]
  <2>1. \A i \in 12 .. 12 + 3 : b[i] \in 0 .. 255
    <3>1. \A i \in 12 .. 12 + 3 : i \in V6Bytes
      BY DEF V6Bytes
    <3> QED BY <3>1
  <2>2. 12 \in Nat
    OBVIOUS
  <2> QED BY <1>1, <2>1, <2>2, DottedIs
<1>7. t = <<c, c, x, c>> \o d
  BY <1>1
<1> HIDE DEF MappedPrefix
<1>8. /\ t \in Seq(Token) /\ Len(t) = 11 /\ Len(d) = 7
      /\ t[1] = c /\ t[2] = c /\ t[3] = x /\ t[4] = c
      /\ \A i \in 1 .. 7 : t[4 + i] = d[i]
      /\ QuadOf(t) = d /\ HasQuad(t)
  <2>1. c \in Token /\ x \in Token /\ d \in Seq(Token) /\ IsDottedQuad(d)
    BY <1>5, <1>6
  <2>2. IsMappedText(t, c, x, d)
    BY ONLY <1>7, <2>1, MappedTokens
  <2> QED BY <2>2 DEF IsMappedText
<1>9. TailIs(t, 3, d, u)
  <2>1. HeadLen(t) = 3
    BY <1>8 DEF HeadLen
  <2>2. TailIs(t, HeadLen(t), QuadOf(t), InGroups(t))
    BY <1>8, InGroupsIs
  <2> QED BY <1>1, <1>8, <2>1, <2>2
<1>10. /\ u \in Seq(Token) /\ Len(u) = 7 /\ \A j \in 1 .. 4 : u[j] = t[j]
       /\ IsGroup(u[5]) /\ u[5].v = DecValue(d[1]) * 256 + DecValue(d[3])
       /\ u[6].c = ":" /\ IsGroup(u[7]) /\ u[7].v = DecValue(d[5]) * 256 + DecValue(d[7])
  BY <1>9 DEF TailIs
<1>11. u[1].c = ":" /\ u[2].c = ":" /\ u[3] = x /\ u[4].c = ":"
  BY <1>4, <1>8, <1>10
<1>12. /\ IsHexadecimal(u) /\ \A i \in 0 .. 4 : GroupsOf(u)[i] = 0
       /\ GroupsOf(u)[5] = x.v /\ GroupsOf(u)[6] = u[5].v /\ GroupsOf(u)[7] = u[7].v
  <2>1. /\ u \in Seq(Token) /\ Len(u) = 7 /\ u[1].c = ":" /\ u[2].c = ":" /\ IsGroup(u[3])
        /\ u[4].c = ":" /\ IsGroup(u[5]) /\ u[6].c = ":" /\ IsGroup(u[7])
    BY <1>3, <1>10, <1>11
  <2> QED BY <1>11, <2>1, MappedInGroups
<1>13. u[5].v = Group(b, 6) /\ u[7].v = Group(b, 7)
  <2>1. DecValue(d[1]) = b[12] /\ DecValue(d[3]) = b[13]
        /\ DecValue(d[5]) = b[14] /\ DecValue(d[7]) = b[15]
    <3>1. 2 * 0 + 1 = 1 /\ 2 * 1 + 1 = 3 /\ 2 * 2 + 1 = 5 /\ 2 * 3 + 1 = 7
          /\ 12 + 0 = 12 /\ 12 + 1 = 13 /\ 12 + 2 = 14 /\ 12 + 3 = 15
      OBVIOUS
    <3>2. 0 \in 0 .. 3 /\ 1 \in 0 .. 3 /\ 2 \in 0 .. 3 /\ 3 \in 0 .. 3
      OBVIOUS
    <3> QED BY <1>6, <3>1, <3>2
  <2>2. 2 * 6 = 12 /\ 12 + 1 = 13 /\ 2 * 7 = 14 /\ 14 + 1 = 15
    OBVIOUS
  <2> QED BY <1>10, <2>1, <2>2 DEF Group
<1>14. \A i \in 0 .. 7 : GroupsOf(u)[i] = Group(b, i)
  <2> TAKE i \in 0 .. 7
  <2>1. i \in 0 .. 4 \/ i = 5 \/ i = 6 \/ i = 7
    OBVIOUS
  <2> QED BY <1>2, <1>3, <1>12, <1>13, <2>1
<1>15. BytesOfGroups(GroupsOf(u)) = b
  BY <1>14, BytesAgain
<1>16. LastPos(t, ":") > 0
  <2>1. 1 \in 1 .. Len(t) /\ t[1].c = ":"
    BY <1>4, <1>8
  <2> QED BY <1>8, <2>1, HasColon
<1>17. \A p \in 1 .. Len(t) : IsWritten(t[p])
  <2> TAKE p \in 1 .. Len(t)
  <2>1. p = 1 \/ p = 2 \/ p = 3 \/ p = 4 \/ (p - 4 \in 1 .. 7 /\ 4 + (p - 4) = p)
    <3>1. p \in 1 .. 11
      BY <1>8
    <3> QED BY ONLY <3>1
  <2>2. CASE p - 4 \in 1 .. 7 /\ 4 + (p - 4) = p
    <3>1. t[4 + (p - 4)] = d[p - 4] /\ IsWritten(d[p - 4])
      BY <1>6, <1>8, <2>2
    <3> QED BY <2>2, <3>1
  <2> QED BY <1>3, <1>4, <1>8, <2>1, <2>2
<1> QED BY <1>1, <1>8, <1>12, <1>15, <1>16, <1>17 DEF Names6

LEMMA FormatIPv6Is ==
  ASSUME NEW b \in [V6Bytes -> 0 .. 255]
  PROVE  Names6(FormatIPv6(b), b)
<1>1. PICK t, run : t = FormatIPv6(b) /\ run = LongestRun(GroupsIn(b))
  OBVIOUS
<1>2. t = IF MappedPrefix(b)
            THEN <<Char(":"), Char(":"), Ffff, Char(":")>> \o Dotted(b, 12)
          ELSE IF run.start < 0 THEN Colons(b, 0, 7)
          ELSE Colons(b, 0, run.start - 1) \o <<Char(":"), Char(":")>>
                 \o Colons(b, run.start + run.len, 7)
  BY <1>1, SMT DEF FormatIPv6, GroupsIn, Ffff
<1>3. CASE MappedPrefix(b)
  <2>1. t = <<Char(":"), Char(":"), Ffff, Char(":")>> \o Dotted(b, 12)
    BY <1>2, <1>3, SMT
  <2> QED BY <1>1, <1>3, <2>1, MappedText
<1>4. CASE ~MappedPrefix(b)
  <2>1. t = IF run.start < 0 THEN Colons(b, 0, 7)
            ELSE Colons(b, 0, run.start - 1) \o <<Char(":"), Char(":")>>
                   \o Colons(b, run.start + run.len, 7)
    BY <1>2, <1>4, SMT
  <2>2. \/ /\ run.start = -1
           /\ \A r \in ZeroRuns(GroupsIn(b)) : r[2] = 1
        \/ /\ run.start \in 0 .. 6 /\ run.len \in 2 .. 8 /\ run.start + run.len <= 8
           /\ IsZeroRun(GroupsIn(b), run.start, run.len)
           /\ \A r \in ZeroRuns(GroupsIn(b)) :
                r[2] < run.len \/ (r[2] = run.len /\ r[1] >= run.start)
    BY <1>1, LongestRunIs
  <2>3. CASE run.start = -1 /\ \A r \in ZeroRuns(GroupsIn(b)) : r[2] = 1
    <3>1. t = Colons(b, 0, 7)
      BY <2>1, <2>3
    <3> QED BY <1>1, <1>4, <2>3, <3>1, AllGroups
  <2>4. CASE /\ run.start \in 0 .. 6 /\ run.len \in 2 .. 8 /\ run.start + run.len <= 8
             /\ IsZeroRun(GroupsIn(b), run.start, run.len)
             /\ \A r \in ZeroRuns(GroupsIn(b)) :
                  r[2] < run.len \/ (r[2] = run.len /\ r[1] >= run.start)
    <3>1. PICK s, l : s = run.start /\ l = run.len
      OBVIOUS
    <3>2. t = Colons(b, 0, s - 1) \o <<Char(":"), Char(":")>> \o Colons(b, s + l, 7)
      <4>1. ~(run.start < 0)
        BY <2>4
      <4> QED BY <2>1, <3>1, <4>1
    <3>3. /\ s \in 0 .. 6 /\ l \in 2 .. 8 /\ s + l <= 8 /\ IsZeroRun(GroupsIn(b), s, l)
          /\ \A r \in ZeroRuns(GroupsIn(b)) : r[2] < l \/ (r[2] = l /\ r[1] >= s)
      BY <2>4, <3>1
    <3> QED BY <1>1, <1>4, <3>2, <3>3, OneGroupRun
  <2> QED BY <2>2, <2>3, <2>4
<1> QED BY <1>3, <1>4

----------------------------------------------------------------------------
(* The text of an address and of a network, and what the parsers make of   *)
(* it.                                                                     *)

\* A parser's result has these two fields.
IsResult(r) == r = [rc |-> r.rc, out |-> r.out]

LEMMA ParseShape ==
  ASSUME NEW t, NEW out
  PROVE  IsResult(AddrParse(t, out))
<1>1. ASSUME NEW rc, NEW o PROVE IsResult([rc |-> rc, out |-> o])
  BY DEF IsResult
<1>2. IsResult(ParseIPv4(t, out))
  BY <1>1, Zenon DEF ParseIPv4
<1>3. IsResult(ParseMixed(t, out))
  BY <1>1, Zenon DEF ParseMixed
<1>4. IsResult(ParsePure(t, out))
  BY <1>1, Zenon DEF ParsePure
<1>5. PICK r : r = IF LastPos(t, ":") = 0 THEN ParseIPv4(t, out)
                   ELSE IF IsMixed(t) THEN ParseMixed(t, out) ELSE ParsePure(t, out)
  OBVIOUS
<1>6. IsResult(r)
  BY <1>2, <1>3, <1>4, <1>5, Zenon
<1>7. AddrParse(t, out) =
        IF r.rc = "OK" THEN r ELSE [rc |-> r.rc, out |-> [r.out EXCEPT !.family = "UNSPEC"]]
  BY <1>5, MarkedIs
<1> QED BY <1>1, <1>6, <1>7, Zenon

\* What the formatter promises of its text t for the address a.
Names(t, a) ==
  /\ t \in Seq(Token) /\ \A p \in 1 .. Len(t) : IsWritten(t[p])
  /\ IsAddressText(t) /\ Denoted(t) = a
  /\ a.family = "INET6" =>
       IF MappedPrefix(a.bytes) THEN HasQuad(t) ELSE ElidesLongestRun(t, GroupsIn(a.bytes))

LEMMA IPv4Named ==
  ASSUME NEW b \in [V4Bytes -> 0 .. 255]
  PROVE  Names(FormatIPv4(b), [family |-> "INET", bytes |-> b])
<1>1. PICK t : t = FormatIPv4(b)
  OBVIOUS
<1>2. t = Dotted(b, 0)
  BY <1>1 DEF FormatIPv4
<1>3. /\ t \in Seq(Token) /\ IsDottedQuad(t) /\ \A p \in 1 .. 7 : IsWritten(t[p])
      /\ \A i \in 0 .. 3 : DecValue(t[2 * i + 1]) = b[0 + i]
  <2>1. \A i \in 0 .. 0 + 3 : b[i] \in 0 .. 255
    <3>1. \A i \in 0 .. 0 + 3 : i \in V4Bytes
      BY DEF V4Bytes
    <3> QED BY <3>1
  <2> QED BY <1>2, <2>1, DottedIs
<1>4. Len(t) = 7
  BY <1>3 DEF IsDottedQuad
<1>5. Quad(t) = b
  <2>1. \A k \in V4Bytes : DecValue(t[2 * k + 1]) = b[k]
    <3>1. \A k \in V4Bytes : k \in 0 .. 3 /\ 0 + k = k
      BY DEF V4Bytes
    <3> QED BY <1>3, <3>1
  <2> QED BY <2>1 DEF Quad
<1>6. IsAddressText(t) /\ Denoted(t) = [family |-> "INET", bytes |-> b]
  BY <1>3, <1>5 DEF IsAddressText, Denoted
<1> QED BY <1>1, <1>3, <1>4, <1>6 DEF Names

LEMMA IPv6Named ==
  ASSUME NEW b \in [V6Bytes -> 0 .. 255]
  PROVE  Names(FormatIPv6(b), [family |-> "INET6", bytes |-> b])
<1>1. PICK t : t = FormatIPv6(b)
  OBVIOUS
<1>2. /\ t \in Seq(Token) /\ \A p \in 1 .. Len(t) : IsWritten(t[p])
      /\ LastPos(t, ":") > 0 /\ IsHexadecimal(InGroups(t))
      /\ BytesOfGroups(GroupsOf(InGroups(t))) = b
      /\ HasQuad(t) <=> MappedPrefix(b)
      /\ ~MappedPrefix(b) => ElidesLongestRun(t, GroupsIn(b))
  BY <1>1, FormatIPv6Is DEF Names6
<1>3. IsIPv6Text(t)
  BY <1>2 DEF IsIPv6Text
<1>4. ~IsDottedQuad(t)
  BY <1>2, ColonIsNoQuad
<1>5. IsAddressText(t) /\ Denoted(t) = [family |-> "INET6", bytes |-> b]
  BY <1>2, <1>3, <1>4 DEF IsAddressText, Denoted
<1> QED BY <1>1, <1>2, <1>5 DEF Names

LEMMA AddrNamed ==
  ASSUME NEW a, IsAddress(a)
  PROVE  AddrFormat(a).rc = "OK" /\ Names(AddrFormat(a).text, a)
<1>1. a = [family |-> a.family, bytes |-> a.bytes] /\ a.family \in {"INET", "INET6"}
      /\ a.bytes \in [BytesOf(a.family) -> 0 .. 255]
  BY DEF IsAddress
<1>2. CASE a.family = "INET"
  <2>1. a.bytes \in [V4Bytes -> 0 .. 255] /\ a = [family |-> "INET", bytes |-> a.bytes]
    BY <1>1, <1>2 DEF BytesOf
  <2>2. AddrFormat(a).rc = "OK" /\ AddrFormat(a).text = FormatIPv4(a.bytes)
    BY <1>2 DEF AddrFormat
  <2> QED BY <2>1, <2>2, IPv4Named
<1>3. CASE a.family = "INET6"
  <2>1. a.bytes \in [V6Bytes -> 0 .. 255] /\ a = [family |-> "INET6", bytes |-> a.bytes]
    BY <1>1, <1>3 DEF BytesOf
  <2>2. AddrFormat(a).rc = "OK" /\ AddrFormat(a).text = FormatIPv6(a.bytes)
    BY <1>3 DEF AddrFormat
  <2> QED BY <2>1, <2>2, IPv6Named
<1> QED BY <1>1, <1>2, <1>3

\* Parsing an address text gives the address it denotes.
LEMMA NamedParses ==
  ASSUME NEW t, NEW a, Names(t, a)
  PROVE  AddrParse(t, NoAddr) = [rc |-> "OK", out |-> a] /\ Taken(t) /\ Width(t) < 46
<1>1. t \in Seq(Token) /\ IsAddressText(t) /\ Denoted(t) = a
  BY DEF Names
<1>2. Taken(t) /\ Meaning(t) = a
  BY <1>1 DEF Taken, Meaning
<1>3. PICK r : r = AddrParse(t, NoAddr)
  OBVIOUS
<1>4. Parses(t, r)
  BY <1>1, <1>3, NoAddrIsCell, ParserIsGrammar
<1>5. r.rc = "OK" /\ r.out = a
  BY <1>2, <1>4 DEF Parses
<1>6. r = [rc |-> r.rc, out |-> r.out]
  BY <1>3, ParseShape DEF IsResult
<1> QED BY <1>1, <1>2, <1>3, <1>5, <1>6, TakenFits

----------------------------------------------------------------------------
(* Networks.                                                               *)

\* A text h with two more tokens.
IsSlashed(t, h, c, x) ==
  /\ t \in Seq(Token) /\ Len(t) = Len(h) + 2
  /\ \A i \in 1 .. Len(h) : t[i] = h[i]
  /\ t[Len(h) + 1] = c /\ t[Len(h) + 2] = x

LEMMA Slashed ==
  ASSUME NEW h \in Seq(Token), NEW c \in Token, NEW x \in Token
  PROVE  IsSlashed(h \o <<c, x>>, h, c, x)
<1>1. PICK t, s : s = <<c, x>> /\ t = h \o <<c, x>>
  OBVIOUS
<1>2. s \in Seq(Token) /\ Len(s) = 2 /\ s[1] = c /\ s[2] = x
  BY <1>1
<1>3. h \in Seq(Token) /\ s \in Seq(Token) /\ t = h \o s
  BY <1>1, <1>2
<1>4. t \in Seq(Token) /\ Len(t) = Len(h) + Len(s)
  BY ONLY <1>3
<1>5. \A i \in 1 .. Len(h) : t[i] = h[i]
  BY ONLY <1>3
<1>6. \A i \in 1 .. Len(s) : t[Len(h) + i] = s[i]
  BY ONLY <1>3
<1> QED BY <1>1, <1>2, <1>4, <1>5, <1>6 DEF IsSlashed

LEMMA SlashedWidth ==
  ASSUME NEW h \in Seq(Token), NEW c \in Token, NEW x \in Token, NEW t, IsSlashed(t, h, c, x)
  PROVE  Width(t) = Width(h) + c.w + x.w /\ Width(h) \in Nat
<1>1. PICK f, g : IsWidths(t, f) /\ IsWidths(h, g)
  BY WidthIs DEF IsSlashed
<1>2. PICK m, n : m = Len(h) /\ n = Len(t)
  OBVIOUS
<1>3. /\ m \in Nat /\ n = m + 2 /\ t[m + 1] = c /\ t[m + 2] = x
      /\ \A i \in 1 .. m : t[i] = h[i]
  BY <1>2, TextIs DEF IsSlashed
<1>4. /\ f[0] = 0 /\ g[0] = 0 /\ Width(t) = f[n] /\ Width(h) = g[m]
      /\ \A k \in 1 .. n : f[k] = f[k - 1] + t[k].w
      /\ \A k \in 1 .. m : g[k] = g[k - 1] + h[k].w
      /\ \A k \in 0 .. m : g[k] \in Nat
  BY <1>1, <1>2 DEF IsWidths
<1> DEFINE S == {k \in 0 .. m : f[k] = g[k]}
<1>5. 0 \in S
  BY <1>3, <1>4
<1>6. \A k \in 1 .. m : k - 1 \in S => k \in S
  <2> TAKE k \in 1 .. m
  <2>1. k \in 1 .. n /\ k \in 0 .. m
    BY <1>3
  <2> QED BY <1>3, <1>4, <2>1
<1>7. f[m] = g[m]
  <2>2. m \in Nat
    BY <1>3
  <2>1. 0 .. m \subseteq S
    <3> HIDE DEF S
    <3> QED BY ONLY <2>2, <1>5, <1>6, S4!RoundByRound
  <2> QED BY <1>3, <2>1
<1>8. f[m + 1] = f[m] + c.w
  <2>1. m + 1 \in 1 .. n /\ m + 1 - 1 = m
    BY <1>3
  <2> QED BY <1>3, <1>4, <2>1
<1>9. f[m + 2] = f[m + 1] + x.w
  <2>1. m + 2 \in 1 .. n /\ m + 2 - 1 = m + 1
    BY <1>3
  <2> QED BY <1>3, <1>4, <2>1
<1>10. g[m] \in Nat
  BY <1>3, <1>4
<1> QED BY <1>3, <1>4, <1>7, <1>8, <1>9, <1>10

LEMMA SlashedParts ==
  ASSUME NEW h \in Seq(Token), NEW c \in Token, NEW x \in Token, NEW t, IsSlashed(t, h, c, x),
         c.c = "/", x.c # "/"
  PROVE  /\ LastPos(t, "/") = Len(h) + 1 /\ Before(t, Len(h) + 1) = h
         /\ Len(After(t, Len(h) + 1)) = 1 /\ After(t, Len(h) + 1)[1] = x
<1>1. PICK m, n, s : m = Len(h) /\ n = Len(t) /\ s = m + 1
  OBVIOUS
<1>2. /\ t \in Seq(Token) /\ m \in Nat /\ n = m + 2 /\ t[s] = c /\ t[m + 2] = x
      /\ \A i \in 1 .. m : t[i] = h[i]
  BY <1>1, TextIs DEF IsSlashed
<1>3. LastPos(t, "/") = s
  <2>1. PICK l : l = LastPos(t, "/")
    OBVIOUS
  <2>2. l \in 0 .. n /\ (l > 0 => t[l].c = "/") /\ \A p \in 1 .. n : p > l => t[p].c # "/"
    BY <1>1, <1>2, <2>1, TextIs, LastPosIs
  <2>3. ~(s > l)
    BY <1>1, <1>2, <2>2
  <2>4. l # m + 2
    BY <1>1, <1>2, <2>2
  <2> QED BY <1>1, <1>2, <2>1, <2>2, <2>3, <2>4
<1>4. s \in 1 .. n /\ s - 1 = m /\ n - s = 1
  BY <1>1, <1>2
<1>5. /\ Before(t, s) \in Seq(Token) /\ Len(Before(t, s)) = s - 1
      /\ \A k \in 1 .. s - 1 : Before(t, s)[k] = t[k]
      /\ Len(After(t, s)) = Len(t) - s
      /\ \A k \in 1 .. Len(t) - s : After(t, s)[k] = t[s + k]
  <2>1. s \in 1 .. Len(t)
    BY <1>1, <1>4
  <2> QED BY <1>2, <2>1, PartsAre
<1>6. Before(t, s) = h
  <2>1. PICK z : z = Before(t, s)
    OBVIOUS
  <2>2. z \in Seq(Token) /\ Len(z) = m /\ \A k \in 1 .. m : z[k] = t[k]
    BY <1>4, <1>5, <2>1
  <2> QED BY <1>1, <1>2, <2>1, <2>2, SameText
<1>7. Len(After(t, s)) = 1 /\ After(t, s)[1] = x
  <2>1. Len(After(t, s)) = 1
    BY <1>1, <1>4, <1>5
  <2>2. After(t, s)[1] = t[s + 1]
    BY <1>1, <1>4, <1>5
  <2>3. s + 1 = m + 2
    BY <1>1, <1>2
  <2> QED BY <1>2, <2>1, <2>2, <2>3
<1> QED BY <1>1, <1>3, <1>6, <1>7

\* What the formatter promises of its text t for the network p.
NamesNet(t, p) ==
  /\ t \in Seq(Token) /\ \A q \in 1 .. Len(t) : IsWritten(t[q])
  /\ Width(t) < 50
  /\ PrefixParse(t, NoPrefix) = [rc |-> "OK", out |-> p]

LEMMA PrefixNamed ==
  ASSUME NEW p, IsNet(p)
  PROVE  PrefixFormat(p).rc = "OK" /\ NamesNet(PrefixFormat(p).text, p)
<1>1. PICK a, n, h, t, c, x :
        /\ a = p.addr /\ n = p.pfxlen /\ h = AddrFormat(a).text /\ t = PrefixFormat(p).text
        /\ c = Char("/") /\ x = Dec(n)
  OBVIOUS
<1>2. /\ p = [addr |-> a, pfxlen |-> n] /\ IsAddress(a) /\ n \in 0 .. MaxLen(a.family)
      /\ MaskedTo(a, n) = a
  BY <1>1 DEF IsNet
<1>3. n \in 0 .. 128 /\ MaxLen(a.family) \in Nat
  BY <1>2 DEF MaxLen
<1>4. AddrFormat(a).rc = "OK" /\ Names(h, a)
  BY <1>1, <1>2, AddrNamed
<1>5. h \in Seq(Token) /\ \A q \in 1 .. Len(h) : IsWritten(h[q])
  BY <1>4 DEF Names
<1>6. AddrParse(h, NoAddr) = [rc |-> "OK", out |-> a] /\ Taken(h) /\ Width(h) < 46
  BY <1>4, NamedParses
<1>7. IsWritten(c) /\ c.c = "/" /\ c.w = 1
  <2>1. IsWritten(Char("/")) /\ Char("/").c = "/"
    BY CharIsWritten
  <2>2. Char("/").w = 1
    BY DEF Char
  <2> QED BY <1>1, <2>1, <2>2
<1>8. IsWritten(x) /\ IsDecimal(x) /\ DecValue(x) = n /\ x.w \in 1 .. 3 /\ x.c # "/"
  <2>1. n \in 0 .. 255
    BY <1>3
  <2>2. IsWritten(x) /\ IsDecimal(x) /\ DecValue(x) = n /\ x.w \in 1 .. 3
    BY <1>1, <2>1, DecIs, DecIsWritten
  <2>3. x.c = "hex"
    BY <2>2 DEF IsDecimal
  <2> QED BY <2>2, <2>3
<1>9. c \in Token /\ x \in Token
  BY <1>7, <1>8 DEF IsWritten
<1>10. t = h \o <<c, x>> /\ PrefixFormat(p).rc = "OK"
  <2>1. AddrFormat(p.addr).rc = "OK"
    BY <1>1, <1>4
  <2>2. PrefixFormat(p) = [rc |-> "OK",
                           text |-> AddrFormat(p.addr).text \o <<Char("/"), Dec(p.pfxlen)>>]
    BY <2>1 DEF PrefixFormat
  <2> QED BY <1>1, <2>2
<1>11. IsSlashed(t, h, c, x)
  BY <1>5, <1>9, <1>10, Slashed
<1>12. /\ LastPos(t, "/") = Len(h) + 1 /\ Before(t, Len(h) + 1) = h
       /\ Len(After(t, Len(h) + 1)) = 1 /\ After(t, Len(h) + 1)[1] = x
  BY <1>5, <1>7, <1>8, <1>9, <1>11, SlashedParts
<1>13. Width(t) < 50
  <2>1. Width(t) = Width(h) + c.w + x.w /\ Width(h) \in Nat
    BY <1>5, <1>9, <1>11, SlashedWidth
  <2>2. Width(h) < 46 /\ c.w = 1 /\ x.w \in 1 .. 3
    BY <1>6, <1>7, <1>8
  <2> QED BY ONLY <2>1, <2>2
<1>14. PICK slash : slash = Len(h) + 1
  OBVIOUS
<1>15. ParsePfxlen(After(t, slash)) = n
  <2>1. PICK z : z = After(t, slash)
    OBVIOUS
  <2>2. Len(z) = 1 /\ z[1] = x
    BY <1>12, <1>14, <2>1
  <2>3. IsDecimal(x) /\ DecValue(x) = n /\ n <= 128
    BY <1>3, <1>8
  <2> QED BY ONLY <2>1, <2>2, <2>3 DEF ParsePfxlen
<1>16. PrefixParse(t, NoPrefix) = [rc |-> "OK", out |-> p]
  <2>1. PICK r, net : r = AddrParse(h, NoAddr) /\ net = [addr |-> MaskedTo(r.out, n), pfxlen |-> n]
    OBVIOUS
  <2>2. r.rc = "OK" /\ r.out = a
    BY <1>6, <2>1
  <2>3. net = p /\ net.addr = a
    BY <1>2, <2>1, <2>2
  <2>4. ~(slash <= 1) /\ ~(Width(h) >= 46) /\ ~(n = -1) /\ ~(n > MaxLen(a.family))
    <3>1. Len(h) > 0 /\ Len(h) \in Nat
      BY <1>5, <1>6, TakenIsNotEmpty, TextIs
    <3>2. Width(h) \in Nat
      BY <1>5, <1>9, <1>11, SlashedWidth
    <3> QED BY <1>2, <1>3, <1>6, <1>14, <3>1, <3>2
  <2>5. PrefixParse(t, NoPrefix) =
           IF slash <= 1 \/ Width(h) >= CIDR_ADDR_STR_MAX
             THEN [rc |-> "PARSE", out |-> NoPrefix]
           ELSE IF r.rc # "OK" THEN [rc |-> r.rc, out |-> NoPrefix]
           ELSE IF n = -1 \/ n > MaxLen(r.out.family) THEN [rc |-> "PFXLEN", out |-> NoPrefix]
           ELSE IF net.addr # r.out THEN [rc |-> "HOSTBITS", out |-> NoPrefix]
           ELSE [rc |-> "OK", out |-> net]
    BY <1>12, <1>14, <1>15, <2>1, PrefixParseIs
  <2> QED BY <2>2, <2>3, <2>4, <2>5 DEF CIDR_ADDR_STR_MAX
<1>17. \A q \in 1 .. Len(t) : IsWritten(t[q])
  <2> TAKE q \in 1 .. Len(t)
  <2>1. Len(h) \in Nat /\ Len(t) = Len(h) + 2
    BY <1>5, <1>11, TextIs DEF IsSlashed
  <2>2. q \in 1 .. Len(h) \/ q = Len(h) + 1 \/ q = Len(h) + 2
    BY <2>1
  <2> QED BY <1>5, <1>7, <1>8, <1>11, <2>2 DEF IsSlashed
<1>18. t \in Seq(Token)
  BY <1>11 DEF IsSlashed
<1> QED BY <1>1, <1>10, <1>13, <1>16, <1>17, <1>18 DEF NamesNet

LEMMA LastRound ==
  ASSUME NEW n \in Nat, NEW S, 0 \in S, \A k \in 1 .. n : k - 1 \in S => k \in S
  PROVE  n \in S
<1>1. 0 .. n \subseteq S
  BY S4!RoundByRound
<1> QED BY <1>1

----------------------------------------------------------------------------
(* The batch parser: behind n items it has the verdict on each of them,    *)
(* and knows whether one failed and whether two have different families.   *)

Cells == [family : {"UNSPEC", "INET", "INET6"},
          bytes  : [V4Bytes -> 0 .. 255] \cup [V6Bytes -> 0 .. 255]]
Places == 1 .. BatchSize
BatchScan == [out : [Places -> Cells], err : [Places -> {"OK", "PARSE"}],
              ref : {"UNSPEC", "INET", "INET6"}, failure : BOOLEAN, mismatch : BOOLEAN]

Alone(t) == AddrParse(t, NoAddr)
Verdict(t) == IF Alone(t).rc = "OK" THEN Alone(t).out ELSE NoAddr

LEMMA CellsAre ==
  /\ \A a : IsAddress(a) => a \in Cells
  /\ NoAddr \in Cells
  /\ \A a \in Cells : IsCell(a)
<1>1. ASSUME NEW a, IsAddress(a) PROVE a \in Cells
  <2>1. /\ a = [family |-> a.family, bytes |-> a.bytes] /\ a.family \in {"INET", "INET6"}
        /\ a.bytes \in [V4Bytes -> 0 .. 255] \cup [V6Bytes -> 0 .. 255]
    BY <1>1 DEF IsAddress, BytesOf
  <2> QED BY <2>1 DEF Cells
<1>2. NoAddr \in Cells
  BY DEF NoAddr, Cells
<1>3. \A a \in Cells : IsCell(a)
  BY DEF Cells, IsCell
<1> QED BY <1>1, <1>2, <1>3

\* What was in the struct does not matter.
LEMMA ParseAlone ==
  ASSUME NEW t \in Seq(Token), NEW o, IsCell(o)
  PROVE  /\ AddrParse(t, o).rc = Alone(t).rc /\ Alone(t).rc \in {"OK", "PARSE"}
         /\ Alone(t).rc = "OK" => AddrParse(t, o).out = Alone(t).out /\ IsAddress(Alone(t).out)
         /\ Alone(t).rc # "OK" => Alone(t).out.family = "UNSPEC"
<1>1. Parses(t, AddrParse(t, o))
  BY ParserIsGrammar
<1>2. Parses(t, Alone(t))
  BY NoAddrIsCell, ParserIsGrammar DEF Alone
<1> QED BY <1>1, <1>2 DEF Parses

ItemStored(acc, t, i) ==
  IF Alone(t).rc # "OK"
    THEN [out |-> [acc.out EXCEPT ![i] = NoAddr], err |-> [acc.err EXCEPT ![i] = "PARSE"],
          ref |-> acc.ref, failure |-> TRUE, mismatch |-> acc.mismatch]
  ELSE [out |-> [acc.out EXCEPT ![i] = Alone(t).out], err |-> [acc.err EXCEPT ![i] = "OK"],
        ref |-> IF acc.ref = "UNSPEC" THEN Alone(t).out.family ELSE acc.ref,
        failure |-> acc.failure,
        mismatch |-> acc.mismatch \/ acc.ref \notin {"UNSPEC", Alone(t).out.family}]

LEMMA ItemIs ==
  ASSUME NEW acc \in BatchScan, NEW t \in Seq(Token), NEW i \in Places
  PROVE  ParseItem(acc, t, i) = ItemStored(acc, t, i) /\ ItemStored(acc, t, i) \in BatchScan
<1>1. PICK r, a : r = AddrParse(t, acc.out[i]) /\ a = Alone(t)
  OBVIOUS
<1>2. acc = [out |-> acc.out, err |-> acc.err, ref |-> acc.ref, failure |-> acc.failure,
             mismatch |-> acc.mismatch]
      /\ acc.out \in [Places -> Cells] /\ acc.err \in [Places -> {"OK", "PARSE"}]
      /\ acc.ref \in {"UNSPEC", "INET", "INET6"} /\ acc.failure \in BOOLEAN
      /\ acc.mismatch \in BOOLEAN
  BY DEF BatchScan
<1>3. IsCell(acc.out[i])
  BY <1>2, CellsAre
<1>4. /\ r.rc = a.rc /\ a.rc \in {"OK", "PARSE"}
      /\ a.rc = "OK" => r.out = a.out /\ IsAddress(a.out)
  BY <1>1, <1>3, ParseAlone
<1>5. ParseItem(acc, t, i) =
        IF r.rc # "OK"
          THEN [acc EXCEPT !.out[i] = NoAddr, !.err[i] = "PARSE", !.failure = TRUE]
        ELSE [acc EXCEPT !.out[i] = r.out,
                         !.err[i] = "OK",
                         !.ref = IF @ = "UNSPEC" THEN r.out.family ELSE @,
                         !.mismatch = @ \/ acc.ref \notin {"UNSPEC", r.out.family}]
  BY <1>1 DEF ParseItem
<1>6. CASE a.rc # "OK"
  <2>1. ParseItem(acc, t, i) = [acc EXCEPT !.out[i] = NoAddr, !.err[i] = "PARSE", !.failure = TRUE]
    BY <1>4, <1>5, <1>6
  <2>2. ItemStored(acc, t, i) =
          [out |-> [acc.out EXCEPT ![i] = NoAddr], err |-> [acc.err EXCEPT ![i] = "PARSE"],
           ref |-> acc.ref, failure |-> TRUE, mismatch |-> acc.mismatch]
    BY <1>1, <1>6 DEF ItemStored
  <2>3. ParseItem(acc, t, i) = ItemStored(acc, t, i)
    BY <1>2, <2>1, <2>2
  <2>4. ItemStored(acc, t, i) \in BatchScan
    BY <1>2, <2>2, CellsAre DEF BatchScan
  <2> QED BY <2>3, <2>4
<1>7. CASE a.rc = "OK"
  <2>1. ParseItem(acc, t, i) =
          [acc EXCEPT !.out[i] = a.out,
                      !.err[i] = "OK",
                      !.ref = IF @ = "UNSPEC" THEN a.out.family ELSE @,
                      !.mismatch = @ \/ acc.ref \notin {"UNSPEC", a.out.family}]
    BY <1>4, <1>5, <1>7
  <2>2. ItemStored(acc, t, i) =
          [out |-> [acc.out EXCEPT ![i] = a.out], err |-> [acc.err EXCEPT ![i] = "OK"],
           ref |-> IF acc.ref = "UNSPEC" THEN a.out.family ELSE acc.ref,
           failure |-> acc.failure,
           mismatch |-> acc.mismatch \/ acc.ref \notin {"UNSPEC", a.out.family}]
    BY <1>1, <1>7 DEF ItemStored
  <2>3. ParseItem(acc, t, i) = ItemStored(acc, t, i)
    BY <1>2, <2>1, <2>2
  <2>4. ItemStored(acc, t, i) \in BatchScan
    <3>1. a.out \in Cells /\ a.out.family \in {"INET", "INET6"}
      BY <1>4, <1>7, CellsAre DEF IsAddress
    <3> QED BY <1>2, <2>2, <3>1 DEF BatchScan
  <2> QED BY <2>3, <2>4
<1> QED BY <1>4, <1>6, <1>7

\* The items among the first n that parse, with their families.
Parsed(ts, n) == {i \in 1 .. n : Alone(ts[i]).rc = "OK"}
FamilyAt(ts, i) == Alone(ts[i]).out.family

BatchSoFar(ts, n, acc) ==
  /\ acc \in BatchScan
  /\ \A i \in 1 .. n : acc.err[i] = Alone(ts[i]).rc /\ acc.out[i] = Verdict(ts[i])
  /\ acc.failure <=> Parsed(ts, n) # 1 .. n
  /\ acc.ref = "UNSPEC" <=> Parsed(ts, n) = {}
  /\ acc.ref # "UNSPEC" => \E i \in Parsed(ts, n) : FamilyAt(ts, i) = acc.ref
  /\ acc.mismatch <=> \E i, j \in Parsed(ts, n) : FamilyAt(ts, i) # FamilyAt(ts, j)

LEMMA BatchGrows ==
  ASSUME NEW ts, NEW n \in Places, NEW acc, BatchSoFar(ts, n - 1, acc), ts[n] \in Seq(Token)
  PROVE  BatchSoFar(ts, n, ItemStored(acc, ts[n], n))
<1>1. PICK m, t, a, s : /\ m = n - 1 /\ t = ts[n] /\ a = Alone(t) /\ s = ItemStored(acc, t, n)
  OBVIOUS
<1>2. m \in Nat /\ n = m + 1 /\ n \notin 1 .. m /\ \A i \in 1 .. n : i \in 1 .. m \/ i = n
  BY <1>1, CallsAssumption DEF Places
<1>3. /\ acc \in BatchScan
      /\ \A i \in 1 .. m : acc.err[i] = Alone(ts[i]).rc /\ acc.out[i] = Verdict(ts[i])
      /\ acc.failure <=> Parsed(ts, m) # 1 .. m
      /\ acc.ref = "UNSPEC" <=> Parsed(ts, m) = {}
      /\ acc.ref # "UNSPEC" => \E i \in Parsed(ts, m) : FamilyAt(ts, i) = acc.ref
      /\ acc.mismatch <=> \E i, j \in Parsed(ts, m) : FamilyAt(ts, i) # FamilyAt(ts, j)
  BY <1>1 DEF BatchSoFar
<1>4. /\ acc.out \in [Places -> Cells] /\ acc.err \in [Places -> {"OK", "PARSE"}]
      /\ acc.failure \in BOOLEAN /\ acc.mismatch \in BOOLEAN
  BY <1>3 DEF BatchScan
<1>5. s \in BatchScan
  BY <1>1, <1>3, ItemIs
<1>6. a.rc \in {"OK", "PARSE"} /\ (a.rc = "OK" => a.out.family \in {"INET", "INET6"})
  BY <1>1, NoAddrIsCell, ParseAlone DEF IsAddress
<1>7. 1 .. m \subseteq Places
  BY <1>1, CallsAssumption DEF Places
<1>8. Parsed(ts, m) \subseteq 1 .. m
  BY DEF Parsed
<1>9. CASE a.rc # "OK"
  <2>1. /\ s.out = [acc.out EXCEPT ![n] = NoAddr] /\ s.err = [acc.err EXCEPT ![n] = "PARSE"]
        /\ s.ref = acc.ref /\ s.failure = TRUE /\ s.mismatch = acc.mismatch
    BY <1>1, <1>9 DEF ItemStored
  <2>2. Parsed(ts, n) = Parsed(ts, m)
    BY <1>1, <1>2, <1>9 DEF Parsed
  <2>3. Parsed(ts, n) # 1 .. n
    <3>1. n \in 1 .. n
      BY <1>2
    <3> QED BY <1>2, <1>8, <2>2, <3>1
  <2>4. ASSUME NEW i \in 1 .. n PROVE s.err[i] = Alone(ts[i]).rc /\ s.out[i] = Verdict(ts[i])
    <3>1. CASE i = n
      BY <1>1, <1>4, <1>6, <1>9, <2>1, <3>1 DEF Verdict
    <3>2. CASE i \in 1 .. m
      BY <1>2, <1>3, <1>4, <1>7, <2>1, <3>2
    <3> QED BY <1>2, <3>1, <3>2
  <2> QED BY <1>1, <1>3, <1>5, <2>1, <2>2, <2>3, <2>4 DEF BatchSoFar
<1>10. CASE a.rc = "OK"
  <2>1. /\ s.out = [acc.out EXCEPT ![n] = a.out] /\ s.err = [acc.err EXCEPT ![n] = "OK"]
        /\ s.ref = IF acc.ref = "UNSPEC" THEN a.out.family ELSE acc.ref
        /\ s.failure = acc.failure
        /\ s.mismatch = (acc.mismatch \/ acc.ref \notin {"UNSPEC", a.out.family})
    BY <1>1, <1>10 DEF ItemStored
  <2>2. Parsed(ts, n) = Parsed(ts, m) \cup {n}
    BY <1>1, <1>2, <1>10 DEF Parsed
  <2>3. 1 .. n = (1 .. m) \cup {n}
    BY <1>2
  <2>4. Parsed(ts, n) # 1 .. n <=> Parsed(ts, m) # 1 .. m
    BY <1>2, <1>8, <2>2, <2>3
  <2>5. ASSUME NEW i \in 1 .. n PROVE s.err[i] = Alone(ts[i]).rc /\ s.out[i] = Verdict(ts[i])
    <3>1. CASE i = n
      BY <1>1, <1>4, <1>10, <2>1, <3>1 DEF Verdict
    <3>2. CASE i \in 1 .. m
      BY <1>2, <1>3, <1>4, <1>7, <2>1, <3>2
    <3> QED BY <1>2, <3>1, <3>2
  <2>6. FamilyAt(ts, n) = a.out.family /\ a.out.family # "UNSPEC"
    BY <1>1, <1>6, <1>10 DEF FamilyAt
  <2>7. s.ref # "UNSPEC" /\ Parsed(ts, n) # {}
    BY <2>1, <2>2, <2>6
  <2>8. \E i \in Parsed(ts, n) : FamilyAt(ts, i) = s.ref
    BY <1>3, <2>1, <2>2, <2>6
  <2>9. s.mismatch <=> \E i, j \in Parsed(ts, n) : FamilyAt(ts, i) # FamilyAt(ts, j)
    <3>1. ASSUME s.mismatch PROVE \E i, j \in Parsed(ts, n) : FamilyAt(ts, i) # FamilyAt(ts, j)
      <4>1. CASE acc.mismatch
        BY <1>3, <2>2, <4>1
      <4>2. CASE acc.ref \notin {"UNSPEC", a.out.family}
        <5>1. PICK i \in Parsed(ts, m) : FamilyAt(ts, i) = acc.ref
          BY <1>3, <4>2
        <5> QED BY <2>2, <2>6, <4>2, <5>1
      <4> QED BY <2>1, <3>1, <4>1, <4>2
    <3>2. ASSUME NEW i \in Parsed(ts, n), NEW j \in Parsed(ts, n),
                 FamilyAt(ts, i) # FamilyAt(ts, j), ~acc.mismatch
          PROVE  acc.ref \notin {"UNSPEC", a.out.family}
      <4>1. \A k, l \in Parsed(ts, m) : FamilyAt(ts, k) = FamilyAt(ts, l)
        BY <1>3, <3>2
      <4>2. PICK k \in Parsed(ts, m) : FamilyAt(ts, k) # FamilyAt(ts, n)
        BY <2>2, <3>2, <4>1
      <4>3. acc.ref # "UNSPEC"
        BY <1>3, <4>2
      <4>4. acc.ref = FamilyAt(ts, k)
        BY <1>3, <4>1, <4>2, <4>3
      <4> QED BY <2>6, <4>2, <4>3, <4>4
    <3> QED BY <2>1, <3>1, <3>2
  <2> QED BY <1>1, <1>3, <1>5, <2>1, <2>4, <2>5, <2>7, <2>8, <2>9 DEF BatchSoFar
<1> QED BY <1>9, <1>10

\* cidr_bulk_parse gives every item what cidr_addr_parse alone gives it, and
\* its own verdict follows from theirs.
BatchIs(ts, out, err, r) ==
  /\ r.out \in [Places -> Cells] /\ r.err \in [Places -> {"OK", "PARSE"}]
  /\ \A i \in 1 .. Len(ts) : r.err[i] = Alone(ts[i]).rc /\ r.out[i] = Verdict(ts[i])
  /\ r.rc = IF \E i, j \in Parsed(ts, Len(ts)) : FamilyAt(ts, i) # FamilyAt(ts, j) THEN "FAMILY"
            ELSE IF Parsed(ts, Len(ts)) # 1 .. Len(ts) THEN "PARSE" ELSE "OK"

LEMMA BulkParseIs ==
  ASSUME NEW ts \in Seq(Seq(Token)), Len(ts) <= BatchSize,
         NEW out \in [Places -> Cells], NEW err \in [Places -> {"OK", "PARSE"}]
  PROVE  BatchIs(ts, out, err, BulkParse(ts, out, err))
<1> DEFINE m == Len(ts)
           none == [out |-> out, err |-> err, ref |-> "UNSPEC", failure |-> FALSE,
                    mismatch |-> FALSE]
           step == [e \in (1 .. m) \X BatchScan |-> ParseItem(e[2], ts[e[1]], e[1])]
           IsIt(f) == f = [n \in 0 .. m |-> IF n = 0 THEN none ELSE ParseItem(f[n - 1], ts[n], n)]
           after == CHOOSE f : IsIt(f)
<1>1. /\ m \in Nat /\ none \in BatchScan
      /\ \A n \in 1 .. m : n \in Places /\ ts[n] \in Seq(Token)
  <2>4. m \in Nat /\ \A n \in 1 .. m : ts[n] \in Seq(Token)
    <3>1. ts \in Seq(Seq(Token))
      OBVIOUS
    <3> QED BY ONLY <3>1
  <2>1. m \in 0 .. BatchSize /\ BatchSize \in Nat
    <3>1. m <= BatchSize /\ BatchSize \in Nat
      BY CallsAssumption
    <3> HIDE DEF m
    <3> QED BY <2>4, <3>1
  <2>2. \A n \in 1 .. m : n \in Places
    <3> HIDE DEF m
    <3> QED BY <2>1 DEF Places
  <2>3. none \in BatchScan
    BY DEF BatchScan
  <2> QED BY <2>2, <2>3, <2>4
<1>2. IsStep(step, m, BatchScan)
  <2>1. ASSUME NEW n \in 1 .. m, NEW s \in BatchScan
        PROVE  ParseItem(s, ts[n], n) \in BatchScan
    BY <1>1, <2>1, ItemIs
  <2> HIDE DEF m
  <2> QED BY <2>1 DEF IsStep
<1>3. PICK f : S4!IsLoop(f, m, BatchScan, none, step)
  <2> HIDE DEF step, m, none
  <2> QED BY <1>1, <1>2, LoopResult
<1>4. IsIt(f)
  <2>1. /\ f \in [0 .. m -> BatchScan]
        /\ f[0] = none
        /\ \A n \in 1 .. m : f[n] = step[<<n, f[n - 1]>>]
    <3> HIDE DEF step, m, none
    <3> QED BY <1>3 DEF S4!IsLoop
  <2>2. \A n \in 1 .. m : f[n - 1] \in BatchScan
    <3>1. \A n \in 1 .. m : n - 1 \in 0 .. m
      BY <1>1
    <3> HIDE DEF step, m, none
    <3> QED BY <2>1, <3>1
  <2>3. \A n \in 1 .. m : f[n] = ParseItem(f[n - 1], ts[n], n)
    <3> HIDE DEF m, none
    <3> QED BY <2>1, <2>2
  <2>4. \A n \in 0 .. m : n = 0 \/ n \in 1 .. m
    BY <1>1
  <2> HIDE DEF step, m, none
  <2> QED BY <2>1, <2>3, <2>4
<1>5. IsIt(after)
  <2> HIDE DEF IsIt
  <2> QED BY <1>4
<1>6. BulkParse(ts, out, err) =
        [rc  |-> IF after[m].mismatch THEN "FAMILY" ELSE IF after[m].failure THEN "PARSE" ELSE "OK",
         out |-> after[m].out,
         err |-> after[m].err]
  BY DEF BulkParse
<1> HIDE DEF after
<1>7. after[0] = none /\ \A n \in 1 .. m : after[n] = ParseItem(after[n - 1], ts[n], n)
  <2>1. 0 \in 0 .. m /\ \A n \in 1 .. m : n \in 0 .. m /\ n # 0
    BY <1>1
  <2> HIDE DEF m, none
  <2> QED BY <1>5, <2>1
<1> HIDE DEF IsIt, step
<1> DEFINE S == {n \in 0 .. m : BatchSoFar(ts, n, after[n])}
<1>8. 0 \in S
  <2>1. BatchSoFar(ts, 0, none)
    <3>1. Parsed(ts, 0) = {} /\ 1 .. 0 = {}
      BY DEF Parsed
    <3>2. none.ref = "UNSPEC" /\ none.failure = FALSE /\ none.mismatch = FALSE
      OBVIOUS
    <3> HIDE DEF none
    <3> QED BY <1>1, <3>1, <3>2 DEF BatchSoFar
  <2> HIDE DEF m, none
  <2> QED BY <1>1, <1>7, <2>1
<1>9. ASSUME NEW n \in 1 .. m, n - 1 \in S PROVE n \in S
  <2>1. BatchSoFar(ts, n - 1, after[n - 1]) /\ n \in Places /\ ts[n] \in Seq(Token) /\ n \in 0 .. m
    BY <1>1, <1>9
  <2>2. after[n - 1] \in BatchScan
    BY <2>1 DEF BatchSoFar
  <2>3. after[n] = ItemStored(after[n - 1], ts[n], n)
    BY <1>7, <2>1, <2>2, ItemIs
  <2>4. BatchSoFar(ts, n, after[n])
    <3> HIDE DEF m
    <3> QED BY <2>1, <2>3, BatchGrows
  <2> QED BY <2>1, <2>4
<1>10. m \in S
  <2>1. m \in Nat
    BY <1>1
  <2>3. \A n \in 1 .. m : n - 1 \in S => n \in S
    BY <1>9
  <2> HIDE DEF S, m
  <2> QED BY ONLY <1>8, <2>3, <2>1, LastRound
<1>11. PICK s, r : s = after[m] /\ r = BulkParse(ts, out, err)
  OBVIOUS
<1>12. BatchSoFar(ts, m, s)
  BY <1>10, <1>11
<1>13. r.rc = (IF s.mismatch THEN "FAMILY" ELSE IF s.failure THEN "PARSE" ELSE "OK")
       /\ r.out = s.out /\ r.err = s.err
  BY <1>6, <1>11
<1>14. /\ s \in BatchScan
       /\ \A i \in 1 .. m : s.err[i] = Alone(ts[i]).rc /\ s.out[i] = Verdict(ts[i])
       /\ s.failure <=> Parsed(ts, m) # 1 .. m
       /\ s.mismatch <=> \E i, j \in Parsed(ts, m) : FamilyAt(ts, i) # FamilyAt(ts, j)
  BY <1>12 DEF BatchSoFar
<1>15. s.out \in [Places -> Cells] /\ s.err \in [Places -> {"OK", "PARSE"}]
  BY <1>14 DEF BatchScan
<1> HIDE DEF S
<1>16. r.rc = IF \E i, j \in Parsed(ts, m) : FamilyAt(ts, i) # FamilyAt(ts, j) THEN "FAMILY"
              ELSE IF Parsed(ts, m) # 1 .. m THEN "PARSE" ELSE "OK"
  <2> HIDE DEF m
  <2> QED BY <1>13, <1>14
<1> QED BY <1>11, <1>13, <1>14, <1>15, <1>16 DEF BatchIs

----------------------------------------------------------------------------
(* The inductive invariant of the caller in C: what its variables hold.    *)

TextsHold == text \in Seq(Token) /\ last.of \in Seq(Token)

\* Only before its first call can a caller edit its text or fill its struct.
CallsHold == left \in Int /\ left <= MaxCalls /\ (left = MaxCalls => last = NoCall)

StructsHold ==
  /\ IsCell(addr) /\ said = [addr |-> said.addr, pfx |-> said.pfx]
  /\ addr.family # "UNSPEC" => IsAddress(addr) /\ addr = said.addr
  /\ pfx = said.pfx
  /\ pfx = NoPrefix \/ IsNet(pfx)

ArraysHold == outs \in [Places -> Cells] /\ errs \in [Places -> {"OK", "PARSE"}]

CallerHolds == TextsHold /\ CallsHold /\ StructsHold /\ ArraysHold

LEMMA NoPrefixIs == NoPrefix.addr.family = "UNSPEC" /\ NoAddr.family = "UNSPEC"
BY DEF NoPrefix, NoAddr

LEMMA CallerStarts == CInit => CallerHolds
<1> SUFFICES ASSUME CInit PROVE CallerHolds
  OBVIOUS
<1> USE DEF CInit
<1>1. <<>> \in Seq(Token)
  OBVIOUS
<1>2. TextsHold
  <2>1. text \in Seq(Token)
    BY CallsAssumption
  <2>2. last.of = <<>>
    BY DEF NoCall
  <2> QED BY <1>1, <2>1, <2>2 DEF TextsHold
<1>3. CallsHold
  BY CallsAssumption DEF CallsHold
<1>4. StructsHold
  BY NoAddrIsCell, NoPrefixIs DEF StructsHold
<1>5. ArraysHold
  <2>1. [family |-> "INET6", bytes |-> [k \in V6Bytes |-> 255]] \in Cells
    BY DEF Cells
  <2>2. outs \in [Places -> Cells]
    BY <2>1 DEF Places
  <2> QED BY <2>2 DEF ArraysHold, Places
<1> QED BY <1>2, <1>3, <1>4, <1>5 DEF CallerHolds

LEMMA EditsAreTexts ==
  ASSUME NEW t \in Seq(Token), NEW u \in Edits(t)
  PROVE  u \in Seq(Token)
<1>1. Tokens \subseteq Token /\ Len(t) \in Nat /\ DOMAIN t = 1 .. Len(t)
  BY CallsAssumption, TextIs
<1>2. \/ \E p \in 0 .. Len(t), x \in Tokens :
           u = SubSeq(t, 1, p) \o <<x>> \o SubSeq(t, p + 1, Len(t))
      \/ \E p \in DOMAIN t, x \in Tokens : u = [t EXCEPT ![p] = x]
      \/ \E p \in DOMAIN t : u = Before(t, p) \o After(t, p)
  <2> DEFINE inserted(p, x) == SubSeq(t, 1, p) \o <<x>> \o SubSeq(t, p + 1, Len(t))
             deleted(p) == Before(t, p) \o After(t, p)
             A == {inserted(p, x) : p \in 0 .. Len(t), x \in Tokens}
             B == {[t EXCEPT ![p] = x] : p \in DOMAIN t, x \in Tokens}
             C == {deleted(p) : p \in DOMAIN t}
  <2>2. Edits(t) = {v \in A \cup B \cup C : IsText(v)}
    BY DEF Edits
  <2>3. u \in A \/ u \in B \/ u \in C
    <3> HIDE DEF A, B, C
    <3> QED BY <2>2
  <2>4. u \in A => \E p \in 0 .. Len(t), x \in Tokens :
                      u = inserted(p, x)
    <3> HIDE DEF inserted
    <3> QED OBVIOUS
  <2>5. u \in B => \E p \in DOMAIN t, x \in Tokens : u = [t EXCEPT ![p] = x]
    OBVIOUS
  <2>6. u \in C => \E p \in DOMAIN t : u = deleted(p)
    OBVIOUS
  <2> HIDE DEF A, B, C
  <2> QED BY <2>3, <2>4, <2>5, <2>6, Zenon
<1>3. ASSUME NEW p \in 0 .. Len(t), NEW x \in Tokens,
             u = SubSeq(t, 1, p) \o <<x>> \o SubSeq(t, p + 1, Len(t))
      PROVE  u \in Seq(Token)
  <2>1. PICK a, b, c : a = SubSeq(t, 1, p) /\ b = <<x>> /\ c = SubSeq(t, p + 1, Len(t))
    OBVIOUS
  <2>2. a \in Seq(Token) /\ b \in Seq(Token) /\ c \in Seq(Token)
    BY <1>1, <2>1
  <2>3. a \o b \in Seq(Token)
    BY ONLY <2>2
  <2>4. (a \o b) \o c \in Seq(Token)
    BY ONLY <2>2, <2>3
  <2> QED BY <1>3, <2>1, <2>4
<1>4. ASSUME NEW p \in DOMAIN t, NEW x \in Tokens, u = [t EXCEPT ![p] = x]
      PROVE  u \in Seq(Token)
  <2>1. x \in Token
    BY <1>1
  <2>2. t \in [1 .. Len(t) -> Token]
    OBVIOUS
  <2>3. u \in [1 .. Len(t) -> Token]
    BY <1>4, <2>1, <2>2
  <2> QED BY <1>1, <2>3
<1>5. ASSUME NEW p \in DOMAIN t, u = Before(t, p) \o After(t, p)
      PROVE  u \in Seq(Token)
  <2>1. PICK a, b : a = Before(t, p) /\ b = After(t, p)
    OBVIOUS
  <2>2. a \in Seq(Token) /\ b \in Seq(Token)
    BY <1>1, <2>1, PartsAre
  <2>3. a \o b \in Seq(Token)
    BY ONLY <2>2
  <2> QED BY <1>5, <2>1, <2>3
<1> QED BY <1>2, <1>3, <1>4, <1>5

LEMMA CalledHolds ==
  ASSUME TextsHold, CallsHold, NEW call, NEW rc, NEW t \in Seq(Token), Called(call, rc, t)
  PROVE  /\ TextsHold' /\ CallsHold' /\ last' = [call |-> call, of |-> text, rc |-> rc]
         /\ text' = t
<1>1. left' = left - 1 /\ last' = [call |-> call, of |-> text, rc |-> rc] /\ text' = t
  BY DEF Called
<1>2. TextsHold'
  BY <1>1 DEF TextsHold
<1>3. CallsHold'
  BY <1>1, CallsAssumption DEF CallsHold
<1> QED BY <1>1, <1>2, <1>3

\* Steps on the text alone, and what the caller writes before its first call.
LEMMA EditHolds ==
  ASSUME CallerHolds, Edit
  PROVE  CallerHolds' /\ UNCHANGED <<cVars, last, caller, batchVars>>
<1>1. /\ left = MaxCalls /\ text' \in Edits(text) /\ left' = 1
      /\ UNCHANGED <<caller, cVars, last, batchVars>>
  BY DEF Edit
<1>2. TextsHold'
  <2>1. text \in Seq(Token) /\ last.of \in Seq(Token)
    BY DEF CallerHolds, TextsHold
  <2>2. text' \in Seq(Token)
    BY <1>1, <2>1, EditsAreTexts
  <2> QED BY <1>1, <2>1, <2>2 DEF TextsHold
<1>3. CallsHold'
  BY <1>1, CallsAssumption DEF CallerHolds, CallsHold
<1>4. StructsHold' /\ ArraysHold'
  BY <1>1 DEF CallerHolds, StructsHold, ArraysHold, cVars, batchVars
<1> QED BY <1>1, <1>2, <1>3, <1>4 DEF CallerHolds

LEMMA NextTextHolds ==
  ASSUME CallerHolds, NextText
  PROVE  CallerHolds' /\ UNCHANGED <<cVars, last, caller, batchVars>>
<1>1. text' \in Mates /\ UNCHANGED <<caller, left, cVars, last, batchVars>>
  BY DEF NextText
<1>2. TextsHold'
  <2>1. text' \in Seq(Token)
    BY <1>1, CallsAssumption
  <2> QED BY <1>1, <2>1 DEF CallerHolds, TextsHold
<1>3. CallsHold'
  BY <1>1 DEF CallerHolds, CallsHold
<1>4. StructsHold' /\ ArraysHold'
  BY <1>1 DEF CallerHolds, StructsHold, ArraysHold, cVars, batchVars
<1> QED BY <1>1, <1>2, <1>3, <1>4 DEF CallerHolds

LEMMA FillAddrHolds ==
  ASSUME CallerHolds, NEW a \in Fills, FillAddr(a)
  PROVE  /\ CallerHolds' /\ last = NoCall
         /\ UNCHANGED <<last, caller, batchVars, pfx, class>>
<1>1. /\ left = MaxCalls /\ left' = 1 /\ addr' = a /\ said' = [said EXCEPT !.addr = a]
      /\ UNCHANGED <<caller, text, pfx, class, last, batchVars>>
  BY DEF FillAddr
<1>2. TextsHold' /\ ArraysHold'
  BY <1>1 DEF CallerHolds, TextsHold, ArraysHold, batchVars
<1>3. CallsHold' /\ last = NoCall
  BY <1>1, CallsAssumption DEF CallerHolds, CallsHold
<1>4. StructsHold'
  <2>1. IsAddress(a) /\ IsCell(a)
    BY CallsAssumption, CellOfAddress
  <2>2. said = [addr |-> said.addr, pfx |-> said.pfx]
    BY DEF CallerHolds, StructsHold
  <2>3. said' = [addr |-> a, pfx |-> said.pfx]
    BY <1>1, <2>2
  <2> QED BY <1>1, <2>1, <2>3 DEF CallerHolds, StructsHold
<1> QED BY <1>1, <1>2, <1>3, <1>4 DEF CallerHolds

LEMMA AddrParseHolds ==
  ASSUME CallerHolds, CallAddrParse
  PROVE  /\ CallerHolds'
         /\ last' = [call |-> "addr_parse", of |-> text, rc |-> AddrParse(text, addr).rc]
         /\ Parses(text, [rc |-> last'.rc, out |-> addr'])
<1>1. PICK r : r = AddrParse(text, addr)
  OBVIOUS
<1>2. /\ Called("addr_parse", r.rc, text) /\ addr' = r.out
      /\ said' = IF r.rc = "OK" THEN [said EXCEPT !.addr = r.out] ELSE said
      /\ UNCHANGED <<pfx, class, batchVars>>
  BY <1>1 DEF CallAddrParse
<1>3. text \in Seq(Token) /\ IsCell(addr)
  BY DEF CallerHolds, TextsHold, StructsHold
<1>4. /\ TextsHold' /\ CallsHold' /\ last' = [call |-> "addr_parse", of |-> text, rc |-> r.rc]
  BY <1>2, <1>3, CalledHolds DEF CallerHolds
<1>5. ArraysHold'
  BY <1>2 DEF CallerHolds, ArraysHold, batchVars
<1>6. Parses(text, r)
  BY <1>1, <1>3, ParserIsGrammar
<1>7. StructsHold'
  <2>1. said = [addr |-> said.addr, pfx |-> said.pfx]
    BY DEF CallerHolds, StructsHold
  <2>2. CASE r.rc = "OK"
    <3>1. IsAddress(r.out) /\ IsCell(r.out)
      BY <1>6, <2>2, CellOfAddress DEF Parses
    <3>2. said' = [addr |-> r.out, pfx |-> said.pfx]
      BY <1>2, <2>1, <2>2
    <3> QED BY <1>2, <3>1, <3>2 DEF CallerHolds, StructsHold
  <2>3. CASE r.rc # "OK"
    <3>1. IsCell(r.out) /\ r.out.family = "UNSPEC"
      BY <1>6, <2>3 DEF Parses
    <3> QED BY <1>2, <2>1, <2>3, <3>1 DEF CallerHolds, StructsHold
  <2> QED BY <2>2, <2>3
<1>8. Parses(text, [rc |-> last'.rc, out |-> addr'])
  BY <1>2, <1>4, <1>6 DEF Parses
<1> QED BY <1>1, <1>4, <1>5, <1>7, <1>8 DEF CallerHolds

LEMMA PrefixParseHolds ==
  ASSUME CallerHolds, CallPrefixParse
  PROVE  /\ CallerHolds'
         /\ last' = [call |-> "prefix_parse", of |-> text, rc |-> PrefixParse(text, pfx).rc]
         /\ ParsesNet(text, LastPos(text, "/"), Before(text, LastPos(text, "/")),
                      [rc |-> last'.rc, out |-> pfx'], pfx)
<1>1. PICK r : r = PrefixParse(text, pfx)
  OBVIOUS
<1>2. /\ Called("prefix_parse", r.rc, text) /\ pfx' = r.out
      /\ said' = IF r.rc = "OK" THEN [said EXCEPT !.pfx = r.out] ELSE said
      /\ UNCHANGED <<addr, class, batchVars>>
  BY <1>1 DEF CallPrefixParse
<1>3. text \in Seq(Token)
  BY DEF CallerHolds, TextsHold
<1>4. /\ TextsHold' /\ CallsHold' /\ last' = [call |-> "prefix_parse", of |-> text, rc |-> r.rc]
  BY <1>2, <1>3, CalledHolds DEF CallerHolds
<1>5. ArraysHold'
  BY <1>2 DEF CallerHolds, ArraysHold, batchVars
<1>6. PICK slash, host : slash = LastPos(text, "/") /\ host = Before(text, LastPos(text, "/"))
  OBVIOUS
<1>7. ParsesNet(text, slash, host, r, pfx)
  BY <1>1, <1>3, <1>6, PrefixParserIsGrammar
<1>8. StructsHold'
  <2>1. said = [addr |-> said.addr, pfx |-> said.pfx]
    BY DEF CallerHolds, StructsHold
  <2>2. CASE r.rc = "OK"
    <3>1. IsNet(r.out)
      BY <1>7, <2>2 DEF ParsesNet
    <3>2. said' = [addr |-> said.addr, pfx |-> r.out]
      BY <1>2, <2>1, <2>2
    <3> QED BY <1>2, <3>1, <3>2 DEF CallerHolds, StructsHold
  <2>3. CASE r.rc # "OK"
    <3>1. r.out = pfx
      BY <1>7, <2>3 DEF ParsesNet
    <3> QED BY <1>2, <2>1, <2>3, <3>1 DEF CallerHolds, StructsHold
  <2> QED BY <2>2, <2>3
<1>9. ParsesNet(text, slash, host, [rc |-> last'.rc, out |-> pfx'], pfx)
  BY <1>2, <1>4, <1>7 DEF ParsesNet
<1> QED BY <1>1, <1>4, <1>5, <1>6, <1>8, <1>9 DEF CallerHolds

LEMMA AddrFormatHolds ==
  ASSUME CallerHolds, CallAddrFormat
  PROVE  CallerHolds' /\ last'.call = "addr_format"
<1>1. PICK r, t : r = AddrFormat(addr) /\ t = IF r.rc = "OK" THEN r.text ELSE text
  OBVIOUS
<1>2. Called("addr_format", r.rc, t) /\ UNCHANGED <<cVars, batchVars>>
  BY <1>1 DEF CallAddrFormat
<1>3. t \in Seq(Token)
  <2>1. CASE addr.family = "UNSPEC"
    <3>1. r.rc = "INVAL"
      BY <1>1, <2>1 DEF AddrFormat
    <3> QED BY <1>1, <3>1 DEF CallerHolds, TextsHold
  <2>2. CASE addr.family # "UNSPEC"
    <3>1. IsAddress(addr)
      BY <2>2 DEF CallerHolds, StructsHold
    <3> QED BY <1>1, <3>1, AddrNamed DEF Names
  <2> QED BY <2>1, <2>2
<1>4. TextsHold' /\ CallsHold' /\ last' = [call |-> "addr_format", of |-> text, rc |-> r.rc]
  BY <1>2, <1>3, CalledHolds DEF CallerHolds
<1>5. StructsHold' /\ ArraysHold'
  BY <1>2 DEF CallerHolds, StructsHold, ArraysHold, cVars, batchVars
<1> QED BY <1>4, <1>5 DEF CallerHolds

LEMMA PrefixFormatHolds ==
  ASSUME CallerHolds, CallPrefixFormat
  PROVE  CallerHolds' /\ last'.call = "prefix_format"
<1>1. PICK r, t : r = PrefixFormat(pfx) /\ t = IF r.rc = "OK" THEN r.text ELSE text
  OBVIOUS
<1>2. Called("prefix_format", r.rc, t) /\ UNCHANGED <<cVars, batchVars>>
  BY <1>1 DEF CallPrefixFormat
<1>3. t \in Seq(Token)
  <2>1. CASE pfx = NoPrefix
    <3>1. AddrFormat(pfx.addr).rc = "INVAL"
      BY <2>1, NoPrefixIs DEF AddrFormat
    <3>2. r.rc = "INVAL"
      BY <1>1, <3>1 DEF PrefixFormat
    <3> QED BY <1>1, <3>2 DEF CallerHolds, TextsHold
  <2>2. CASE IsNet(pfx)
    BY <1>1, <2>2, PrefixNamed DEF NamesNet
  <2> QED BY <2>1, <2>2 DEF CallerHolds, StructsHold
<1>4. TextsHold' /\ CallsHold' /\ last' = [call |-> "prefix_format", of |-> text, rc |-> r.rc]
  BY <1>2, <1>3, CalledHolds DEF CallerHolds
<1>5. StructsHold' /\ ArraysHold'
  BY <1>2 DEF CallerHolds, StructsHold, ArraysHold, cVars, batchVars
<1> QED BY <1>4, <1>5 DEF CallerHolds

\* The address behind ::ffff:0:0/96, or none.
LEMMA ToV4Is ==
  ASSUME NEW a, IsAddress(a), NEW out
  PROVE  \/ AddrToV4(a, out) = [rc |-> "FAMILY", out |-> out]
         \/ /\ AddrToV4(a, out).rc = "OK" /\ IsAddress(AddrToV4(a, out).out)
            /\ AddrToV4(a, out).out.family = "INET"
<1>1. CASE a.family = "INET" \/ ~MappedPrefix(a.bytes)
  BY <1>1 DEF AddrToV4, IsAddress
<1>2. CASE ~(a.family = "INET" \/ ~MappedPrefix(a.bytes))
  <2>1. a.family = "INET6" /\ a.bytes \in [V6Bytes -> 0 .. 255]
    BY <1>2 DEF IsAddress, BytesOf
  <2>2. PICK b : b = [k \in V4Bytes |-> a.bytes[k + 12]]
    OBVIOUS
  <2>3. b \in [V4Bytes -> 0 .. 255]
    <3>1. \A k \in V4Bytes : k + 12 \in V6Bytes
      BY DEF V4Bytes, V6Bytes
    <3> QED BY <2>1, <2>2, <3>1
  <2>4. AddrToV4(a, out) = [rc |-> "OK", out |-> [family |-> "INET", bytes |-> b]]
    BY <1>2, <2>1, <2>2 DEF AddrToV4
  <2>5. IsAddress([family |-> "INET", bytes |-> b])
    BY <2>3 DEF IsAddress, BytesOf
  <2> QED BY <2>4, <2>5
<1> QED BY <1>1, <1>2

LEMMA ToV4Holds ==
  ASSUME CallerHolds, CallToV4
  PROVE  CallerHolds' /\ last'.call = "to_v4"
<1>1. PICK r : r = AddrToV4(addr, addr)
  OBVIOUS
<1>2. /\ Called("to_v4", r.rc, text) /\ addr' = r.out /\ said' = [said EXCEPT !.addr = r.out]
      /\ UNCHANGED <<pfx, class, batchVars>>
  BY <1>1 DEF CallToV4
<1>3. TextsHold' /\ CallsHold' /\ last' = [call |-> "to_v4", of |-> text, rc |-> r.rc]
  BY <1>2, CalledHolds DEF CallerHolds, TextsHold
<1>4. ArraysHold'
  BY <1>2 DEF CallerHolds, ArraysHold, batchVars
<1>5. IsCell(r.out) /\ (r.out.family # "UNSPEC" => IsAddress(r.out))
  <2>1. CASE addr.family = "UNSPEC"
    <3>1. r.out = addr
      BY <1>1, <2>1 DEF AddrToV4
    <3> QED BY <2>1, <3>1 DEF CallerHolds, StructsHold
  <2>2. CASE addr.family # "UNSPEC"
    <3>1. IsAddress(addr)
      BY <2>2 DEF CallerHolds, StructsHold
    <3>2. IsAddress(r.out)
      BY <1>1, <3>1, ToV4Is
    <3> QED BY <3>2, CellOfAddress
  <2> QED BY <2>1, <2>2
<1>6. StructsHold'
  <2>1. said = [addr |-> said.addr, pfx |-> said.pfx]
    BY DEF CallerHolds, StructsHold
  <2>2. said' = [addr |-> r.out, pfx |-> said.pfx]
    BY <1>2, <2>1
  <2> QED BY <1>2, <1>5, <2>2 DEF CallerHolds, StructsHold
<1> QED BY <1>3, <1>4, <1>6 DEF CallerHolds

LEMMA ClassifyHolds ==
  ASSUME CallerHolds, CallClassify
  PROVE  /\ CallerHolds' /\ UNCHANGED addr
         /\ last' = [call |-> "classify", of |-> text, rc |-> AddrClassify(addr, class).rc]
         /\ class' = AddrClassify(addr, class).out
<1>1. PICK r : r = AddrClassify(addr, class)
  OBVIOUS
<1>2. /\ Called("classify", r.rc, text) /\ class' = r.out
      /\ UNCHANGED <<addr, pfx, said, batchVars>>
  BY <1>1 DEF CallClassify
<1>3. TextsHold' /\ CallsHold' /\ last' = [call |-> "classify", of |-> text, rc |-> r.rc]
  BY <1>2, CalledHolds DEF CallerHolds, TextsHold
<1>4. StructsHold' /\ ArraysHold'
  BY <1>2 DEF CallerHolds, StructsHold, ArraysHold, batchVars
<1> QED BY <1>1, <1>2, <1>3, <1>4 DEF CallerHolds

LEMMA FromHostHolds ==
  ASSUME CallerHolds, NEW n \in HostLengths, CallFromHost(n)
  PROVE  CallerHolds' /\ last'.call = "from_host"
<1>1. PICK r : r = FromHost(addr, n, pfx)
  OBVIOUS
<1>2. /\ Called("from_host", r.rc, text) /\ pfx' = r.out /\ said' = [said EXCEPT !.pfx = r.out]
      /\ UNCHANGED <<addr, class, batchVars>>
  BY <1>1 DEF CallFromHost
<1>3. TextsHold' /\ CallsHold' /\ last' = [call |-> "from_host", of |-> text, rc |-> r.rc]
  BY <1>2, CalledHolds DEF CallerHolds, TextsHold
<1>4. ArraysHold'
  BY <1>2 DEF CallerHolds, ArraysHold, batchVars
<1>5. r.out = pfx \/ IsNet(r.out)
  <2>1. CASE addr.family = "UNSPEC"
    BY <1>1, <2>1 DEF FromHost
  <2>2. CASE addr.family # "UNSPEC"
    <3>1. IsAddress(addr)
      BY <2>2 DEF CallerHolds, StructsHold
    <3>2. n \in Nat /\ n \in Int /\ MaxLen(addr.family) \in Nat
      BY CallsAssumption DEF MaxLen
    <3>3. CASE n \in 0 .. MaxLen(addr.family)
      <4>1. IsNet(FromHost(addr, n, pfx).out)
        BY ONLY <3>1, <3>2, <3>3, FromHostIs
      <4> QED BY <1>1, <4>1
    <3>4. CASE n > MaxLen(addr.family)
      BY <1>1, <2>2, <3>4 DEF FromHost
    <3>5. n \in 0 .. MaxLen(addr.family) \/ n > MaxLen(addr.family)
      BY ONLY <3>2
    <3> QED BY ONLY <3>3, <3>4, <3>5
  <2> QED BY <2>1, <2>2
<1>6. StructsHold'
  <2>1. said = [addr |-> said.addr, pfx |-> said.pfx]
    BY DEF CallerHolds, StructsHold
  <2>2. said' = [addr |-> said.addr, pfx |-> r.out]
    BY <1>2, <2>1
  <2> QED BY <1>2, <1>5, <2>2 DEF CallerHolds, StructsHold
<1> QED BY <1>3, <1>4, <1>6 DEF CallerHolds

LEMMA BulkParseHolds ==
  ASSUME CallerHolds, CallBulkParse
  PROVE  /\ CallerHolds' /\ last'.call = "bulk_parse" /\ srcs' \in Seq(Seq(Token))
         /\ BatchIs(srcs', outs, errs, [rc |-> last'.rc, out |-> outs', err |-> errs'])
<1>1. PICK r : r = BulkParse(srcs', outs, errs)
  OBVIOUS
<1>2. /\ srcs' \in {<<>>} \cup {b[1] \o <<text>> \o b[2] : b \in Around}
      /\ Called("bulk_parse", r.rc, text) /\ outs' = r.out /\ errs' = r.err
      /\ UNCHANGED cVars
  BY <1>1 DEF CallBulkParse
<1>3. TextsHold' /\ CallsHold' /\ last' = [call |-> "bulk_parse", of |-> text, rc |-> r.rc]
  BY <1>2, CalledHolds DEF CallerHolds, TextsHold
<1>4. StructsHold'
  BY <1>2 DEF CallerHolds, StructsHold, cVars
<1>5. PICK ts : ts = srcs'
  OBVIOUS
<1>6. ts \in Seq(Seq(Token)) /\ Len(ts) <= BatchSize
  <2>1. text \in Seq(Token) /\ BatchSize \in Nat
    BY CallsAssumption DEF CallerHolds, TextsHold
  <2>2. CASE ts = <<>>
    <3>1. ts \in Seq(Seq(Token)) /\ Len(ts) = 0
      BY ONLY <2>2
    <3> QED BY ONLY <2>1, <3>1
  <2>3. CASE \E b \in Around : ts = b[1] \o <<text>> \o b[2]
    <3>1. PICK b \in Around : ts = b[1] \o <<text>> \o b[2]
      BY <2>3
    <3>2. b \in Seq(Seq(Token)) \X Seq(Seq(Token)) /\ Len(b[1]) + Len(b[2]) < BatchSize
      BY CallsAssumption
    <3>3. PICK S : S = Seq(Token)
      OBVIOUS
    <3>4. PICK c, d, e : c = b[1] /\ d = <<text>> /\ e = b[2]
      OBVIOUS
    <3>5. c \in Seq(S) /\ d \in Seq(S) /\ e \in Seq(S) /\ Len(d) = 1
      BY ONLY <2>1, <3>2, <3>3, <3>4
    <3>6. PICK x : x = c \o d
      OBVIOUS
    <3>7. x \in Seq(S) /\ Len(x) = Len(c) + 1
      <4>1. c \in Seq(S) /\ d \in Seq(S)
        BY ONLY <3>5
      <4>2. c \o d \in Seq(S) /\ Len(c \o d) = Len(c) + Len(d)
        BY ONLY <4>1, ConcatProperties
      <4> QED BY ONLY <3>5, <3>6, <4>2
    <3>8. Len(c) \in Nat /\ Len(e) \in Nat /\ Len(c) + Len(e) < BatchSize
      BY ONLY <3>2, <3>4, <3>5
    <3>9. ts = x \o e
      BY ONLY <3>1, <3>4, <3>6
    <3>10. ts \in Seq(S) /\ Len(ts) = Len(x) + Len(e)
      <4>1. x \in Seq(S) /\ e \in Seq(S)
        BY ONLY <3>5, <3>7
      <4>2. x \o e \in Seq(S) /\ Len(x \o e) = Len(x) + Len(e)
        BY ONLY <4>1, ConcatProperties
      <4> QED BY ONLY <3>9, <4>2
    <3> QED BY ONLY <2>1, <3>3, <3>7, <3>8, <3>10
  <2> QED BY <1>2, <1>5, <2>2, <2>3
<1>7. BatchIs(ts, outs, errs, r)
  BY <1>1, <1>5, <1>6, BulkParseIs DEF CallerHolds, ArraysHold
<1>8. ArraysHold'
  BY <1>2, <1>7 DEF ArraysHold, BatchIs
<1>9. BatchIs(ts, outs, errs, [rc |-> last'.rc, out |-> outs', err |-> errs'])
  BY <1>2, <1>3, <1>7 DEF BatchIs
<1> QED BY <1>3, <1>4, <1>5, <1>6, <1>8, <1>9 DEF CallerHolds

----------------------------------------------------------------------------
(* The objects of the Python types.                                        *)

IsObject(o) == \/ o = None
               \/ \E a : IsAddress(a) /\ o = AddressOf(a)
               \/ \E p : IsNet(p) /\ o = NetworkOf(p)

LEMMA FamilyIs ==
  ASSUME NEW f \in {"INET", "INET6"}
  PROVE  /\ AddressType(f) \in AddressTypes /\ AddressType(f) \notin NetworkTypes
         /\ NetworkType(f) \in NetworkTypes /\ NetworkType(f) \notin AddressTypes
         /\ None.type \notin AddressTypes /\ None.type \notin NetworkTypes
BY DEF AddressType, NetworkType, AddressTypes, NetworkTypes, None

LEMMA NetFamily ==
  ASSUME NEW p, IsNet(p)
  PROVE  p.addr.family \in {"INET", "INET6"}
BY DEF IsNet, IsAddress

LEMMA ObjectIs ==
  ASSUME NEW o, IsObject(o)
  PROVE  /\ o.type \in AddressTypes => IsAddress(o.addr) /\ o = AddressOf(o.addr)
         /\ o.type \in NetworkTypes => IsNet(o.prefix) /\ o = NetworkOf(o.prefix)
         /\ o # None => o.type \in AddressTypes \/ o.type \in NetworkTypes
<1>1. CASE o = None
  BY <1>1 DEF None, AddressTypes, NetworkTypes
<1>2. ASSUME NEW a, IsAddress(a), o = AddressOf(a)
      PROVE  o.addr = a /\ o.type \in AddressTypes /\ o.type \notin NetworkTypes
  <2>1. a.family \in {"INET", "INET6"}
    BY <1>2 DEF IsAddress
  <2> QED BY <1>2, <2>1, FamilyIs DEF AddressOf
<1>3. ASSUME NEW p, IsNet(p), o = NetworkOf(p)
      PROVE  o.prefix = p /\ o.type \in NetworkTypes /\ o.type \notin AddressTypes
  <2>1. p.addr.family \in {"INET", "INET6"}
    BY <1>3, NetFamily
  <2> QED BY <1>3, <2>1, FamilyIs DEF NetworkOf
<1> QED BY <1>1, <1>2, <1>3 DEF IsObject

LEMMA AddressIsObject ==
  ASSUME NEW a, IsAddress(a)
  PROVE  IsObject(AddressOf(a))
BY DEF IsObject

LEMMA NetworkIsObject ==
  ASSUME NEW p, IsNet(p)
  PROVE  IsObject(NetworkOf(p))
BY DEF IsObject

\* The bytes of an address are those of its family alone.
LEMMA WidthsDiffer ==
  ASSUME NEW a, IsAddress(a), NEW f \in {"INET", "INET6"}, DOMAIN a.bytes = BytesOf(f)
  PROVE  a = [family |-> f, bytes |-> a.bytes] /\ a.family = f
<1>1. DOMAIN a.bytes = BytesOf(a.family) /\ a.family \in {"INET", "INET6"}
  BY DEF IsAddress
<1>2. 15 \in V6Bytes /\ 15 \notin V4Bytes
  BY DEF V4Bytes, V6Bytes
<1>3. a.family = f
  BY <1>1, <1>2 DEF BytesOf
<1> QED BY <1>3 DEF IsAddress

----------------------------------------------------------------------------
(* The constructors: a value of the family, or an exception.               *)

GivesAddress(r, f) == Succeeds(r) => IsAddress(r.val) /\ r.val.family = f
GivesNetwork(r, f) == Succeeds(r) => IsNet(r.val) /\ r.val.addr.family = f

LEMMA ErrorIs ==
  ASSUME NEW rc \in {"INVAL", "PARSE", "HOSTBITS", "PFXLEN", "FAMILY", "OVERFLOW"}
  PROVE  ErrorOf(rc) # "none"
BY DEF ErrorOf

LEMMA RaisedFails ==
  ASSUME NEW e, e # "none"
  PROVE  ~Succeeds(Raised(e))
BY DEF Succeeds, Raised

LEMMA ReturnedSucceeds ==
  ASSUME NEW v
  PROVE  Succeeds(Returned(v)) /\ Returned(v).val = v
BY DEF Succeeds, Returned

LEMMA CStringIs ==
  ASSUME NEW t \in Seq(Token)
  PROVE  CString(t) \in Seq(Token)
<1>1. CASE LastPos(t, "nul") = 0
  BY <1>1 DEF CString
<1>2. CASE LastPos(t, "nul") # 0
  <2>1. PICK I : I = {i \in 1 .. Len(t) : t[i].c = "nul"}
    OBVIOUS
  <2>2. LastPos(t, "nul") \in I
    BY <1>2, <2>1, LastPosIs
  <2>3. Min(I) \in 1 .. Len(t)
    <3>1. I \subseteq Nat /\ I # {} /\ Len(t) \in Nat
      BY <2>1, <2>2
    <3> QED BY <2>1, <3>1, LeastIsMin
  <2>4. CString(t) = Before(t, Min(I))
    BY <1>2, <2>1, <2>2 DEF CString, SelectInSeq
  <2> QED BY <2>3, <2>4, PartsAre
<1> QED BY <1>1, <1>2

LEMMA OfFamilyIs ==
  ASSUME NEW a, IsAddress(a), NEW f
  PROVE  GivesAddress(OfFamily(a, f), f)
BY DEF OfFamily, GivesAddress, Succeeds, Returned, Raised

LEMMA StringIs ==
  ASSUME NEW t \in Seq(Token), NEW f
  PROVE  GivesAddress(StringToAddr(t, f), f)
<1>1. PICK r : r = AddrParse(CString(t), NoAddr)
  OBVIOUS
<1>2. Parses(CString(t), r)
  BY <1>1, CStringIs, ParserIsGrammar, NoAddrIsCell
<1>3. CASE ~Encodable(t)
  BY <1>3 DEF StringToAddr, GivesAddress, Succeeds, Raised
<1>4. CASE Encodable(t) /\ r.rc # "OK"
  <2>1. StringToAddr(t, f) = Raised(ErrorOf("PARSE"))
    BY <1>1, <1>2, <1>4 DEF StringToAddr, Parses
  <2> QED BY <2>1 DEF ErrorOf, GivesAddress, Succeeds, Raised
<1>5. CASE Encodable(t) /\ r.rc = "OK"
  <2>1. StringToAddr(t, f) = OfFamily(r.out, f)
    BY <1>1, <1>5 DEF StringToAddr
  <2>2. IsAddress(r.out)
    BY <1>2, <1>5 DEF Parses
  <2> QED BY <2>1, <2>2, OfFamilyIs
<1> QED BY <1>3, <1>4, <1>5

LEMMA BytesIs ==
  ASSUME NEW a, IsAddress(a), NEW f \in {"INET", "INET6"}
  PROVE  GivesAddress(BytesToAddr(a.bytes, f), f)
<1>1. CASE DOMAIN a.bytes # BytesOf(f)
  BY <1>1 DEF BytesToAddr, GivesAddress, Succeeds, Raised
<1>2. CASE DOMAIN a.bytes = BytesOf(f)
  <2>1. BytesToAddr(a.bytes, f) = Returned(a)
    BY <1>2, WidthsDiffer DEF BytesToAddr
  <2> QED BY <1>2, <2>1, WidthsDiffer DEF GivesAddress, Returned
<1> QED BY <1>1, <1>2

LEMMA IpaddressIs ==
  ASSUME NEW o, IsObject(o), NEW f \in {"INET", "INET6"}
  PROVE  GivesAddress(IpaddressToAddr(o, f), f)
<1>1. CASE o.type \notin AddressTypes
  BY <1>1 DEF IpaddressToAddr, GivesAddress, Succeeds, Raised
<1>2. CASE o.type \in AddressTypes /\ DOMAIN o.addr.bytes # BytesOf(f)
  BY <1>2 DEF IpaddressToAddr, GivesAddress, Succeeds, Raised
<1>3. CASE o.type \in AddressTypes /\ DOMAIN o.addr.bytes = BytesOf(f)
  <2>1. IsAddress(o.addr)
    BY <1>3, ObjectIs
  <2>2. IpaddressToAddr(o, f) = Returned(o.addr) /\ o.addr.family = f
    BY <1>3, <2>1, WidthsDiffer DEF IpaddressToAddr
  <2> QED BY <2>1, <2>2 DEF GivesAddress, Returned
<1> QED BY <1>1, <1>2, <1>3

\* The digits of the int of an address, in base 256.
LEMMA DigitsAre ==
  ASSUME NEW a, IsAddress(a)
  PROVE  /\ Len(Digits(a.bytes)) \in Nat
         /\ \A i \in 1 .. Len(Digits(a.bytes)) : Digits(a.bytes)[i] \in 0 .. 255
<1>1. PICK n \in {4, 16} : BytesOf(a.family) = 0 .. n - 1
  BY DEF IsAddress, BytesOf, V4Bytes, V6Bytes
<1>2. PICK b : b = a.bytes
  OBVIOUS
<1>3. b \in [0 .. n - 1 -> 0 .. 255]
  BY <1>1, <1>2 DEF IsAddress
<1>4. Cardinality(DOMAIN b) = n
  <2>1. DOMAIN b = 0 .. n - 1
    BY <1>3
  <2>2. 0 \in Int /\ n - 1 \in Int
    OBVIOUS
  <2>3. Cardinality(0 .. n - 1) = IF 0 > n - 1 THEN 0 ELSE n - 1 - 0 + 1
    BY <2>2, FS_Interval, Zenon
  <2> QED BY <2>1, <2>3
<1>5. \E k \in 0 .. n : (\A j \in 0 .. k - 1 : b[j] = 0) /\ (k < n => b[k] # 0)
  <2>1. PICK T : T = {k \in 0 .. n : k < n => b[k] # 0}
    OBVIOUS
  <2>2. T \subseteq Nat /\ n \in T
    BY <2>1
  <2>3. PICK k \in T : \A j \in T : k <= j
    BY <2>2, LeastElement
  <2>4. k \in 0 .. n /\ (k < n => b[k] # 0)
    BY <2>1
  <2>5. ASSUME NEW j \in 0 .. k - 1 PROVE b[j] = 0
    <3>1. j \notin T /\ j \in 0 .. n /\ j < n
      BY <2>3, <2>4
    <3> QED BY <2>1, <3>1
  <2> QED BY <2>4, <2>5
<1>6. PICK first \in 0 .. n : Digits(b) = [i \in 1 .. n - first |-> b[first + i - 1]]
  <2> DEFINE m == Cardinality(DOMAIN b)
             Leads(k) == (\A j \in 0 .. k - 1 : b[j] = 0) /\ (k < m => b[k] # 0)
             first == CHOOSE k \in 0 .. m : Leads(k)
  <2>1. Digits(b) = [i \in 1 .. m - first |-> b[first + i - 1]]
    BY DEF Digits
  <2>2. \E k \in 0 .. m : Leads(k)
    BY <1>4, <1>5, Zenon
  <2>3. first \in 0 .. m
    <3> HIDE DEF Leads
    <3> QED BY <2>2
  <2> HIDE DEF first
  <2> QED BY <1>4, <2>1, <2>3
<1>7. Len(Digits(b)) = n - first
  BY <1>6
<1>8. ASSUME NEW i \in 1 .. n - first PROVE Digits(b)[i] \in 0 .. 255
  <2>1. first + i - 1 \in 0 .. n - 1
    OBVIOUS
  <2> QED BY <1>3, <1>6, <2>1
<1> QED BY <1>2, <1>7, <1>8

LEMMA IntIs ==
  ASSUME NEW a, IsAddress(a), NEW neg, NEW f \in {"INET", "INET6"}
  PROVE  GivesAddress(IntToAddr([neg |-> neg, digits |-> Digits(a.bytes)], f), f)
<1>1. PICK n \in {4, 16} : BytesOf(f) = 0 .. n - 1
  BY DEF BytesOf, V4Bytes, V6Bytes
<1>2. Cardinality(BytesOf(f)) = n
  <2>1. 0 \in Int /\ n - 1 \in Int
    OBVIOUS
  <2>2. Cardinality(0 .. n - 1) = IF 0 > n - 1 THEN 0 ELSE n - 1 - 0 + 1
    BY <2>1, FS_Interval, Zenon
  <2> QED BY <1>1, <2>2
<1>3. PICK d, pad : d = Digits(a.bytes) /\ pad = n - Len(d)
  OBVIOUS
<1>4. Len(d) \in Nat /\ \A i \in 1 .. Len(d) : d[i] \in 0 .. 255
  BY <1>3, DigitsAre
<1>5. PICK b : b = [k \in BytesOf(f) |-> IF k < pad THEN 0 ELSE d[k - pad + 1]]
  OBVIOUS
<1>6. IntToAddr([neg |-> neg, digits |-> d], f) =
        IF neg \/ pad < 0 THEN Raised("InvalidArgumentError")
        ELSE Returned([family |-> f, bytes |-> b])
  BY <1>2, <1>3, <1>5 DEF IntToAddr
<1>7. CASE neg \/ pad < 0
  BY <1>3, <1>6, <1>7 DEF GivesAddress, Succeeds, Raised
<1>8. CASE ~(neg \/ pad < 0)
  <2>1. ASSUME NEW k \in 0 .. n - 1 PROVE (IF k < pad THEN 0 ELSE d[k - pad + 1]) \in 0 .. 255
    <3>1. CASE k < pad
      BY <3>1
    <3>2. CASE ~(k < pad)
      <4>1. k - pad + 1 \in 1 .. Len(d)
        BY <1>3, <1>4, <3>2
      <4>2. d[k - pad + 1] \in 0 .. 255
        BY <1>4, <4>1
      <4> QED BY <3>2, <4>2
    <3> QED BY <3>1, <3>2
  <2>2. b \in [BytesOf(f) -> 0 .. 255]
    BY <1>1, <1>5, <2>1
  <2>3. IsAddress([family |-> f, bytes |-> b])
    BY <2>2 DEF IsAddress
  <2> QED BY <1>3, <1>6, <1>8, <2>3 DEF GivesAddress, Returned
<1> QED BY <1>7, <1>8

----------------------------------------------------------------------------
(* What the constructors return is an object.                              *)

GivesObject(r) == Succeeds(r) => IsObject(r.val)

\* The last lines of address_new and of network_new.
AddressMade(r, f) ==
  IF ~Succeeds(r) THEN r ELSE Returned([type |-> AddressType(f), addr |-> r.val])
NetworkMade(r, f) ==
  IF ~Succeeds(r) THEN r ELSE Returned([type |-> NetworkType(f), prefix |-> r.val])

LEMMA AddressMadeIs ==
  ASSUME NEW r, NEW f, GivesAddress(r, f)
  PROVE  GivesObject(AddressMade(r, f))
<1>1. CASE Succeeds(r)
  <2>1. IsAddress(r.val) /\ r.val.family = f
    BY <1>1 DEF GivesAddress
  <2>2. AddressMade(r, f) = Returned(AddressOf(r.val))
    BY <1>1, <2>1 DEF AddressMade, AddressOf
  <2> QED BY <2>1, <2>2, AddressIsObject, ReturnedSucceeds DEF GivesObject
<1>2. CASE ~Succeeds(r)
  BY <1>2 DEF AddressMade, GivesObject
<1> QED BY <1>1, <1>2

LEMMA NetworkMadeIs ==
  ASSUME NEW r, NEW f, GivesNetwork(r, f)
  PROVE  GivesObject(NetworkMade(r, f))
<1>1. CASE Succeeds(r)
  <2>1. IsNet(r.val) /\ r.val.addr.family = f
    BY <1>1 DEF GivesNetwork
  <2>2. NetworkMade(r, f) = Returned(NetworkOf(r.val))
    BY <1>1, <2>1 DEF NetworkMade, NetworkOf
  <2> QED BY <2>1, <2>2, NetworkIsObject, ReturnedSucceeds DEF GivesObject
<1>2. CASE ~Succeeds(r)
  BY <1>2 DEF NetworkMade, GivesObject
<1> QED BY <1>1, <1>2

LEMMA AddressNewIs ==
  ASSUME NEW f
  PROVE  /\ \A t : AddressNew(Str(t), f) = AddressMade(StringToAddr(t, f), f)
         /\ \A b : AddressNew(Bytes(b), f) = AddressMade(BytesToAddr(b, f), f)
         /\ \A neg, d : AddressNew(Number(neg, d), f) =
                          AddressMade(IntToAddr([neg |-> neg, digits |-> d], f), f)
         /\ \A o : AddressNew(Object(o), f) = AddressMade(IpaddressToAddr(o, f), f)
<1>1. \A t : AddressNew(Str(t), f) = AddressMade(StringToAddr(t, f), f)
  BY DEF AddressNew, Str, AddressMade
<1>2. \A b : AddressNew(Bytes(b), f) = AddressMade(BytesToAddr(b, f), f)
  BY DEF AddressNew, Bytes, AddressMade
<1>3. \A neg, d : AddressNew(Number(neg, d), f) =
                    AddressMade(IntToAddr([neg |-> neg, digits |-> d], f), f)
  BY DEF AddressNew, Number, AddressMade
<1>4. \A o : AddressNew(Object(o), f) = AddressMade(IpaddressToAddr(o, f), f)
  BY DEF AddressNew, Object, AddressMade
<1> QED BY <1>1, <1>2, <1>3, <1>4

----------------------------------------------------------------------------
(* Networks.                                                               *)

LEMMA StrictParseIs ==
  ASSUME NEW t \in Seq(Token), NEW f
  PROVE  /\ GivesNetwork(StrictParse(t, f), f)
         /\ Succeeds(StrictParse(t, f)) <=>
              PrefixParse(t, NoPrefix).rc = "OK" /\ PrefixParse(t, NoPrefix).out.addr.family = f
         /\ Succeeds(StrictParse(t, f)) =>
              StrictParse(t, f) = Returned(PrefixParse(t, NoPrefix).out)
         /\ PrefixParse(t, NoPrefix).rc # "OK" =>
              StrictParse(t, f) = Raised(ErrorOf(PrefixParse(t, NoPrefix).rc))
<1>1. PICK r : r = PrefixParse(t, NoPrefix)
  OBVIOUS
<1>2. /\ r.rc \in {"OK", "PARSE", "PFXLEN", "HOSTBITS"}
      /\ r.rc = "OK" => IsNet(r.out)
  BY <1>1, PrefixParserIsGrammar DEF ParsesNet
<1>3. CASE r.rc # "OK"
  <2>1. StrictParse(t, f) = Raised(ErrorOf(r.rc))
    BY <1>1, <1>3 DEF StrictParse
  <2>2. ErrorOf(r.rc) # "none"
    BY <1>2, <1>3, ErrorIs
  <2>3. ~Succeeds(StrictParse(t, f))
    BY <2>1, <2>2, RaisedFails
  <2> QED BY <1>1, <1>3, <2>1, <2>3 DEF GivesNetwork
<1>4. CASE r.rc = "OK" /\ r.out.addr.family # f
  <2>1. StrictParse(t, f) = Raised("FamilyError")
    BY <1>1, <1>4 DEF StrictParse
  <2>2. ~Succeeds(StrictParse(t, f))
    BY <2>1 DEF Succeeds, Raised
  <2> QED BY <1>1, <1>4, <2>2 DEF GivesNetwork
<1>5. CASE r.rc = "OK" /\ r.out.addr.family = f
  <2>1. StrictParse(t, f) = Returned(r.out)
    BY <1>1, <1>5 DEF StrictParse
  <2>2. Succeeds(StrictParse(t, f)) /\ StrictParse(t, f).val = r.out
    BY <2>1, ReturnedSucceeds
  <2> QED BY <1>1, <1>2, <1>5, <2>1, <2>2 DEF GivesNetwork
<1> QED BY <1>3, <1>4, <1>5

LEMMA StrtolIs ==
  ASSUME NEW t \in Seq(Token)
  PROVE  Strtol(t) \in Nat \cup {-1}
<1>1. -1 \in Nat \cup {-1} /\ 0 \in Nat \cup {-1}
  OBVIOUS
<1>2. CASE Len(t) = 0
  BY <1>1, <1>2 DEF Strtol
<1>3. CASE Len(t) # 0
  <2>1. t[Len(t)] \in Token
    BY <1>3, TextIs
  <2>2. DecValue(t[Len(t)]) \in Nat
    BY <2>1, DecValueIsNat
  <2>3. Strtol(t) = -1 \/ Strtol(t) = DecValue(t[Len(t)])
    BY <1>3 DEF Strtol
  <2> QED BY <1>1, <2>2, <2>3
<1> QED BY <1>2, <1>3

\* What the loose constructor makes of the address a and the length n.
LooseNet(a, n, f) ==
  IF a.rc # "OK" THEN Raised(ErrorOf(a.rc))
  ELSE IF a.out.family # f THEN Raised("FamilyError")
  ELSE IF n = -1 \/ n > MaxLen(f) THEN Raised("PrefixLengthError")
  ELSE Returned(FromHost(a.out, n, NoPrefix).out)

LEMMA LooseIs ==
  ASSUME NEW t, NEW f, NEW slash, slash = LastPos(t, "/"), NEW host, host = Before(t, slash),
         NEW a, a = AddrParse(host, NoAddr), NEW n, n = Strtol(After(t, slash))
  PROVE  LooseParse(t, f) =
           IF slash = 0 \/ Width(host) >= CIDR_ADDR_STR_MAX THEN Raised("ParseError")
           ELSE LooseNet(a, n, f)
BY DEF LooseParse, LooseNet

LEMMA LooseParseIs ==
  ASSUME NEW t \in Seq(Token), NEW f \in {"INET", "INET6"}
  PROVE  GivesNetwork(LooseParse(t, f), f)
<1>1. PICK slash : slash = LastPos(t, "/")
  OBVIOUS
<1>2. PICK host : host = Before(t, slash)
  OBVIOUS
<1>3. PICK a, n : a = AddrParse(host, NoAddr) /\ n = Strtol(After(t, slash))
  OBVIOUS
<1>4. LooseParse(t, f) = IF slash = 0 \/ Width(host) >= CIDR_ADDR_STR_MAX THEN Raised("ParseError")
                         ELSE LooseNet(a, n, f)
  BY <1>1, <1>2, <1>3, LooseIs
<1>5. CASE slash = 0 \/ Width(host) >= CIDR_ADDR_STR_MAX
  BY <1>4, <1>5 DEF GivesNetwork, Succeeds, Raised
<1>6. CASE ~(slash = 0 \/ Width(host) >= CIDR_ADDR_STR_MAX)
  <2>1. slash \in 1 .. Len(t)
    <3>1. Len(t) \in Nat /\ slash \in 0 .. Len(t)
      BY <1>1, LastPosIs
    <3> QED BY <1>6, <3>1
  <2>2. host \in Seq(Token) /\ After(t, slash) \in Seq(Token)
    BY <1>2, <2>1, PartsAre
  <2>3. n \in Nat \cup {-1}
    BY <1>3, <2>2, StrtolIs
  <2>4. a.rc \in {"OK", "PARSE"} /\ (a.rc = "OK" => IsAddress(a.out))
    BY <1>3, <2>2, ParserIsGrammar, NoAddrIsCell DEF Parses
  <2>5. LooseParse(t, f) = LooseNet(a, n, f)
    BY <1>4, <1>6
  <2>6. CASE a.rc # "OK"
    <3>1. LooseNet(a, n, f) = Raised(ErrorOf("PARSE"))
      BY <2>4, <2>6 DEF LooseNet
    <3> QED BY <2>5, <3>1 DEF ErrorOf, GivesNetwork, Succeeds, Raised
  <2>7. CASE a.rc = "OK" /\ (a.out.family # f \/ n = -1 \/ n > MaxLen(f))
    BY <2>5, <2>7 DEF LooseNet, GivesNetwork, Succeeds, Raised
  <2>8. CASE a.rc = "OK" /\ ~(a.out.family # f \/ n = -1 \/ n > MaxLen(f))
    <3>1. LooseParse(t, f) = Returned(FromHost(a.out, n, NoPrefix).out)
      BY <2>5, <2>8 DEF LooseNet
    <3>2. IsAddress(a.out) /\ a.out.family = f /\ n \in Int
      BY <2>3, <2>4, <2>8
    <3>3. MaxLen(f) \in Nat
      BY DEF MaxLen
    <3>4. n \in 0 .. MaxLen(a.out.family)
      BY <2>3, <2>8, <3>3
    <3>5. PICK p : p = FromHost(a.out, n, NoPrefix).out
      OBVIOUS
    <3>6. IsNet(p) /\ p = [addr |-> MaskedTo(a.out, n), pfxlen |-> n]
      BY ONLY <3>2, <3>4, <3>5, FromHostIs
    <3>7. p.addr.family = f
      BY <3>2, <3>6 DEF MaskedTo, IsAddress
    <3> QED BY <3>1, <3>5, <3>6, <3>7, ReturnedSucceeds DEF GivesNetwork
  <2> QED BY <2>6, <2>7, <2>8
<1> QED BY <1>5, <1>6

TupleNet(a, n, f, strict, net) ==
  IF ~Succeeds(a) THEN a
  ELSE IF n > LONG_MAX \/ n < -LONG_MAX THEN Raised("OverflowError")
  ELSE IF n < 0 \/ n > MaxLen(f) THEN Raised("PrefixLengthError")
  ELSE IF strict /\ net.addr # a.val THEN Raised("HostBitsError")
  ELSE Returned(net)

LEMMA TupleNetIs ==
  ASSUME NEW a, NEW f \in {"INET", "INET6"}, GivesAddress(a, f), NEW n \in Int, NEW strict
  PROVE  GivesNetwork(TupleNet(a, n, f, strict, FromHost(a.val, n, NoPrefix).out), f)
<1>1. PICK net : net = FromHost(a.val, n, NoPrefix).out
  OBVIOUS
<1>2. CASE ~Succeeds(a)
  BY <1>2 DEF TupleNet, GivesNetwork
<1>3. CASE Succeeds(a) /\ TupleNet(a, n, f, strict, net) # Returned(net)
  BY <1>1, <1>3 DEF TupleNet, GivesNetwork, Succeeds, Raised
<1>4. CASE Succeeds(a) /\ TupleNet(a, n, f, strict, net) = Returned(net)
           /\ ~(n < 0 \/ n > MaxLen(f))
  <2>1. IsAddress(a.val) /\ a.val.family = f
    BY <1>4 DEF GivesAddress
  <2>2. MaxLen(f) \in Nat
    BY DEF MaxLen
  <2>3. n \in 0 .. MaxLen(a.val.family)
    BY <1>4, <2>1, <2>2
  <2>4. IsNet(net) /\ net = [addr |-> MaskedTo(a.val, n), pfxlen |-> n]
    BY ONLY n \in Int, <1>1, <2>1, <2>3, FromHostIs
  <2>5. net.addr.family = f
    BY <2>1, <2>4 DEF MaskedTo, IsAddress
  <2> QED BY <1>1, <1>4, <2>4, <2>5, ReturnedSucceeds DEF GivesNetwork
<1>5. CASE Succeeds(a) /\ (n < 0 \/ n > MaxLen(f))
  <2>1. TupleNet(a, n, f, strict, net) \in {Raised("OverflowError"), Raised("PrefixLengthError")}
    BY <1>5 DEF TupleNet
  <2> QED BY <1>1, <2>1 DEF GivesNetwork, Succeeds, Raised
<1> QED BY <1>2, <1>3, <1>4, <1>5

LEMMA TupleIs ==
  ASSUME NEW n \in Int, NEW f \in {"INET", "INET6"}, NEW strict
  PROVE  /\ \A t \in Seq(Token) :
              GivesNetwork(TupleToPrefix([host |-> Str(t), pfxlen |-> n], f, strict), f)
         /\ \A o : IsObject(o) =>
              GivesNetwork(TupleToPrefix([host |-> Object(o), pfxlen |-> n], f, strict), f)
<1>1. ASSUME NEW t \in Seq(Token)
      PROVE  GivesNetwork(TupleToPrefix([host |-> Str(t), pfxlen |-> n], f, strict), f)
  <2>1. PICK a : a = StringToAddr(t, f)
    OBVIOUS
  <2>2. TupleToPrefix([host |-> Str(t), pfxlen |-> n], f, strict) =
          TupleNet(a, n, f, strict, FromHost(a.val, n, NoPrefix).out)
    BY <2>1 DEF TupleToPrefix, TupleNet, Str
  <2> QED BY <2>1, <2>2, StringIs, TupleNetIs
<1>2. ASSUME NEW o, IsObject(o)
      PROVE  GivesNetwork(TupleToPrefix([host |-> Object(o), pfxlen |-> n], f, strict), f)
  <2>1. PICK a : a = IF o.type \in AddressTypes THEN OfFamily(o.addr, f) ELSE Raised("TypeError")
    OBVIOUS
  <2>2. TupleToPrefix([host |-> Object(o), pfxlen |-> n], f, strict) =
          TupleNet(a, n, f, strict, FromHost(a.val, n, NoPrefix).out)
    BY <2>1 DEF TupleToPrefix, TupleNet, Object
  <2>3. GivesAddress(a, f)
    <3>1. CASE o.type \in AddressTypes
      BY <1>2, <2>1, <3>1, ObjectIs, OfFamilyIs
    <3>2. CASE o.type \notin AddressTypes
      BY <2>1, <3>2 DEF GivesAddress, Succeeds, Raised
    <3> QED BY <3>1, <3>2
  <2> QED BY <2>2, <2>3, TupleNetIs
<1> QED BY <1>1, <1>2

LEMMA ExtractIs ==
  ASSUME NEW o, IsObject(o), NEW f \in {"INET", "INET6"}
  PROVE  GivesNetwork(ExtractNetwork(o, f), f)
<1>1. CASE o.type \notin NetworkTypes
  BY <1>1 DEF ExtractNetwork, GivesNetwork, Succeeds, Raised
<1>2. CASE o.type \in NetworkTypes /\ DOMAIN o.prefix.addr.bytes # BytesOf(f)
  BY <1>2 DEF ExtractNetwork, GivesNetwork, Succeeds, Raised
<1>3. CASE o.type \in NetworkTypes /\ DOMAIN o.prefix.addr.bytes = BytesOf(f)
  <2>1. PICK p : p = o.prefix
    OBVIOUS
  <2>2. IsNet(p)
    BY <1>3, <2>1, ObjectIs
  <2>3. p.addr = [family |-> f, bytes |-> p.addr.bytes] /\ p.addr.family = f
    BY <1>3, <2>1, <2>2, WidthsDiffer DEF IsNet
  <2>4. p.pfxlen % 256 = p.pfxlen
    <3>1. PICK n : n = p.pfxlen
      OBVIOUS
    <3>2. n \in 0 .. 128
      BY <2>2, <3>1 DEF IsNet, MaxLen
    <3> QED BY <3>1, <3>2
  <2>5. ExtractNetwork(o, f) = Returned(p)
    BY <1>3, <2>1, <2>2, <2>3, <2>4 DEF ExtractNetwork, IsNet
  <2> QED BY <2>2, <2>3, <2>5, ReturnedSucceeds DEF GivesNetwork
<1> QED BY <1>1, <1>2, <1>3

LEMMA NetworkNewIs ==
  ASSUME NEW f, NEW strict, NEW arg
  PROVE  NetworkNew(arg, f, strict) = NetworkMade(ConstructNetwork(arg, f, strict), f)
BY DEF NetworkNew, NetworkMade

LEMMA ConstructIs ==
  ASSUME NEW f \in {"INET", "INET6"}, NEW strict
  PROVE  /\ \A t \in Seq(Token) : GivesNetwork(ConstructNetwork(Str(t), f, strict), f)
         /\ \A o : IsObject(o) => GivesNetwork(ConstructNetwork(Object(o), f, strict), f)
         /\ \A t \in Seq(Token), n \in Int :
              GivesNetwork(ConstructNetwork(Tuple(Str(t), n), f, strict), f)
         /\ \A o, n : IsObject(o) /\ n \in Int =>
              GivesNetwork(ConstructNetwork(Tuple(Object(o), n), f, strict), f)
<1>1. ASSUME NEW t \in Seq(Token) PROVE GivesNetwork(ConstructNetwork(Str(t), f, strict), f)
  <2>1. PICK c : c = CString(t)
    OBVIOUS
  <2>2. c \in Seq(Token)
    BY <2>1, CStringIs
  <2>3. GivesNetwork(StrictParse(c, f), f) /\ GivesNetwork(LooseParse(c, f), f)
    BY <2>2, StrictParseIs, LooseParseIs
  <2>4. ConstructNetwork(Str(t), f, strict) =
          IF ~Encodable(t) THEN Raised("UnicodeEncodeError")
          ELSE IF strict THEN StrictParse(c, f) ELSE LooseParse(c, f)
    BY <2>1 DEF ConstructNetwork, Str
  <2>5. GivesNetwork(Raised("UnicodeEncodeError"), f)
    BY DEF GivesNetwork, Succeeds, Raised
  <2> QED BY <2>3, <2>4, <2>5
<1>2. ASSUME NEW o, IsObject(o) PROVE GivesNetwork(ConstructNetwork(Object(o), f, strict), f)
  <2>1. ConstructNetwork(Object(o), f, strict) = ExtractNetwork(o, f)
    BY DEF ConstructNetwork, Object
  <2> QED BY <1>2, <2>1, ExtractIs
<1>3. ASSUME NEW h, NEW n
      PROVE  ConstructNetwork(Tuple(h, n), f, strict) =
               TupleToPrefix([host |-> h, pfxlen |-> n], f, strict)
  BY DEF ConstructNetwork, Tuple
<1>4. ASSUME NEW t \in Seq(Token), NEW n \in Int
      PROVE  GivesNetwork(ConstructNetwork(Tuple(Str(t), n), f, strict), f)
  BY <1>3, TupleIs
<1>5. ASSUME NEW o, NEW n, IsObject(o), n \in Int
      PROVE  GivesNetwork(ConstructNetwork(Tuple(Object(o), n), f, strict), f)
  <2>1. GivesNetwork(TupleToPrefix([host |-> Object(o), pfxlen |-> n], f, strict), f)
    BY <1>5, TupleIs
  <2>2. ConstructNetwork(Tuple(Object(o), n), f, strict) =
          TupleToPrefix([host |-> Object(o), pfxlen |-> n], f, strict)
    BY <1>3
  <2> QED BY <2>1, <2>2
<1> QED BY <1>1, <1>2, <1>4, <1>5

----------------------------------------------------------------------------
(* Derived objects and texts.                                              *)

Ones4 == [k \in V4Bytes |-> 255]
Ones6 == [k \in V6Bytes |-> 255]

LEMMA MaskIs ==
  ASSUME NEW p, IsNet(p)
  PROVE  IsAddress(MaskOf(p)) /\ IsAddress(LastOf(p))
<1>1. IsAddress(p.addr) /\ p.addr = [family |-> p.addr.family, bytes |-> p.addr.bytes]
  BY DEF IsNet, IsAddress
<1>2. CASE p.addr.family = "INET"
  <2>1. p.addr.bytes \in S4!Address /\ p.pfxlen \in S4!Pfxlen
    BY <1>1, <1>2, Shape4 DEF IsNet, IsAddress, BytesOf, MaxLen
  <2>2. PICK n : n = p.pfxlen
    OBVIOUS
  <2>3. V4!MaskCompute(n) \in S4!Address
    <3>1. Ones4 \in S4!Address
      BY Shape4 DEF Ones4
    <3>2. S4!MaskApply(Ones4, n) \in S4!Address
      BY <2>1, <2>2, <3>1, Widths, S4!MaskedAddress
    <3>3. S4!MaskCompute(n) = S4!MaskApply(Ones4, n)
      BY Shape4 DEF Ones4, S4!MaskCompute, S4!MaskApply
    <3>4. V4!MaskCompute(n) = S4!MaskCompute(n)
      BY Same4
    <3> QED BY <3>2, <3>3, <3>4
  <2>4. V4!Last(Raw(p)) \in S4!Address
    <3>1. V4!Last(Raw(p)) = V4!FillHost(p.addr.bytes, n)
      BY <2>2 DEF Raw, V4!Last
    <3>2. V4!FillHost(p.addr.bytes, n) = S4!FillHost(p.addr.bytes, n)
      BY Same4
    <3>3. S4!FillHost(p.addr.bytes, n) \in S4!Address
      BY <2>1, <2>2, Widths, S4!FilledAddress
    <3> QED BY <3>1, <3>2, <3>3
  <2>5. /\ MaskOf(p) = [family |-> "INET", bytes |-> V4!MaskCompute(n)]
        /\ LastOf(p) = [family |-> "INET", bytes |-> V4!Last(Raw(p))]
    BY <1>1, <1>2, <2>2 DEF MaskOf, LastOf
  <2>6. \A b \in S4!Address : IsAddress([family |-> "INET", bytes |-> b])
    BY Shape4 DEF IsAddress, BytesOf
  <2> QED BY <2>3, <2>4, <2>5, <2>6
<1>3. CASE p.addr.family = "INET6"
  <2>1. p.addr.bytes \in S6!Address /\ p.pfxlen \in S6!Pfxlen
    BY <1>1, <1>3, Shape6 DEF IsNet, IsAddress, BytesOf, MaxLen
  <2>2. PICK n : n = p.pfxlen
    OBVIOUS
  <2>3. V6!MaskCompute(n) \in S6!Address
    <3>1. Ones6 \in S6!Address
      BY Shape6 DEF Ones6
    <3>2. S6!MaskApply(Ones6, n) \in S6!Address
      BY <2>1, <2>2, <3>1, Widths, S6!MaskedAddress
    <3>3. S6!MaskCompute(n) = S6!MaskApply(Ones6, n)
      BY Shape6 DEF Ones6, S6!MaskCompute, S6!MaskApply
    <3>4. V6!MaskCompute(n) = S6!MaskCompute(n)
      BY Same6
    <3> QED BY <3>2, <3>3, <3>4
  <2>4. V6!Last(Raw(p)) \in S6!Address
    <3>1. V6!Last(Raw(p)) = V6!FillHost(p.addr.bytes, n)
      BY <2>2 DEF Raw, V6!Last
    <3>2. V6!FillHost(p.addr.bytes, n) = S6!FillHost(p.addr.bytes, n)
      BY Same6
    <3>3. S6!FillHost(p.addr.bytes, n) \in S6!Address
      BY <2>1, <2>2, Widths, S6!FilledAddress
    <3> QED BY <3>1, <3>2, <3>3
  <2>5. /\ MaskOf(p) = [family |-> "INET6", bytes |-> V6!MaskCompute(n)]
        /\ LastOf(p) = [family |-> "INET6", bytes |-> V6!Last(Raw(p))]
    BY <1>1, <1>3, <2>2 DEF MaskOf, LastOf
  <2>6. \A b \in S6!Address : IsAddress([family |-> "INET6", bytes |-> b])
    BY Shape6 DEF IsAddress, BytesOf
  <2> QED BY <2>3, <2>4, <2>5, <2>6
<1> QED BY <1>1, <1>2, <1>3 DEF IsAddress

LEMMA ToIPv4Is ==
  ASSUME NEW o, IsObject(o), o.type \in AddressTypes
  PROVE  GivesObject(ToIPv4(o))
<1>1. IsAddress(o.addr)
  BY ObjectIs
<1>2. PICK r : r = AddrToV4(o.addr, NoAddr)
  OBVIOUS
<1>3. CASE r.rc = "FAMILY"
  <2>1. ToIPv4(o) = Returned(None)
    BY <1>2, <1>3 DEF ToIPv4
  <2> QED BY <2>1, ReturnedSucceeds DEF GivesObject, IsObject
<1>4. CASE r.rc = "OK" /\ IsAddress(r.out)
  <2>1. ToIPv4(o) = AddressNew(Bytes(r.out.bytes), "INET")
    BY <1>2, <1>4 DEF ToIPv4
  <2>2. AddressNew(Bytes(r.out.bytes), "INET") =
          AddressMade(BytesToAddr(r.out.bytes, "INET"), "INET")
    BY AddressNewIs
  <2> QED BY <1>4, <2>1, <2>2, BytesIs, AddressMadeIs
<1> QED BY <1>1, <1>2, <1>3, <1>4, ToV4Is

LEMMA SupernetIsObject ==
  ASSUME NEW o, IsObject(o), o.type \in NetworkTypes
  PROVE  GivesObject(SupernetOf(o))
<1>1. PICK p : p = o.prefix
  OBVIOUS
<1>2. IsNet(p)
  BY <1>1, ObjectIs
<1>3. p.addr.family # "UNSPEC" /\ IsAddress(p.addr) /\ p.pfxlen \in 0 .. MaxLen(p.addr.family)
      /\ MaxLen(p.addr.family) \in Nat
  BY <1>2, NetFamily DEF IsNet, MaxLen
<1>4. CASE p.pfxlen = 0
  <2>1. SupernetOf(o) = Raised(ErrorOf("OVERFLOW"))
    BY <1>1, <1>3, <1>4 DEF SupernetOf, Supernet
  <2>2. ErrorOf("OVERFLOW") # "none"
    BY ErrorIs
  <2> QED BY <2>1, <2>2, RaisedFails DEF GivesObject
<1>5. CASE p.pfxlen # 0
  <2>1. PICK n : n = p.pfxlen - 1
    OBVIOUS
  <2>2. n \in 0 .. MaxLen(p.addr.family)
    BY <1>3, <1>5, <2>1
  <2>3. PICK q : q = [addr |-> MaskedTo(p.addr, n), pfxlen |-> n]
    OBVIOUS
  <2>4. IsNet(q)
    BY <1>3, <2>2, <2>3, MaskedIs
  <2>5. SupernetOf(o) = Returned(NetworkOf(q))
    BY <1>1, <1>3, <1>5, <2>1, <2>3 DEF SupernetOf, Supernet
  <2> QED BY <2>4, <2>5, ReturnedSucceeds, NetworkIsObject DEF GivesObject
<1> QED BY <1>4, <1>5

\* A full text of eight groups of four digits.
ExplodedText(b) ==
  [p \in 1 .. 15 |-> IF p % 2 = 1 THEN Hex(Group(b, p \div 2), 4) ELSE Char(":")]

LEMMA ExplodedIs ==
  ASSUME NEW b \in [V6Bytes -> 0 .. 255]
  PROVE  ExplodedText(b) \in Seq(Token)
<1>1. ASSUME NEW p \in 1 .. 15, p % 2 = 1 PROVE Hex(Group(b, p \div 2), 4) \in Token
  <2>1. PICK i : i = p \div 2
    OBVIOUS
  <2>2. i \in 0 .. 7
    BY <2>1
  <2>3. Group(b, i) \in Word
    BY <2>2, GroupIsWord
  <2> QED BY <2>1, <2>3, Hex16Is
<1>2. Char(":") \in Token
  BY CharIsWritten DEF IsWritten
<1>3. PICK n : n = 15
  OBVIOUS
<1>4. ExplodedText(b) \in [1 .. n -> Token]
  BY <1>1, <1>2, <1>3 DEF ExplodedText
<1>5. n \in Nat
  BY <1>3
<1> QED BY ONLY <1>4, <1>5

LEMMA ShownIs ==
  ASSUME NEW o, IsObject(o)
  PROVE  /\ o.type \in AddressTypes => Compressed(o) \in Seq(Token) /\ Exploded(o) \in Seq(Token)
         /\ o.type \in NetworkTypes => WithPrefixlen(o) \in Seq(Token)
<1>1. ASSUME o.type \in AddressTypes
      PROVE  Compressed(o) \in Seq(Token) /\ Exploded(o) \in Seq(Token)
  <2>1. IsAddress(o.addr) /\ o.type = AddressType(o.addr.family)
    BY <1>1, ObjectIs DEF AddressOf
  <2>2. Compressed(o) \in Seq(Token)
    BY <2>1, AddrNamed DEF Compressed, Names
  <2>3. CASE o.type = "IPv4Address"
    BY <2>2, <2>3 DEF Exploded
  <2>4. CASE o.type # "IPv4Address"
    <3>1. o.addr.bytes \in [V6Bytes -> 0 .. 255]
      BY <2>1, <2>4 DEF AddressType, IsAddress, BytesOf
    <3>2. Exploded(o) = ExplodedText(o.addr.bytes)
      BY <2>4 DEF Exploded, ExplodedText
    <3> QED BY <2>2, <3>1, <3>2, ExplodedIs
  <2> QED BY <2>2, <2>3, <2>4
<1>2. ASSUME o.type \in NetworkTypes
      PROVE  WithPrefixlen(o) \in Seq(Token)
  <2>1. IsNet(o.prefix)
    BY <1>2, ObjectIs
  <2> QED BY <2>1, PrefixNamed DEF WithPrefixlen, NamesNet
<1> QED BY <1>1, <1>2

----------------------------------------------------------------------------
(* The inductive invariant of the C caller and of the Python program.      *)

ObjectsHold == IsObject(obj) /\ IsObject(other)

Holds == CallerHolds /\ ObjectsHold

\* Calls that write to none of the caller's structs and arrays.
QuietCalls == {"addr_format", "prefix_format", "address", "network", "to_ipv4",
               "network_address", "broadcast_address", "netmask", "supernet", "str",
               "exploded", "question"}

\* A step of which the C variables show a call at most.
QuietStep == UNCHANGED <<cVars, batchVars>> /\ (last' = last \/ last'.call \in QuietCalls)

LEMMA QuietKeeps ==
  ASSUME CallerHolds, TextsHold', CallsHold', UNCHANGED <<cVars, batchVars>>
  PROVE  CallerHolds'
<1>1. StructsHold'
  BY DEF CallerHolds, StructsHold, cVars
<1>2. ArraysHold'
  BY DEF CallerHolds, ArraysHold, batchVars
<1> QED BY <1>1, <1>2 DEF CallerHolds

\* A call that makes an object, and its result r.
LEMMA MakeHolds ==
  ASSUME Holds, NEW call \in QuietCalls, NEW r, GivesObject(r), Make(call, r)
  PROVE  Holds' /\ QuietStep
<1>1. Called(call, r.exc, text) /\ UNCHANGED <<cVars, batchVars>>
  BY DEF Make
<1>2. TextsHold /\ CallsHold /\ text \in Seq(Token)
  BY DEF Holds, CallerHolds, TextsHold
<1>3. /\ TextsHold' /\ CallsHold'
      /\ last' = [call |-> call, of |-> text, rc |-> r.exc]
  BY <1>1, <1>2, CalledHolds
<1>4. IsObject(obj') /\ IsObject(other')
  <2>1. IsObject(obj) /\ IsObject(other)
    BY DEF Holds, ObjectsHold
  <2> QED BY <2>1 DEF Make, GivesObject
<1>5. QuietStep
  BY <1>1, <1>3 DEF QuietStep
<1>6. CallerHolds'
  BY <1>1, <1>3, QuietKeeps DEF Holds
<1> QED BY <1>4, <1>5, <1>6 DEF Holds, ObjectsHold

LEMMA MakeAddressHolds ==
  ASSUME Holds, MakeAddress
  PROVE  Holds' /\ QuietStep
<1>1. IsObject(obj) /\ text \in Seq(Token)
  BY DEF Holds, ObjectsHold, CallerHolds, TextsHold
<1>2. "address" \in QuietCalls
  BY DEF QuietCalls
<1>3. PICK family \in {"INET", "INET6"} :
        \/ Make("address", AddressNew(Str(text), family))
        \/ Make("address", AddressNew(Object(obj), family))
        \/ /\ obj.type \in AddressTypes
           /\ \/ Make("address", AddressNew(Bytes(obj.addr.bytes), family))
              \/ \E neg \in BOOLEAN :
                   Make("address", AddressNew(Number(neg, Digits(obj.addr.bytes)), family))
  BY DEF MakeAddress
<1>4. GivesObject(AddressNew(Str(text), family))
  <2>1. AddressNew(Str(text), family) = AddressMade(StringToAddr(text, family), family)
    BY ONLY AddressNewIs
  <2> QED BY <1>1, <2>1, StringIs, AddressMadeIs
<1>5. GivesObject(AddressNew(Object(obj), family))
  BY <1>1, IpaddressIs, AddressMadeIs, AddressNewIs
<1>6. ASSUME obj.type \in AddressTypes
      PROVE  /\ GivesObject(AddressNew(Bytes(obj.addr.bytes), family))
             /\ \A neg : GivesObject(AddressNew(Number(neg, Digits(obj.addr.bytes)), family))
  <2>1. IsAddress(obj.addr)
    BY <1>1, <1>6, ObjectIs
  <2>2. GivesObject(AddressNew(Bytes(obj.addr.bytes), family))
    BY <2>1, BytesIs, AddressMadeIs, AddressNewIs
  <2>3. ASSUME NEW neg
        PROVE  GivesObject(AddressNew(Number(neg, Digits(obj.addr.bytes)), family))
    <3>1. AddressNew(Number(neg, Digits(obj.addr.bytes)), family) =
            AddressMade(IntToAddr([neg |-> neg, digits |-> Digits(obj.addr.bytes)], family), family)
      BY ONLY AddressNewIs
    <3> QED BY <2>1, <3>1, IntIs, AddressMadeIs
  <2> QED BY <2>2, <2>3
<1> QED BY <1>2, <1>3, <1>4, <1>5, <1>6, MakeHolds

LEMMA MakeNetworkHolds ==
  ASSUME Holds, MakeNetwork
  PROVE  Holds' /\ QuietStep
<1>1. IsObject(obj) /\ text \in Seq(Token)
  BY DEF Holds, ObjectsHold, CallerHolds, TextsHold
<1>2. "network" \in QuietCalls
  BY DEF QuietCalls
<1>3. PICK family \in {"INET", "INET6"}, strict \in BOOLEAN :
        \/ Make("network", NetworkNew(Str(text), family, strict))
        \/ Make("network", NetworkNew(Object(obj), family, strict))
        \/ \E n \in Lengths :
             \/ Make("network", NetworkNew(Tuple(Str(text), n), family, strict))
             \/ Make("network", NetworkNew(Tuple(Object(obj), n), family, strict))
  BY DEF MakeNetwork
<1>4. ASSUME NEW arg, GivesNetwork(ConstructNetwork(arg, family, strict), family)
      PROVE  GivesObject(NetworkNew(arg, family, strict))
  BY <1>4, NetworkMadeIs, NetworkNewIs
<1>5. GivesObject(NetworkNew(Str(text), family, strict))
  BY <1>1, <1>4, ConstructIs
<1>6. GivesObject(NetworkNew(Object(obj), family, strict))
  BY <1>1, <1>4, ConstructIs
<1>7. ASSUME NEW n \in Lengths
      PROVE  /\ GivesObject(NetworkNew(Tuple(Str(text), n), family, strict))
             /\ GivesObject(NetworkNew(Tuple(Object(obj), n), family, strict))
  <2>1. n \in Int
    BY PyAssumption
  <2> QED BY <1>1, <1>4, <2>1, ConstructIs
<1> QED BY <1>2, <1>3, <1>5, <1>6, <1>7, MakeHolds

LEMMA DeriveHolds ==
  ASSUME Holds, Derive
  PROVE  Holds' /\ QuietStep
<1>1. IsObject(obj)
  BY DEF Holds, ObjectsHold
<1>2. {"to_ipv4", "network_address", "broadcast_address", "netmask", "supernet"}
        \subseteq QuietCalls
  BY DEF QuietCalls
<1>3. CASE obj.type = "IPv6Address" /\ Make("to_ipv4", ToIPv4(obj))
  <2>1. obj.type \in AddressTypes
    BY <1>3 DEF AddressTypes
  <2>2. GivesObject(ToIPv4(obj))
    BY <1>1, <2>1, ToIPv4Is
  <2> QED BY <1>2, <1>3, <2>2, MakeHolds
<1>4. ASSUME obj.type \in NetworkTypes
      PROVE  /\ GivesObject(NetworkAddress(obj)) /\ GivesObject(BroadcastAddress(obj))
             /\ GivesObject(Netmask(obj)) /\ GivesObject(SupernetOf(obj))
  <2>1. IsNet(obj.prefix)
    BY <1>1, <1>4, ObjectIs
  <2>2. /\ IsAddress(MaskOf(obj.prefix)) /\ IsAddress(LastOf(obj.prefix))
        /\ IsAddress(FirstOf(obj.prefix))
    BY <2>1, MaskIs DEF IsNet, FirstOf
  <2>3. GivesObject(NetworkAddress(obj))
    BY <2>2, AddressIsObject, ReturnedSucceeds DEF NetworkAddress, GivesObject
  <2>4. GivesObject(Netmask(obj))
    BY <2>2, AddressIsObject, ReturnedSucceeds DEF Netmask, GivesObject
  <2>5. GivesObject(Returned(AddressOf(LastOf(obj.prefix))))
    BY <2>2, AddressIsObject, ReturnedSucceeds DEF GivesObject
  <2>6. GivesObject(Raised("FamilyError"))
    BY DEF GivesObject, Succeeds, Raised
  <2>7. GivesObject(BroadcastAddress(obj))
    BY <2>5, <2>6 DEF BroadcastAddress
  <2> QED BY <1>1, <1>4, <2>3, <2>4, <2>7, SupernetIsObject
<1>5. CASE obj.type \in NetworkTypes /\ Make("network_address", NetworkAddress(obj))
  BY <1>2, <1>4, <1>5, MakeHolds
<1>6. CASE obj.type \in NetworkTypes /\ Make("broadcast_address", BroadcastAddress(obj))
  BY <1>2, <1>4, <1>6, MakeHolds
<1>7. CASE obj.type \in NetworkTypes /\ Make("netmask", Netmask(obj))
  BY <1>2, <1>4, <1>7, MakeHolds
<1>8. CASE obj.type \in NetworkTypes /\ Make("supernet", SupernetOf(obj))
  BY <1>2, <1>4, <1>8, MakeHolds
<1> QED BY <1>3, <1>5, <1>6, <1>7, <1>8 DEF Derive

\* A call that leaves the objects as they are.
LEMMA CallHolds ==
  ASSUME Holds, NEW call \in QuietCalls, NEW rc, NEW t \in Seq(Token), Called(call, rc, t),
         UNCHANGED <<obj, other, cVars, batchVars>>
  PROVE  Holds' /\ QuietStep /\ last' = [call |-> call, of |-> text, rc |-> rc]
<1>1. TextsHold /\ CallsHold
  BY DEF Holds, CallerHolds
<1>2. /\ TextsHold' /\ CallsHold'
      /\ last' = [call |-> call, of |-> text, rc |-> rc]
  BY <1>1, CalledHolds
<1>3. CallerHolds'
  BY <1>2, QuietKeeps DEF Holds
<1>4. ObjectsHold'
  BY DEF Holds, ObjectsHold
<1>5. QuietStep
  BY <1>2 DEF QuietStep
<1> QED BY <1>2, <1>3, <1>4, <1>5 DEF Holds

LEMMA ShowHolds ==
  ASSUME Holds, Show
  PROVE  Holds' /\ QuietStep
<1>1. IsObject(obj)
  BY DEF Holds, ObjectsHold
<1>2. "str" \in QuietCalls /\ "exploded" \in QuietCalls
  BY DEF QuietCalls
<1>3. UNCHANGED <<obj, other, cVars, batchVars>>
  BY DEF Show
<1>4. CASE obj.type \in AddressTypes /\ Called("str", "none", Compressed(obj))
  BY <1>1, <1>2, <1>3, <1>4, ShownIs, CallHolds
<1>5. CASE obj.type \in AddressTypes /\ Called("exploded", "none", Exploded(obj))
  BY <1>1, <1>2, <1>3, <1>5, ShownIs, CallHolds
<1>6. CASE obj.type \in NetworkTypes /\ Called("str", "none", WithPrefixlen(obj))
  BY <1>1, <1>2, <1>3, <1>6, ShownIs, CallHolds
<1> QED BY <1>4, <1>5, <1>6 DEF Show

LEMMA QuestionHolds ==
  ASSUME Holds, NEW about, NEW r, Question(about, r)
  PROVE  /\ Holds' /\ QuietStep
         /\ last' = [call |-> "question", of |-> text, rc |-> r.exc]
         /\ UNCHANGED <<obj, other>>
         /\ answer' = IF Succeeds(r) THEN [about |-> about, val |-> r.val] ELSE NoAnswer
<1>1. "question" \in QuietCalls /\ text \in Seq(Token)
  BY DEF QuietCalls, Holds, CallerHolds, TextsHold
<1>2. /\ Called("question", r.exc, text) /\ UNCHANGED <<obj, other, cVars, batchVars>>
      /\ answer' = IF Succeeds(r) THEN [about |-> about, val |-> r.val] ELSE NoAnswer
  BY DEF Question
<1>3. Holds' /\ QuietStep /\ last' = [call |-> "question", of |-> text, rc |-> r.exc]
  BY <1>1, <1>2, CallHolds
<1> QED BY <1>2, <1>3

\* Every question of the program is one of these.
LEMMA AskIs ==
  ASSUME Ask
  PROVE  \E about, r : Question(about, r)
BY DEF Ask

LEMMA PyHolds ==
  ASSUME Holds, PyNext
  PROVE  Holds' /\ QuietStep
<1>1. CallerHolds
  BY DEF Holds
<1>2. CASE Edit /\ UNCHANGED pyVars
  <2>1. CallerHolds' /\ UNCHANGED <<cVars, last, batchVars>>
    BY <1>1, <1>2, EditHolds
  <2>2. ObjectsHold'
    BY <1>2 DEF Holds, ObjectsHold, pyVars
  <2> QED BY <2>1, <2>2 DEF Holds, QuietStep
<1>3. CASE NextText /\ UNCHANGED pyVars
  <2>1. CallerHolds' /\ UNCHANGED <<cVars, last, batchVars>>
    BY <1>1, <1>3, NextTextHolds
  <2>2. ObjectsHold'
    BY <1>3 DEF Holds, ObjectsHold, pyVars
  <2> QED BY <2>1, <2>2 DEF Holds, QuietStep
<1>4. CASE Ask
  BY <1>4, AskIs, QuestionHolds
<1> QED BY <1>2, <1>3, <1>4, MakeAddressHolds, MakeNetworkHolds, DeriveHolds, ShowHolds DEF PyNext

----------------------------------------------------------------------------
(* The steps of the program, as far as the properties tell them apart.     *)

StepFillsAddr == last = NoCall /\ UNCHANGED <<last, pfx, class, batchVars, pyVars>>

StepParsesAddr ==
  /\ last' = [call |-> "addr_parse", of |-> text, rc |-> last'.rc]
  /\ Parses(text, [rc |-> last'.rc, out |-> addr'])
  /\ UNCHANGED pyVars

StepParsesPrefix ==
  /\ last' = [call |-> "prefix_parse", of |-> text, rc |-> last'.rc]
  /\ ParsesNet(text, LastPos(text, "/"), Before(text, LastPos(text, "/")),
               [rc |-> last'.rc, out |-> pfx'], pfx)
  /\ UNCHANGED pyVars

StepWrites == last'.call \in {"to_v4", "from_host"} /\ UNCHANGED pyVars

StepClassifies ==
  /\ last' = [call |-> "classify", of |-> text, rc |-> AddrClassify(addr, class).rc]
  /\ class' = AddrClassify(addr, class).out
  /\ UNCHANGED <<addr, pyVars>>

StepParsesBatch ==
  /\ last'.call = "bulk_parse" /\ srcs' \in Seq(Seq(Token))
  /\ BatchIs(srcs', outs, errs, [rc |-> last'.rc, out |-> outs', err |-> errs'])
  /\ UNCHANGED pyVars

Steps == \/ QuietStep \/ StepFillsAddr \/ StepParsesAddr \/ StepParsesPrefix
         \/ StepWrites \/ StepClassifies \/ StepParsesBatch

LEMMA CStepHolds ==
  ASSUME CallerHolds, CNext, UNCHANGED pyVars
  PROVE  CallerHolds' /\ Steps
<1> USE DEF Steps
<1>1. CASE Edit
  BY <1>1, EditHolds DEF QuietStep
<1>2. CASE CallAddrParse
  <2>1. /\ CallerHolds'
        /\ last' = [call |-> "addr_parse", of |-> text, rc |-> AddrParse(text, addr).rc]
        /\ Parses(text, [rc |-> last'.rc, out |-> addr'])
    BY <1>2, AddrParseHolds
  <2>2. last' = [call |-> "addr_parse", of |-> text, rc |-> last'.rc]
    BY <2>1
  <2> QED BY <2>1, <2>2 DEF StepParsesAddr
<1>3. CASE CallPrefixParse
  <2>1. /\ CallerHolds'
        /\ last' = [call |-> "prefix_parse", of |-> text, rc |-> PrefixParse(text, pfx).rc]
        /\ ParsesNet(text, LastPos(text, "/"), Before(text, LastPos(text, "/")),
                     [rc |-> last'.rc, out |-> pfx'], pfx)
    BY <1>3, PrefixParseHolds
  <2>2. last' = [call |-> "prefix_parse", of |-> text, rc |-> last'.rc]
    BY <2>1
  <2> QED BY <2>1, <2>2 DEF StepParsesPrefix
<1>4. CASE NextText
  BY <1>4, NextTextHolds DEF QuietStep
<1>5. CASE CallAddrFormat
  <2>1. UNCHANGED <<cVars, batchVars>>
    BY <1>5 DEF CallAddrFormat
  <2> QED BY <1>5, <2>1, AddrFormatHolds DEF QuietStep, QuietCalls
<1>6. CASE CallPrefixFormat
  <2>1. UNCHANGED <<cVars, batchVars>>
    BY <1>6 DEF CallPrefixFormat
  <2> QED BY <1>6, <2>1, PrefixFormatHolds DEF QuietStep, QuietCalls
<1>7. CASE CallToV4
  BY <1>7, ToV4Holds DEF StepWrites
<1>8. CASE CallClassify
  BY <1>8, ClassifyHolds DEF StepClassifies
<1>9. ASSUME NEW n \in HostLengths, CallFromHost(n)
      PROVE  CallerHolds' /\ Steps
  BY <1>9, FromHostHolds DEF StepWrites
<1>10. ASSUME NEW a \in Fills, FillAddr(a)
       PROVE  CallerHolds' /\ Steps
  BY <1>10, FillAddrHolds DEF StepFillsAddr
<1>11. CASE CallBulkParse
  BY <1>11, BulkParseHolds DEF StepParsesBatch
<1> HIDE DEF Steps
<1> QED BY <1>1, <1>2, <1>3, <1>4, <1>5, <1>6, <1>7, <1>8, <1>9, <1>10, <1>11 DEF CNext

\* What was called last, and on what, stays as the last call left it.
LEMMA StepHolds ==
  ASSUME Holds, [Next]_vars
  PROVE  Holds' /\ Steps
<1>1. CASE CNext /\ UNCHANGED pyVars
  <2>1. CallerHolds' /\ Steps
    BY <1>1, CStepHolds DEF Holds
  <2>2. ObjectsHold'
    BY <1>1 DEF Holds, ObjectsHold, pyVars
  <2> QED BY <2>1, <2>2 DEF Holds
<1>2. CASE caller = "python" /\ PyNext
  BY <1>2, PyHolds DEF Steps
<1>3. CASE UNCHANGED vars
  <2>1. UNCHANGED <<text, left, addr, pfx, class, last, srcs, outs, errs, said, obj, other>>
    BY <1>3 DEF vars, callVars, textVars, cVars, batchVars, pyVars
  <2>2. Holds'
    BY <2>1 DEF Holds, ObjectsHold, CallerHolds, TextsHold, CallsHold, StructsHold, ArraysHold
  <2>3. QuietStep
    BY <2>1 DEF QuietStep, cVars, batchVars
  <2> QED BY <2>2, <2>3 DEF Steps
<1> QED BY <1>1, <1>2, <1>3 DEF Next

LEMMA ProgramStarts == Init => Holds
BY CallerStarts DEF Init, Holds, ObjectsHold, IsObject

\* Texts are texts, every struct and object holds an address or a network that
\* the library may return, and the caller's structs are what the last call that
\* succeeded wrote.
THEOREM ProgramInvariant == Spec => []Holds
<1>1. Init => Holds
  BY ProgramStarts
<1>2. Holds /\ [Next]_vars => Holds'
  BY StepHolds
<1> QED BY <1>1, <1>2, PTL DEF Spec

----------------------------------------------------------------------------
(* The properties of the C caller.                                         *)

FailedParse == last.call = "addr_parse" /\ last.rc # "OK" => addr.family = "UNSPEC"

LEMMA NoCallIs == NoCall.call = "none"
BY DEF NoCall

LEMMA StructIsWhole ==
  ASSUME Holds, FailedParse
  PROVE  WholeOrUnspec
<1>1. /\ addr.family # "UNSPEC" => addr = said.addr
      /\ pfx = said.pfx
      /\ pfx = NoPrefix \/ IsNet(pfx)
  BY DEF Holds, CallerHolds, StructsHold
<1>2. pfx.addr.family # "UNSPEC" => IsNetwork(pfx)
  BY <1>1, NoPrefixIs, NetIsNetwork
<1> QED BY <1>1, <1>2 DEF WholeOrUnspec, FailedParse

\* A struct whose family is not UNSPEC is what the last call that succeeded wrote
\* to it, an address never so after a failed parse, and a network has no host
\* bits.
THEOREM StructsAreWhole == Spec => []WholeOrUnspec
<1>1. Init => Holds /\ FailedParse
  <2>1. CInit => FailedParse
    BY NoCallIs DEF CInit, FailedParse
  <2> QED BY <2>1, ProgramStarts DEF Init
<1>2. Holds /\ FailedParse /\ [Next]_vars => Holds' /\ FailedParse'
  <2> SUFFICES ASSUME Holds, FailedParse, [Next]_vars PROVE Holds' /\ FailedParse'
    OBVIOUS
  <2>1. Holds' /\ Steps
    BY StepHolds
  <2>2. CASE QuietStep
    BY <2>1, <2>2 DEF FailedParse, QuietStep, QuietCalls, cVars
  <2>3. CASE StepFillsAddr
    BY <2>1, <2>3, NoCallIs DEF FailedParse, StepFillsAddr
  <2>4. CASE StepParsesAddr
    <3>1. last'.rc # "OK" => addr'.family = "UNSPEC"
      BY <2>4 DEF StepParsesAddr, Parses
    <3> QED BY <2>1, <3>1 DEF FailedParse
  <2>5. CASE StepParsesPrefix \/ StepWrites \/ StepClassifies \/ StepParsesBatch
    <3>1. last'.call # "addr_parse"
      BY <2>5 DEF StepParsesPrefix, StepWrites, StepClassifies, StepParsesBatch
    <3> QED BY <2>1, <3>1 DEF FailedParse
  <2> QED BY <2>1, <2>2, <2>3, <2>4, <2>5 DEF Steps
<1> QED BY <1>1, <1>2, StructIsWhole, PTL DEF Spec

\* cidr_addr_parse takes the texts of the grammar with their values, and
\* cidr_prefix_parse takes each of them before its slash.
THEOREM ParsersAcceptGrammar == Spec => []AcceptsGrammar
<1>1. Init => Holds /\ AcceptsGrammar
  <2>1. CInit => AcceptsGrammar
    BY NoCallIs DEF CInit, AcceptsGrammar
  <2> QED BY <2>1, ProgramStarts DEF Init
<1>2. Holds /\ AcceptsGrammar /\ [Next]_vars => Holds' /\ AcceptsGrammar'
  <2> SUFFICES ASSUME Holds, AcceptsGrammar, [Next]_vars PROVE Holds' /\ AcceptsGrammar'
    OBVIOUS
  <2>1. Holds' /\ Steps
    BY StepHolds
  <2>2. CASE last'.call \notin {"addr_parse", "prefix_parse"}
    BY <2>1, <2>2 DEF AcceptsGrammar
  <2>3. CASE last' = last /\ UNCHANGED <<addr, pfx>>
    BY <2>1, <2>3 DEF AcceptsGrammar
  <2>4. CASE QuietStep
    <3>1. last' = last => UNCHANGED <<addr, pfx>>
      BY <2>4 DEF QuietStep, cVars
    <3>2. last' # last => last'.call \notin {"addr_parse", "prefix_parse"}
      BY <2>4 DEF QuietStep, QuietCalls
    <3> QED BY <2>2, <2>3, <3>1, <3>2
  <2>5. CASE StepFillsAddr
    <3>1. last'.call = "none"
      BY <2>5, NoCallIs DEF StepFillsAddr
    <3> QED BY <2>2, <3>1
  <2>6. CASE StepParsesAddr
    <3>1. last'.call = "addr_parse" /\ last'.of = text
      BY <2>6 DEF StepParsesAddr
    <3>2. /\ last'.rc = "OK" <=> Taken(last'.of)
          /\ last'.rc = "OK" => addr' = Meaning(last'.of)
      BY <2>6, <3>1 DEF StepParsesAddr, Parses
    <3> QED BY <2>1, <3>1, <3>2 DEF AcceptsGrammar, Taken, Meaning
  <2>7. CASE StepParsesPrefix
    <3>1. last'.call = "prefix_parse" /\ last'.of = text
      BY <2>7 DEF StepParsesPrefix
    <3>2. PICK slash : slash = LastPos(text, "/")
      OBVIOUS
    <3>3. ParsesNet(text, slash, Before(text, slash), [rc |-> last'.rc, out |-> pfx'], pfx)
      BY <2>7, <3>2 DEF StepParsesPrefix
    <3>4. /\ last'.rc # "PARSE" <=> slash > 0 /\ Taken(Before(text, slash))
          /\ last'.rc = "OK" => pfx'.addr = Meaning(Before(text, slash))
      BY <3>3 DEF ParsesNet
    <3> QED BY <2>1, <3>1, <3>2, <3>4 DEF AcceptsGrammar, Taken, Meaning
  <2>8. CASE StepWrites \/ StepClassifies \/ StepParsesBatch
    <3>1. last'.call \notin {"addr_parse", "prefix_parse"}
      BY <2>8 DEF StepWrites, StepClassifies, StepParsesBatch
    <3> QED BY <2>2, <3>1
  <2> QED BY <2>1, <2>4, <2>5, <2>6, <2>7, <2>8 DEF Steps
<1> QED BY <1>1, <1>2, PTL DEF Spec

TwoFamilies(alone, ok) == \E i, j \in ok : alone[i].out.family # alone[j].out.family

\* What BulkVerdict says of a batch.
IsVerdict(ts, r) ==
  LET alone == [i \in DOMAIN ts |-> AddrParse(ts[i], NoAddr)]
      ok    == {i \in DOMAIN ts : alone[i].rc = "OK"}
  IN  /\ \A i \in DOMAIN ts : /\ r.err[i] = alone[i].rc
                               /\ r.out[i].family = alone[i].out.family
                               /\ r.out[i] = IF i \in ok THEN alone[i].out ELSE NoAddr
      /\ r.rc = "FAMILY" <=> TwoFamilies(alone, ok)
      /\ r.rc = "PARSE" <=> ~TwoFamilies(alone, ok) /\ ok # DOMAIN ts

LEMMA VerdictIsBulk ==
  ASSUME NEW ts \in Seq(Seq(Token)), NEW out, NEW err, NEW r, BatchIs(ts, out, err, r)
  PROVE  IsVerdict(ts, r)
<1> DEFINE alone == [i \in DOMAIN ts |-> AddrParse(ts[i], NoAddr)]
           ok    == {i \in DOMAIN ts : alone[i].rc = "OK"}
<1>1. DOMAIN ts = 1 .. Len(ts) /\ \A i \in DOMAIN ts : ts[i] \in Seq(Token)
  OBVIOUS
<1>2. \A i \in DOMAIN ts : alone[i] = Alone(ts[i])
  BY DEF Alone
<1>3. ok = Parsed(ts, Len(ts))
  BY <1>1, <1>2 DEF Parsed
<1>4. ASSUME NEW i \in DOMAIN ts
      PROVE  /\ r.err[i] = alone[i].rc
             /\ r.out[i].family = alone[i].out.family
             /\ r.out[i] = IF i \in ok THEN alone[i].out ELSE NoAddr
  <2>1. i \in 1 .. Len(ts) /\ alone[i] = Alone(ts[i]) /\ ts[i] \in Seq(Token)
    BY <1>1, <1>2
  <2>2. r.err[i] = Alone(ts[i]).rc /\ r.out[i] = Verdict(ts[i])
    BY <2>1 DEF BatchIs
  <2>3. i \in ok <=> Alone(ts[i]).rc = "OK"
    BY <2>1
  <2>4. Alone(ts[i]).rc # "OK" => Alone(ts[i]).out.family = "UNSPEC"
    BY <2>1, ParseAlone, NoAddrIsCell
  <2> QED BY <2>1, <2>2, <2>3, <2>4, NoPrefixIs DEF Verdict
<1>5. TwoFamilies(alone, ok) <=>
        \E i, j \in Parsed(ts, Len(ts)) : FamilyAt(ts, i) # FamilyAt(ts, j)
  <2>1. \A i \in ok : alone[i].out.family = FamilyAt(ts, i)
    BY <1>2 DEF FamilyAt
  <2> HIDE DEF alone, ok
  <2> QED BY ONLY <1>3, <2>1 DEF TwoFamilies
<1>6. r.rc = IF TwoFamilies(alone, ok) THEN "FAMILY"
             ELSE IF ok # DOMAIN ts THEN "PARSE" ELSE "OK"
  <2> HIDE DEF alone, ok
  <2> QED BY <1>1, <1>3, <1>5 DEF BatchIs
<1>7. /\ r.rc = "FAMILY" <=> TwoFamilies(alone, ok)
      /\ r.rc = "PARSE" <=> ~TwoFamilies(alone, ok) /\ ok # DOMAIN ts
  <2> HIDE DEF alone, ok
  <2> QED BY ONLY <1>6
<1> QED BY <1>4, <1>7 DEF IsVerdict

\* Every item of a batch gets what it would get alone, whatever its neighbours
\* are and the arrays held.
THEOREM BatchesAreVerdicts == Spec => []BulkVerdict
<1>1. Init => Holds /\ BulkVerdict
  <2>1. CInit => BulkVerdict
    BY NoCallIs DEF CInit, BulkVerdict
  <2> QED BY <2>1, ProgramStarts DEF Init
<1>2. Holds /\ BulkVerdict /\ [Next]_vars => Holds' /\ BulkVerdict'
  <2> SUFFICES ASSUME Holds, BulkVerdict, [Next]_vars PROVE Holds' /\ BulkVerdict'
    OBVIOUS
  <2>1. Holds' /\ Steps
    BY StepHolds
  <2>2. CASE last'.call # "bulk_parse"
    BY <2>1, <2>2 DEF BulkVerdict
  <2>3. CASE last' = last /\ UNCHANGED batchVars
    <3>1. UNCHANGED <<srcs, outs, errs>>
      BY <2>3 DEF batchVars
    <3> QED BY <2>1, <2>3, <3>1 DEF BulkVerdict
  <2>4. CASE QuietStep
    <3>1. last' # last => last'.call # "bulk_parse"
      BY <2>4 DEF QuietStep, QuietCalls
    <3> QED BY <2>2, <2>3, <2>4, <3>1 DEF QuietStep
  <2>5. CASE StepFillsAddr
    BY <2>3, <2>5 DEF StepFillsAddr
  <2>6. CASE StepParsesBatch
    <3>1. PICK ts, r : ts = srcs' /\ r = [rc |-> last'.rc, out |-> outs', err |-> errs']
      OBVIOUS
    <3>2. ts \in Seq(Seq(Token)) /\ BatchIs(ts, outs, errs, r)
      BY <2>6, <3>1 DEF StepParsesBatch
    <3>3. IsVerdict(ts, r)
      BY <3>2, VerdictIsBulk
    <3>4. r.err = errs' /\ r.out = outs' /\ r.rc = last'.rc
      BY <3>1
    <3> QED BY <2>1, <3>1, <3>3, <3>4 DEF BulkVerdict, IsVerdict, TwoFamilies
  <2>7. CASE StepParsesAddr \/ StepParsesPrefix \/ StepWrites \/ StepClassifies
    <3>1. last'.call # "bulk_parse"
      BY <2>7 DEF StepParsesAddr, StepParsesPrefix, StepWrites, StepClassifies
    <3> QED BY <2>2, <3>1
  <2> QED BY <2>1, <2>4, <2>5, <2>6, <2>7 DEF Steps
<1> QED BY <1>1, <1>2, PTL DEF Spec

LEMMA TextIsCanonical ==
  ASSUME Holds
  PROVE  CanonicalText
<1>1. ASSUME addr.family # "UNSPEC", NEW t, t = AddrFormat(addr).text,
             NEW gs, gs = [i \in 0 .. 7 |-> Group(addr.bytes, i)]
      PROVE  /\ IsAddressText(t)
             /\ Denoted(t) = addr
             /\ Width(t) < CIDR_ADDR_STR_MAX
             /\ \A p \in DOMAIN t : ~LeadingZero(t[p])
             /\ addr.family = "INET6" =>
                  IF MappedPrefix(addr.bytes) THEN HasQuad(t) ELSE ElidesLongestRun(t, gs)
             /\ AddrParse(t, NoAddr) = [rc |-> "OK", out |-> addr]
  <2>1. IsAddress(addr)
    BY <1>1 DEF Holds, CallerHolds, StructsHold
  <2>2. Names(t, addr)
    BY <1>1, <2>1, AddrNamed
  <2>3. AddrParse(t, NoAddr) = [rc |-> "OK", out |-> addr] /\ Width(t) < 46
    BY <2>2, NamedParses
  <2>4. \A p \in DOMAIN t : ~LeadingZero(t[p])
    <3>1. t \in Seq(Token) /\ \A p \in 1 .. Len(t) : IsWritten(t[p])
      BY <2>2 DEF Names
    <3>2. DOMAIN t = 1 .. Len(t)
      BY <3>1, TextIs
    <3> QED BY <3>1, <3>2 DEF IsWritten
  <2>5. gs = GroupsIn(addr.bytes)
    BY <1>1 DEF GroupsIn
  <2> QED BY <2>2, <2>3, <2>4, <2>5 DEF Names, CIDR_ADDR_STR_MAX
<1>2. ASSUME pfx.addr.family # "UNSPEC", NEW t, t = PrefixFormat(pfx).text
      PROVE  /\ Width(t) < CIDR_PREFIX_STR_MAX
             /\ PrefixParse(t, NoPrefix) = [rc |-> "OK", out |-> pfx]
  <2>1. IsNet(pfx)
    BY <1>2, NoPrefixIs DEF Holds, CallerHolds, StructsHold
  <2> QED BY <1>2, <2>1, PrefixNamed DEF NamesNet, CIDR_PREFIX_STR_MAX
<1> QED BY <1>1, <1>2 DEF CanonicalText

\* The text of what a caller holds is the canonical one, fits the buffer and
\* is read back as the same struct.
THEOREM TextsAreCanonical == Spec => []CanonicalText
<1>1. Holds => CanonicalText
  BY TextIsCanonical
<1> QED BY <1>1, ProgramInvariant, PTL

----------------------------------------------------------------------------
(* The texts of an object construct it again.                              *)

\* A text with no character that a str may have and a C string may not.
IsPlain(t) == t \in Seq(Token) /\ \A p \in 1 .. Len(t) : t[p].c \in {"hex", ":", ".", "/"}

LEMMA PlainIs ==
  ASSUME NEW t, IsPlain(t)
  PROVE  Encodable(t) /\ CString(t) = t
<1>1. t \in Seq(Token) /\ Len(t) \in Nat /\ \A p \in 1 .. Len(t) : t[p].c \in {"hex", ":", ".", "/"}
  BY DEF IsPlain
<1>2. ASSUME NEW c \in {"sur", "nul"} PROVE LastPos(t, c) = 0
  <2>1. LastPos(t, c) \in 0 .. Len(t) /\ (LastPos(t, c) > 0 => t[LastPos(t, c)].c = c)
    BY <1>1, LastPosIs
  <2>2. ASSUME LastPos(t, c) > 0 PROVE FALSE
    <3>1. LastPos(t, c) \in 1 .. Len(t)
      BY <1>1, <2>1, <2>2
    <3> QED BY <1>1, <2>1, <2>2, <3>1
  <2> QED BY <1>1, <2>1, <2>2
<1> QED BY <1>2 DEF Encodable, CString

LEMMA WrittenIsPlain ==
  ASSUME NEW t \in Seq(Token), \A p \in 1 .. Len(t) : IsWritten(t[p])
  PROVE  IsPlain(t)
BY DEF IsPlain, IsWritten

\* The eight groups with four digits each.
LEMMA ExplodedParses ==
  ASSUME NEW b \in [V6Bytes -> 0 .. 255], NEW t, t = ExplodedText(b)
  PROVE  IsPlain(t) /\ AddrParse(t, NoAddr) = [rc  |-> "OK",
                                               out |-> [family |-> "INET6", bytes |-> b]]
<1>1. t \in Seq(Token) /\ Len(t) = 15 /\ DOMAIN t = 1 .. 15
  <2>1. t \in Seq(Token)
    BY ExplodedIs
  <2>2. DOMAIN t = 1 .. 15
    BY DEF ExplodedText
  <2>3. DOMAIN t = 1 .. Len(t) /\ Len(t) \in Nat
    BY <2>1, TextIs
  <2>4. Len(t) = 15
    BY <2>2, <2>3
  <2> QED BY <2>1, <2>2, <2>4
<1>2. ASSUME NEW i \in 0 .. 7
      PROVE  /\ t[2 * i + 1] = Hex(Group(b, i), 4) /\ t[2 * i + 1].v = Group(b, i)
             /\ IsGroup(t[2 * i + 1])
  <2>1. 2 * i + 1 \in 1 .. 15 /\ (2 * i + 1) % 2 = 1 /\ (2 * i + 1) \div 2 = i
    OBVIOUS
  <2>2. t[2 * i + 1] = Hex(Group(b, i), 4)
    BY <2>1 DEF ExplodedText
  <2>3. Group(b, i) \in Word
    BY GroupIsWord
  <2> QED BY <2>2, <2>3, Hex16Is
<1>3. ASSUME NEW p \in 1 .. 15
      PROVE  /\ p % 2 = 1 => IsGroup(t[p])
             /\ p % 2 # 1 => t[p] = Char(":") /\ t[p].c = ":"
  <2>1. CASE p % 2 = 1
    <3>1. PICK i : i = p \div 2
      OBVIOUS
    <3>2. i \in 0 .. 7 /\ p = 2 * i + 1
      BY <2>1, <3>1
    <3> QED BY <1>2, <2>1, <3>2
  <2>2. CASE p % 2 # 1
    <3>1. t[p] = Char(":")
      BY <2>2 DEF ExplodedText
    <3> QED BY <2>2, <3>1, CharIsWritten
  <2> QED BY <2>1, <2>2
<1>4. IsPlain(t)
  <2>1. \A p \in 1 .. 15 : t[p].c \in {"hex", ":", ".", "/"}
    BY <1>3 DEF IsGroup
  <2> QED BY <1>1, <2>1 DEF IsPlain
<1>5. IsGroups(t)
  BY <1>1, <1>3 DEF IsGroups, IsListOf
<1>6. Gaps(t) = {} /\ IsHexadecimal(t) /\ GroupsOf(t) = [i \in 0 .. 7 |-> Items(t)[i + 1].v]
  BY <1>1, <1>5, FullText
<1>7. ~HasQuad(t)
  BY <1>1, <1>6, QuadIsMixed
<1>8. InGroups(t) = t
  BY <1>7 DEF InGroups
<1>9. LastPos(t, ":") > 0
  <2>1. 2 \in 1 .. 15 /\ 2 % 2 # 1
    OBVIOUS
  <2>2. t[2].c = ":" /\ 2 \in 1 .. Len(t)
    BY <1>1, <1>3, <2>1
  <2> QED BY <1>1, <2>2, HasColon
<1>10. BytesOfGroups(GroupsOf(t)) = b
  <2>1. ASSUME NEW i \in 0 .. 7 PROVE GroupsOf(t)[i] = Group(b, i)
    <3>1. GroupsOf(t)[i] = Items(t)[i + 1].v
      BY <1>6
    <3>2. i + 1 \in 1 .. (15 + 1) \div 2 /\ 2 * (i + 1) - 1 = 2 * i + 1
      OBVIOUS
    <3>3. Items(t)[i + 1] = t[2 * (i + 1) - 1]
      BY <1>1, <3>2 DEF Items
    <3> QED BY <1>2, <3>1, <3>2, <3>3
  <2> QED BY <2>1, BytesAgain
<1>11. IsIPv6Text(t) /\ ~IsDottedQuad(t)
  BY <1>1, <1>6, <1>7, <1>8, <1>9, ColonIsNoQuad DEF IsIPv6Text
<1>12. Taken(t) /\ Meaning(t) = [family |-> "INET6", bytes |-> b]
  BY <1>8, <1>10, <1>11 DEF Taken, Meaning, IsAddressText, Denoted
<1>13. PICK r : r = AddrParse(t, NoAddr)
  OBVIOUS
<1>14. Parses(t, r)
  BY <1>1, <1>13, NoAddrIsCell, ParserIsGrammar
<1>15. r.rc = "OK" /\ r.out = [family |-> "INET6", bytes |-> b]
  BY <1>12, <1>14 DEF Parses
<1>16. r = [rc |-> r.rc, out |-> r.out]
  BY <1>13, ParseShape DEF IsResult
<1> QED BY <1>4, <1>13, <1>15, <1>16

LEMMA SpelledConstructs ==
  ASSUME NEW a, IsAddress(a), NEW t, IsPlain(t), AddrParse(t, NoAddr) = [rc |-> "OK", out |-> a]
  PROVE  AddressNew(Str(t), a.family) = Returned(AddressOf(a))
<1>1. StringToAddr(t, a.family) = Returned(a)
  BY PlainIs DEF StringToAddr, OfFamily
<1>2. AddressMade(Returned(a), a.family) = Returned(AddressOf(a))
  BY ReturnedSucceeds DEF AddressMade, AddressOf
<1>3. AddressNew(Str(t), a.family) = AddressMade(StringToAddr(t, a.family), a.family)
  BY AddressNewIs
<1> QED BY <1>1, <1>2, <1>3

LEMMA ObjectReconstructs ==
  ASSUME NEW o, IsObject(o)
  PROVE  Reconstructs(o)
<1>1. ASSUME o.type \in AddressTypes, NEW t \in {Compressed(o), Exploded(o)}
      PROVE  AddressNew(Str(t), FamilyOf(o)) = Returned(o)
  <2>1. IsAddress(o.addr) /\ o = AddressOf(o.addr) /\ FamilyOf(o) = o.addr.family
    BY <1>1, ObjectIs DEF FamilyOf
  <2>2. ASSUME t = Compressed(o)
        PROVE  IsPlain(t) /\ AddrParse(t, NoAddr) = [rc |-> "OK", out |-> o.addr]
    <3>1. Names(t, o.addr)
      BY <2>1, <2>2, AddrNamed DEF Compressed
    <3>2. IsPlain(t)
      BY <3>1, WrittenIsPlain DEF Names
    <3> QED BY <3>1, <3>2, NamedParses
  <2>3. ASSUME t = Exploded(o), o.type # "IPv4Address"
        PROVE  IsPlain(t) /\ AddrParse(t, NoAddr) = [rc |-> "OK", out |-> o.addr]
    <3>1. o.type = AddressType(o.addr.family)
      BY <2>1 DEF AddressOf
    <3>2. o.addr.family = "INET6"
      BY <2>1, <2>3, <3>1 DEF AddressType, IsAddress
    <3>3. /\ o.addr = [family |-> "INET6", bytes |-> o.addr.bytes]
          /\ o.addr.bytes \in [V6Bytes -> 0 .. 255]
      BY <2>1, <3>2 DEF IsAddress, BytesOf
    <3>4. t = ExplodedText(o.addr.bytes)
      BY <2>3 DEF Exploded, ExplodedText
    <3> QED BY <3>3, <3>4, ExplodedParses
  <2>4. IsPlain(t) /\ AddrParse(t, NoAddr) = [rc |-> "OK", out |-> o.addr]
    <3>1. o.type = "IPv4Address" => Exploded(o) = Compressed(o)
      BY DEF Exploded
    <3> QED BY <1>1, <2>2, <2>3, <3>1
  <2> QED BY <2>1, <2>4, SpelledConstructs
<1>2. ASSUME o.type \in NetworkTypes
      PROVE  NetworkNew(Str(WithPrefixlen(o)), FamilyOf(o), TRUE) = Returned(o)
  <2>1. PICK p, t : p = o.prefix /\ t = WithPrefixlen(o)
    OBVIOUS
  <2>2. IsNet(p) /\ o = NetworkOf(p)
    BY <1>2, <2>1, ObjectIs
  <2>3. o.type \notin AddressTypes
    BY <1>2 DEF NetworkTypes, AddressTypes
  <2>4. FamilyOf(o) = p.addr.family
    BY <2>1, <2>3 DEF FamilyOf
  <2>5. NamesNet(t, p)
    BY <2>1, <2>2, PrefixNamed DEF WithPrefixlen
  <2>6. IsPlain(t) /\ PrefixParse(t, NoPrefix) = [rc |-> "OK", out |-> p]
    BY <2>5, WrittenIsPlain DEF NamesNet
  <2>7. StrictParse(t, p.addr.family) = Returned(p)
    BY <2>6 DEF StrictParse
  <2>8. ConstructNetwork(Str(t), p.addr.family, TRUE) = Returned(p)
    BY <2>6, <2>7, PlainIs DEF ConstructNetwork, Str
  <2>9. NetworkMade(Returned(p), p.addr.family) = Returned(o)
    BY <2>2, ReturnedSucceeds DEF NetworkMade, NetworkOf
  <2>10. NetworkNew(Str(t), p.addr.family, TRUE) = Returned(o)
    BY <2>8, <2>9, NetworkNewIs
  <2> QED BY <2>1, <2>4, <2>10
<1> QED BY <1>1, <1>2 DEF Reconstructs

LEMMA ObjectIsWellFormed ==
  ASSUME NEW o, IsObject(o)
  PROVE  WellFormed(o)
<1>1. ASSUME o.type \in AddressTypes
      PROVE  o.type = AddressType(o.addr.family) /\ DOMAIN o.addr.bytes = BytesOf(o.addr.family)
  <2>1. IsAddress(o.addr) /\ o = AddressOf(o.addr)
    BY <1>1, ObjectIs
  <2> QED BY <2>1 DEF AddressOf, IsAddress
<1>2. ASSUME o.type \in NetworkTypes
      PROVE  o.type = NetworkType(o.prefix.addr.family) /\ IsNetwork(o.prefix)
  <2>1. IsNet(o.prefix) /\ o = NetworkOf(o.prefix)
    BY <1>2, ObjectIs
  <2> QED BY <2>1, NetIsNetwork DEF NetworkOf
<1> QED BY <1>1, <1>2 DEF WellFormed

----------------------------------------------------------------------------
(* Questions about addresses and networks of one family.                   *)

LEMMA RawNet4 ==
  ASSUME NEW p, IsNet(p), p.addr.family = "INET"
  PROVE  /\ S4!IsPrefix(Raw(p)) /\ S4!IsEntry(Raw(p))
         /\ Raw(p).addr = p.addr.bytes /\ Raw(p).pfxlen = p.pfxlen
         /\ p = [addr |-> [family |-> "INET", bytes |-> Raw(p).addr], pfxlen |-> Raw(p).pfxlen]
         /\ FirstOf(p) = [family |-> "INET", bytes |-> S4!First(Raw(p))]
         /\ LastOf(p) = [family |-> "INET", bytes |-> S4!Last(Raw(p))]
<1>1. /\ p = [addr |-> p.addr, pfxlen |-> p.pfxlen]
      /\ p.addr = [family |-> "INET", bytes |-> p.addr.bytes]
      /\ p.addr.bytes \in S4!Address /\ p.pfxlen \in S4!Pfxlen
      /\ MaskedTo(p.addr, p.pfxlen) = p.addr
  BY Shape4 DEF IsNet, IsAddress, BytesOf, MaxLen
<1>2. Raw(p).addr = p.addr.bytes /\ Raw(p).pfxlen = p.pfxlen
  BY DEF Raw
<1>3. S4!MaskApply(p.addr.bytes, p.pfxlen) = p.addr.bytes
  <2>1. MaskedTo(p.addr, p.pfxlen).bytes = V4!MaskApply(p.addr.bytes, p.pfxlen)
    BY <1>1 DEF MaskedTo
  <2> QED BY <1>1, <2>1, Same4
<1>4. S4!IsPrefix(Raw(p)) /\ S4!IsEntry(Raw(p))
  BY <1>1, <1>2, <1>3 DEF S4!IsPrefix, S4!IsEntry
<1>5. FirstOf(p) = [family |-> "INET", bytes |-> S4!First(Raw(p))]
  BY <1>1, <1>2 DEF FirstOf, S4!First
<1>6. LastOf(p) = [family |-> "INET", bytes |-> S4!Last(Raw(p))]
  <2>1. V4!Last(Raw(p)) = S4!Last(Raw(p))
    BY Same4
  <2> QED BY <1>1, <2>1 DEF LastOf
<1> QED BY <1>1, <1>2, <1>4, <1>5, <1>6

LEMMA RawNet6 ==
  ASSUME NEW p, IsNet(p), p.addr.family = "INET6"
  PROVE  /\ S6!IsPrefix(Raw(p)) /\ S6!IsEntry(Raw(p))
         /\ Raw(p).addr = p.addr.bytes /\ Raw(p).pfxlen = p.pfxlen
         /\ p = [addr |-> [family |-> "INET6", bytes |-> Raw(p).addr], pfxlen |-> Raw(p).pfxlen]
         /\ FirstOf(p) = [family |-> "INET6", bytes |-> S6!First(Raw(p))]
         /\ LastOf(p) = [family |-> "INET6", bytes |-> S6!Last(Raw(p))]
<1>1. /\ p = [addr |-> p.addr, pfxlen |-> p.pfxlen]
      /\ p.addr = [family |-> "INET6", bytes |-> p.addr.bytes]
      /\ p.addr.bytes \in S6!Address /\ p.pfxlen \in S6!Pfxlen
      /\ MaskedTo(p.addr, p.pfxlen) = p.addr
  BY Shape6 DEF IsNet, IsAddress, BytesOf, MaxLen
<1>2. Raw(p).addr = p.addr.bytes /\ Raw(p).pfxlen = p.pfxlen
  BY DEF Raw
<1>3. S6!MaskApply(p.addr.bytes, p.pfxlen) = p.addr.bytes
  <2>1. MaskedTo(p.addr, p.pfxlen).bytes = V6!MaskApply(p.addr.bytes, p.pfxlen)
    BY <1>1 DEF MaskedTo
  <2> QED BY <1>1, <2>1, Same6
<1>4. S6!IsPrefix(Raw(p)) /\ S6!IsEntry(Raw(p))
  BY <1>1, <1>2, <1>3 DEF S6!IsPrefix, S6!IsEntry
<1>5. FirstOf(p) = [family |-> "INET6", bytes |-> S6!First(Raw(p))]
  BY <1>1, <1>2 DEF FirstOf, S6!First
<1>6. LastOf(p) = [family |-> "INET6", bytes |-> S6!Last(Raw(p))]
  <2>1. V6!Last(Raw(p)) = S6!Last(Raw(p))
    BY Same6
  <2> QED BY <1>1, <2>1 DEF LastOf
<1> QED BY <1>1, <1>2, <1>4, <1>5, <1>6

\* Raw values name the networks of one family.
LEMMA SameNet ==
  ASSUME NEW p, NEW q, IsNet(p), IsNet(q), p.addr.family = q.addr.family,
         p.addr.bytes = q.addr.bytes, p.pfxlen = q.pfxlen
  PROVE  p = q
BY DEF IsNet, IsAddress

LEMMA InSpan4 ==
  ASSUME NEW p, NEW a, a.family = "INET"
  PROVE  InSpan(p, a) <=> /\ ~S4!AddrLess(a.bytes, FirstOf(p).bytes)
                          /\ LastOf(p).family = "INET" => ~S4!AddrLess(LastOf(p).bytes, a.bytes)
                          /\ LastOf(p).family # "INET" => ~V6!AddrLess(LastOf(p).bytes, a.bytes)
BY Same4 DEF InSpan, Less

LEMMA InSpan6 ==
  ASSUME NEW p, NEW a, a.family = "INET6"
  PROVE  InSpan(p, a) <=> /\ ~S6!AddrLess(a.bytes, FirstOf(p).bytes)
                          /\ LastOf(p).family = "INET6" => ~S6!AddrLess(LastOf(p).bytes, a.bytes)
                          /\ LastOf(p).family # "INET6" => ~Less(LastOf(p), a)
BY Same6 DEF InSpan, Less

\* contains is membership in the range of addresses.
LEMMA ContainsIsInSpan ==
  ASSUME NEW p, IsNet(p), NEW a, IsAddress(a), a.family = p.addr.family
  PROVE  ContainsAddr(p, a) <=> InSpan(p, a)
<1>1. CASE a.family = "INET"
  <2>1. a.bytes \in S4!Address
    BY <1>1, Shape4 DEF IsAddress, BytesOf
  <2>2. S4!IsPrefix(Raw(p))
    BY <1>1, RawNet4
  <2>3. S4!Contains(Raw(p), a.bytes) <=> S4!IsBetween(Raw(p), a.bytes)
    BY <2>1, <2>2, Widths, S4!ContainsIsBetween
  <2>4. ContainsAddr(p, a) <=> S4!Contains(Raw(p), a.bytes)
    BY <1>1, Same4 DEF ContainsAddr
  <2>5. /\ FirstOf(p) = [family |-> "INET", bytes |-> S4!First(Raw(p))]
        /\ LastOf(p) = [family |-> "INET", bytes |-> S4!Last(Raw(p))]
    BY <1>1, RawNet4
  <2>6. InSpan(p, a) <=> S4!IsBetween(Raw(p), a.bytes)
    BY <1>1, <2>5, InSpan4 DEF S4!IsBetween
  <2> QED BY <2>3, <2>4, <2>6
<1>2. CASE a.family = "INET6"
  <2>1. a.bytes \in S6!Address
    BY <1>2, Shape6 DEF IsAddress, BytesOf
  <2>2. S6!IsPrefix(Raw(p))
    BY <1>2, RawNet6
  <2>3. S6!Contains(Raw(p), a.bytes) <=> S6!IsBetween(Raw(p), a.bytes)
    BY <2>1, <2>2, Widths, S6!ContainsIsBetween
  <2>4. ContainsAddr(p, a) <=> S6!Contains(Raw(p), a.bytes)
    BY <1>2, Same6 DEF ContainsAddr
  <2>5. /\ FirstOf(p) = [family |-> "INET6", bytes |-> S6!First(Raw(p))]
        /\ LastOf(p) = [family |-> "INET6", bytes |-> S6!Last(Raw(p))]
    BY <1>2, RawNet6
  <2>6. InSpan(p, a) <=> S6!IsBetween(Raw(p), a.bytes)
    BY <1>2, <2>5, InSpan6 DEF S6!IsBetween
  <2> QED BY <2>3, <2>4, <2>6
<1> QED BY <1>1, <1>2 DEF IsAddress

\* overlaps, by the first addresses.
LEMMA OverlapsIsInSpan ==
  ASSUME NEW p, IsNet(p), NEW q, IsNet(q), p.addr.family = q.addr.family
  PROVE  OverlapsNet(p, q) <=> InSpan(p, FirstOf(q)) \/ InSpan(q, FirstOf(p))
<1>1. IsAddress(p.addr) /\ IsAddress(q.addr) /\ FirstOf(p) = p.addr /\ FirstOf(q) = q.addr
  BY DEF IsNet, FirstOf
<1>2. /\ ContainsAddr(p, q.addr) <=> InSpan(p, FirstOf(q))
      /\ ContainsAddr(q, p.addr) <=> InSpan(q, FirstOf(p))
  BY <1>1, ContainsIsInSpan
<1>3. OverlapsNet(p, q) <=> ContainsAddr(p, q.addr) \/ ContainsAddr(q, p.addr)
  <2>1. CASE p.addr.family = "INET"
    BY <2>1 DEF OverlapsNet, ContainsAddr, V4!Overlaps, Raw
  <2>2. CASE p.addr.family # "INET"
    BY <2>2 DEF OverlapsNet, ContainsAddr, V6!Overlaps, Raw
  <2> QED BY <2>1, <2>2
<1> QED BY <1>2, <1>3

----------------------------------------------------------------------------
(* The loose constructor and the strict one.                               *)

\* Both readers of a length give a number its value.
LEMMA StrtolReads ==
  ASSUME NEW u \in Seq(Token), Len(u) = 1, IsDecimal(u[1])
  PROVE  /\ Strtol(u) = DecValue(u[1])
         /\ DecValue(u[1]) <= 128 => ParsePfxlen(u) = DecValue(u[1])
<1>1. ~IsChar(u, 0, "-")
  BY TextIs DEF IsChar
<1>2. Strtol(u) = DecValue(u[1])
  BY <1>1 DEF Strtol
<1> QED BY <1>2 DEF ParsePfxlen

LEMMA NetAround ==
  ASSUME NEW a, IsAddress(a), NEW n \in 0 .. MaxLen(a.family)
  PROVE  InSpan([addr |-> MaskedTo(a, n), pfxlen |-> n], a)
<1>1. PICK p : p = [addr |-> MaskedTo(a, n), pfxlen |-> n]
  OBVIOUS
<1>2. a = [family |-> a.family, bytes |-> a.bytes] /\ a.family \in {"INET", "INET6"}
  BY DEF IsAddress
<1>3. IsNet(p) /\ p.addr.family = a.family
  <2>1. IsNet(p)
    BY <1>1, MaskedIs
  <2> QED BY <1>1, <1>2, <2>1 DEF MaskedTo
<1>4. ContainsAddr(p, a)
  <2>1. CASE a.family = "INET"
    <3>1. a.bytes \in S4!Address /\ n \in S4!Pfxlen
      BY <2>1, Shape4 DEF IsAddress, BytesOf, MaxLen
    <3>2. Raw(p) = [addr |-> S4!MaskApply(a.bytes, n), pfxlen |-> n]
      <4>1. V4!MaskApply(a.bytes, n) = S4!MaskApply(a.bytes, n)
        BY ONLY Same4
      <4> QED BY <1>1, <1>2, <2>1, <4>1 DEF Raw, MaskedTo
    <3>3. S4!Contains([addr |-> S4!MaskApply(a.bytes, n), pfxlen |-> n], a.bytes)
      BY ONLY <3>1, Widths, S4!MaskedContains
    <3>4. V4!Contains(Raw(p), a.bytes) <=> S4!Contains(Raw(p), a.bytes)
      BY ONLY Same4
    <3> QED BY <1>3, <2>1, <3>2, <3>3, <3>4 DEF ContainsAddr
  <2>2. CASE a.family = "INET6"
    <3>1. a.bytes \in S6!Address /\ n \in S6!Pfxlen
      BY <2>2, Shape6 DEF IsAddress, BytesOf, MaxLen
    <3>2. Raw(p) = [addr |-> S6!MaskApply(a.bytes, n), pfxlen |-> n]
      <4>1. V6!MaskApply(a.bytes, n) = S6!MaskApply(a.bytes, n)
        BY ONLY Same6
      <4> QED BY <1>1, <1>2, <2>2, <4>1 DEF Raw, MaskedTo
    <3>3. S6!Contains([addr |-> S6!MaskApply(a.bytes, n), pfxlen |-> n], a.bytes)
      BY ONLY <3>1, Widths, S6!MaskedContains
    <3>4. V6!Contains(Raw(p), a.bytes) <=> S6!Contains(Raw(p), a.bytes)
      BY ONLY Same6
    <3> QED BY <1>3, <2>2, <3>2, <3>3, <3>4 DEF ContainsAddr
  <2> QED BY <1>2, <2>1, <2>2
<1> QED BY <1>1, <1>3, <1>4, ContainsIsInSpan

LEMMA LooseIsStrict ==
  ASSUME NEW c \in Seq(Token), NEW f \in {"INET", "INET6"}
  PROVE  LooseAgrees(c, StrictParse(c, f), LooseParse(c, f), f)
<1>1. PICK slash : slash = LastPos(c, "/")
  OBVIOUS
<1>2. PICK host : host = Before(c, slash)
  OBVIOUS
<1>3. PICK a : a = AddrParse(host, NoAddr)
  OBVIOUS
<1>4. PICK n, m : n = ParsePfxlen(After(c, slash)) /\ m = Strtol(After(c, slash))
  OBVIOUS
<1>5. PICK net : net = [addr |-> MaskedTo(a.out, n), pfxlen |-> n]
  OBVIOUS
<1>6. PICK r : r = PrefixParse(c, NoPrefix)
  OBVIOUS
<1>7. r = IF slash <= 1 \/ Width(host) >= CIDR_ADDR_STR_MAX THEN [rc |-> "PARSE", out |-> NoPrefix]
          ELSE IF a.rc # "OK" THEN [rc |-> a.rc, out |-> NoPrefix]
          ELSE IF n = -1 \/ n > MaxLen(a.out.family) THEN [rc |-> "PFXLEN", out |-> NoPrefix]
          ELSE IF net.addr # a.out THEN [rc |-> "HOSTBITS", out |-> NoPrefix]
          ELSE [rc |-> "OK", out |-> net]
  BY <1>1, <1>2, <1>3, <1>4, <1>5, <1>6, PrefixParseIs
<1>8. LooseParse(c, f) = IF slash = 0 \/ Width(host) >= CIDR_ADDR_STR_MAX THEN Raised("ParseError")
                         ELSE LooseNet(a, m, f)
  BY <1>1, <1>2, <1>3, <1>4, LooseIs
<1>9. Len(c) \in Nat /\ slash \in 0 .. Len(c)
  BY <1>1, LastPosIs
<1>10. /\ Succeeds(StrictParse(c, f)) <=> r.rc = "OK" /\ r.out.addr.family = f
       /\ Succeeds(StrictParse(c, f)) => StrictParse(c, f) = Returned(r.out)
       /\ r.rc # "OK" => StrictParse(c, f) = Raised(ErrorOf(r.rc))
  BY <1>6, StrictParseIs
<1>11. ASSUME slash > 0
       PROVE  /\ host \in Seq(Token) /\ After(c, slash) \in Seq(Token) /\ Len(host) = slash - 1
              /\ a.rc \in {"OK", "PARSE"}
              /\ a.rc = "OK" => IsAddress(a.out) /\ slash > 1 /\ a.out = Meaning(host)
              /\ n # -1 => m = n /\ n \in 0 .. 128
              /\ m \in Nat \cup {-1}
  <2>1. slash \in 1 .. Len(c)
    BY <1>9, <1>11
  <2>2. host \in Seq(Token) /\ After(c, slash) \in Seq(Token) /\ Len(host) = slash - 1
    BY <1>2, <2>1, PartsAre
  <2>3. Parses(host, a)
    BY <1>3, <2>2, ParserIsGrammar, NoAddrIsCell
  <2>4. a.rc = "OK" => Len(host) > 0
    BY <2>2, <2>3, TakenIsNotEmpty DEF Parses
  <2>5. n # -1 => m = n
    <3>1. PICK u : u = After(c, slash)
      OBVIOUS
    <3>2. ASSUME n # -1 PROVE Len(u) = 1 /\ IsDecimal(u[1]) /\ n = DecValue(u[1])
      BY <1>4, <3>1, <3>2 DEF ParsePfxlen
    <3> QED BY <1>4, <2>2, <3>1, <3>2, StrtolReads
  <2>6. n # -1 => n \in 0 .. 128
    BY <1>4, <2>2, ParsePfxlenIs
  <2>7. m \in Nat \cup {-1}
    BY <1>4, <2>2, StrtolIs
  <2> QED BY <1>9, <2>2, <2>3, <2>4, <2>5, <2>6, <2>7 DEF Parses
<1>12. ASSUME slash > 0, a.rc = "OK", n # -1, n <= MaxLen(a.out.family)
       PROVE  FromHost(a.out, n, NoPrefix).out = net /\ net.addr.family = a.out.family
  <2>1. IsAddress(a.out) /\ n \in 0 .. 128 /\ n \in Int
    BY <1>11, <1>12
  <2>2. MaxLen(a.out.family) \in Nat
    BY DEF MaxLen
  <2>3. n \in 0 .. MaxLen(a.out.family)
    BY <1>12, <2>1, <2>2
  <2>4. FromHost(a.out, n, NoPrefix).out = net
    BY ONLY <2>1, <2>3, <1>5, FromHostIs
  <2> QED BY <1>5, <2>1, <2>4 DEF MaskedTo, IsAddress
<1>13. ASSUME Succeeds(StrictParse(c, f))
       PROVE  LooseParse(c, f) = StrictParse(c, f)
  <2>1. r.rc = "OK" /\ r.out.addr.family = f /\ StrictParse(c, f) = Returned(r.out)
    BY <1>10, <1>13
  <2>2. /\ ~(slash <= 1) /\ ~(Width(host) >= CIDR_ADDR_STR_MAX) /\ a.rc = "OK"
        /\ n # -1 /\ ~(n > MaxLen(a.out.family)) /\ r.out = net
    BY <1>7, <2>1
  <2>3. slash > 0 /\ slash # 0
    BY <1>9, <2>2
  <2>4. m = n /\ n \in 0 .. 128 /\ IsAddress(a.out)
    BY <1>11, <2>2, <2>3
  <2>5. MaxLen(a.out.family) \in Nat
    BY DEF MaxLen
  <2>6. n <= MaxLen(a.out.family)
    BY <2>2, <2>4, <2>5
  <2>7. FromHost(a.out, n, NoPrefix).out = net /\ a.out.family = f
    BY <1>12, <2>1, <2>2, <2>3, <2>6
  <2>8. LooseNet(a, m, f) = Returned(net)
    BY <2>2, <2>4, <2>7 DEF LooseNet
  <2> QED BY <1>8, <2>1, <2>2, <2>3, <2>8
<1>14. ASSUME Succeeds(LooseParse(c, f)), ~Succeeds(StrictParse(c, f)), n # -1
       PROVE  StrictParse(c, f).exc = "HostBitsError"
  <2>1. ~Succeeds(Raised("ParseError")) /\ ~Succeeds(Raised("FamilyError"))
        /\ ~Succeeds(Raised("PrefixLengthError"))
    BY DEF Succeeds, Raised
  <2>2. slash # 0 /\ ~(Width(host) >= CIDR_ADDR_STR_MAX) /\ Succeeds(LooseNet(a, m, f))
    BY <1>8, <1>14, <2>1
  <2>3. slash > 0
    BY <1>9, <2>2
  <2>4. a.rc = "OK"
    <3>1. ASSUME a.rc # "OK" PROVE FALSE
      <4>1. a.rc = "PARSE"
        BY <1>11, <2>3, <3>1
      <4>2. LooseNet(a, m, f) = Raised(ErrorOf("PARSE"))
        BY <4>1 DEF LooseNet
      <4>3. ErrorOf("PARSE") # "none"
        BY ErrorIs
      <4> QED BY <2>2, <4>2, <4>3, RaisedFails
    <3> QED BY <3>1
  <2>5. a.out.family = f /\ ~(m > MaxLen(f))
    BY <2>1, <2>2, <2>4 DEF LooseNet
  <2>6. m = n /\ n \in 0 .. 128 /\ IsAddress(a.out) /\ slash > 1
    BY <1>11, <1>14, <2>3, <2>4
  <2>7. ~(slash <= 1)
    BY <1>9, <2>6
  <2>8. MaxLen(f) \in Nat
    BY DEF MaxLen
  <2>9. n <= MaxLen(a.out.family)
    BY <2>5, <2>6, <2>8
  <2>10. net.addr.family = f
    BY <1>12, <1>14, <2>3, <2>4, <2>5, <2>9
  <2>11. r = IF net.addr # a.out THEN [rc |-> "HOSTBITS", out |-> NoPrefix]
             ELSE [rc |-> "OK", out |-> net]
    BY <1>7, <1>14, <2>2, <2>4, <2>5, <2>6, <2>7
  <2>12. r.rc # "OK"
    BY <1>10, <1>14, <2>10, <2>11
  <2>13. StrictParse(c, f) = Raised(ErrorOf("HOSTBITS"))
    BY <1>10, <2>11, <2>12
  <2> QED BY <2>13 DEF ErrorOf, Raised
\* What the loose constructor has read when it succeeds.
<1>15. ASSUME Succeeds(LooseParse(c, f))
       PROVE  /\ slash > 0 /\ a.rc = "OK" /\ a.out.family = f /\ IsAddress(a.out)
              /\ a.out = Meaning(host) /\ m \in 0 .. MaxLen(f)
              /\ LooseParse(c, f) = Returned([addr |-> MaskedTo(a.out, m), pfxlen |-> m])
  <2>1. ~Succeeds(Raised("ParseError")) /\ ~Succeeds(Raised("FamilyError"))
        /\ ~Succeeds(Raised("PrefixLengthError"))
    BY DEF Succeeds, Raised
  <2>2. slash # 0 /\ LooseParse(c, f) = LooseNet(a, m, f)
    BY <1>8, <1>15, <2>1
  <2>3. slash > 0
    BY <1>9, <2>2
  <2>4. a.rc = "OK"
    <3>1. ASSUME a.rc # "OK" PROVE FALSE
      <4>1. a.rc = "PARSE"
        BY <1>11, <2>3, <3>1
      <4>2. LooseNet(a, m, f) = Raised(ErrorOf("PARSE"))
        BY <4>1 DEF LooseNet
      <4>3. ErrorOf("PARSE") # "none"
        BY ErrorIs
      <4> QED BY <1>15, <2>2, <4>2, <4>3, RaisedFails
    <3> QED BY <3>1
  <2>5. /\ a.out.family = f /\ m # -1 /\ ~(m > MaxLen(f))
        /\ LooseNet(a, m, f) = Returned(FromHost(a.out, m, NoPrefix).out)
    BY <1>15, <2>1, <2>2, <2>4 DEF LooseNet
  <2>6. IsAddress(a.out) /\ a.out = Meaning(host) /\ m \in Nat \cup {-1}
    BY <1>11, <2>3, <2>4
  <2>7. MaxLen(f) \in Nat
    BY DEF MaxLen
  <2>8. m \in 0 .. MaxLen(f) /\ m \in Int
    BY <2>5, <2>6, <2>7
  <2>9. FromHost(a.out, m, NoPrefix).out = [addr |-> MaskedTo(a.out, m), pfxlen |-> m]
    BY <2>5, <2>6, <2>8, FromHostIs
  <2> QED BY <2>2, <2>3, <2>4, <2>5, <2>6, <2>8, <2>9
<1>16. ASSUME Succeeds(LooseParse(c, f))
       PROVE  InSpan(LooseParse(c, f).val, Meaning(host)) /\ LooseParse(c, f).val.pfxlen = m
  <2>1. PICK p : p = [addr |-> MaskedTo(a.out, m), pfxlen |-> m]
    OBVIOUS
  <2>2. InSpan(p, a.out)
    BY <1>15, <1>16, <2>1, NetAround
  <2>3. LooseParse(c, f).val = p
    BY <1>15, <1>16, <2>1, ReturnedSucceeds
  <2> QED BY <1>15, <1>16, <2>1, <2>2, <2>3
<1>17. ASSUME Succeeds(LooseParse(c, f)), Len(After(c, slash)) = 1, IsDecimal(After(c, slash)[1])
       PROVE  m = DecValue(After(c, slash)[1]) /\ n # -1
  <2>1. PICK u : u = After(c, slash)
    OBVIOUS
  <2>2. u \in Seq(Token) /\ m \in 0 .. MaxLen(f)
    BY <1>11, <1>15, <1>17, <2>1
  <2>3. m = DecValue(u[1]) /\ (m <= 128 => n = m)
    BY <1>4, <1>17, <2>1, <2>2, StrtolReads
  <2>4. m \in Nat /\ m <= 128
    BY <2>2 DEF MaxLen
  <2> QED BY <2>1, <2>3, <2>4
\* What the strict constructor has read when it finds host bits.
<1>18. ASSUME StrictParse(c, f).exc = "HostBitsError", Meaning(host).family = f
       PROVE  Succeeds(LooseParse(c, f))
  <2>1. r.rc = "HOSTBITS"
    <3>1. r.rc \in {"OK", "PARSE", "PFXLEN", "HOSTBITS"}
      BY <1>6, PrefixParserIsGrammar DEF ParsesNet
    <3>2. ErrorOf("PARSE") # "HostBitsError" /\ ErrorOf("PFXLEN") # "HostBitsError"
      BY DEF ErrorOf
    <3>3. ASSUME r.rc # "OK" PROVE ErrorOf(r.rc) = "HostBitsError"
      BY <1>10, <1>18, <3>3 DEF Raised
    <3>4. r.rc # "OK"
      <4>1. ASSUME r.rc = "OK" PROVE StrictParse(c, f).exc # "HostBitsError"
        <5>1. StrictParse(c, f) = IF r.out.addr.family # f THEN Raised("FamilyError")
                                  ELSE Returned(r.out)
          BY <1>6, <4>1 DEF StrictParse
        <5> QED BY <5>1 DEF Raised, Returned
      <4> QED BY <1>18, <4>1
    <3> QED BY <3>1, <3>2, <3>3, <3>4
  <2>2. ~(slash <= 1) /\ ~(Width(host) >= CIDR_ADDR_STR_MAX)
    BY <1>7, <2>1
  <2>3. slash > 0 /\ slash # 0
    BY <1>9, <2>2
  <2>4. a.rc = "OK"
    <3>1. a.rc # "OK" => r.rc = a.rc
      BY <1>7, <2>2
    <3>2. a.rc \in {"OK", "PARSE"}
      BY <1>11, <2>3
    <3> QED BY <2>1, <3>1, <3>2
  <2>5. n # -1 /\ ~(n > MaxLen(a.out.family))
    BY <1>7, <2>1, <2>2, <2>4
  <2>6. m = n /\ n \in 0 .. 128 /\ a.out.family = f
    BY <1>11, <1>18, <2>3, <2>4, <2>5
  <2>7. LooseNet(a, m, f) = Returned(FromHost(a.out, m, NoPrefix).out)
    BY <2>4, <2>5, <2>6 DEF LooseNet
  <2>8. LooseParse(c, f) = LooseNet(a, m, f)
    BY <1>8, <2>2, <2>3
  <2> QED BY <2>7, <2>8, ReturnedSucceeds
<1>19. ASSUME Succeeds(LooseParse(c, f)), Len(After(c, slash)) = 1, IsDecimal(After(c, slash)[1])
       PROVE  /\ Succeeds(StrictParse(c, f)) \/ StrictParse(c, f).exc = "HostBitsError"
              /\ LooseParse(c, f).val.pfxlen = DecValue(After(c, slash)[1])
  <2>1. m = DecValue(After(c, slash)[1]) /\ n # -1
    BY <1>17, <1>19
  <2> QED BY <1>14, <1>16, <1>19, <2>1
<1> QED BY <1>1, <1>2, <1>13, <1>16, <1>18, <1>19 DEF LooseAgrees

LEMMA LooseAgreement ==
  ASSUME NEW t \in Seq(Token), NEW f \in {"INET", "INET6"}
  PROVE  LooseAgrees(CString(t), ConstructNetwork(Str(t), f, TRUE),
                     ConstructNetwork(Str(t), f, FALSE), f)
<1>1. PICK c : c = CString(t)
  OBVIOUS
<1>2. c \in Seq(Token)
  BY <1>1, CStringIs
<1>3. CASE ~Encodable(t)
  <2>1. /\ ConstructNetwork(Str(t), f, TRUE) = Raised("UnicodeEncodeError")
        /\ ConstructNetwork(Str(t), f, FALSE) = Raised("UnicodeEncodeError")
    BY <1>3 DEF ConstructNetwork, Str
  <2>2. /\ ~Succeeds(Raised("UnicodeEncodeError"))
        /\ Raised("UnicodeEncodeError").exc # "HostBitsError"
    BY DEF Succeeds, Raised
  <2> QED BY <2>1, <2>2 DEF LooseAgrees
<1>4. CASE Encodable(t)
  <2>1. /\ ConstructNetwork(Str(t), f, TRUE) = StrictParse(c, f)
        /\ ConstructNetwork(Str(t), f, FALSE) = LooseParse(c, f)
    BY <1>1, <1>4 DEF ConstructNetwork, Str
  <2>2. LooseAgrees(c, StrictParse(c, f), LooseParse(c, f), f)
    BY <1>2, LooseIsStrict
  <2> QED BY <1>1, <2>1, <2>2
<1> QED BY <1>3, <1>4

\* A Python program holds addresses and networks of the type they say they are,
\* with no host bits set; their texts construct them again; the loose constructor
\* makes networks around the addresses in its texts, takes what the strict one
\* takes or rejects for host bits, and of a text with a number for a length takes
\* nothing else.
THEOREM ObjectsAreConstructible == Spec => []NetworkConstructors
<1>1. Holds => NetworkConstructors
  <2> SUFFICES ASSUME Holds PROVE NetworkConstructors
    OBVIOUS
  <2>1. IsObject(obj) /\ last.of \in Seq(Token)
    BY DEF Holds, ObjectsHold, CallerHolds, TextsHold
  <2> QED BY <2>1, ObjectIsWellFormed, ObjectReconstructs, LooseAgreement DEF NetworkConstructors
<1> QED BY <1>1, ProgramInvariant, PTL

----------------------------------------------------------------------------
(* Comparisons.                                                            *)

\* What a comparison c of x with y, and d of y with x, must be.
IsSign(c, d, same) == c \in {-1, 0, 1} /\ (c = 0 <=> same) /\ d = -c

LEMMA AddressesCompare ==
  ASSUME NEW o, NEW q, IsObject(o), IsObject(q), o.type \in AddressTypes, q.type = o.type
  PROVE  /\ IsSign(Cmp(o, q).val, Cmp(q, o).val, o = q)
         /\ Cmp(o, q) = Returned(Cmp(o, q).val) /\ Cmp(q, o) = Returned(Cmp(q, o).val)
<1>1. /\ IsAddress(o.addr) /\ o = AddressOf(o.addr)
      /\ IsAddress(q.addr) /\ q = AddressOf(q.addr)
  BY ObjectIs
<1>2. o.type = AddressType(o.addr.family) /\ q.type = AddressType(q.addr.family)
  BY <1>1 DEF AddressOf
<1>3. {o.type, q.type} \subseteq AddressTypes /\ {q.type, o.type} \subseteq AddressTypes
  OBVIOUS
<1>4. o = q <=> o.addr.bytes = q.addr.bytes
  <2>1. o.addr.family = q.addr.family
    BY <1>1, <1>2 DEF AddressType, IsAddress
  <2> QED BY <1>1, <2>1 DEF IsAddress, AddressOf
<1>5. CASE o.type = "IPv4Address"
  <2>1. o.addr.bytes \in S4!Address /\ q.addr.bytes \in S4!Address
    BY <1>1, <1>2, <1>5, Shape4 DEF AddressType, IsAddress, BytesOf
  <2>2. /\ Cmp(o, q) = Returned(V4!AddrCmp(o.addr.bytes, q.addr.bytes))
        /\ Cmp(q, o) = Returned(V4!AddrCmp(q.addr.bytes, o.addr.bytes))
    BY <1>3, <1>5 DEF Cmp
  <2>3. /\ S4!AddrCmp(o.addr.bytes, q.addr.bytes) \in {-1, 0, 1}
        /\ S4!AddrCmp(o.addr.bytes, q.addr.bytes) = 0 <=> o.addr.bytes = q.addr.bytes
        /\ S4!AddrCmp(q.addr.bytes, o.addr.bytes) = -S4!AddrCmp(o.addr.bytes, q.addr.bytes)
    BY <2>1, Widths, S4!AddrOrder
  <2>4. /\ V4!AddrCmp(o.addr.bytes, q.addr.bytes) = S4!AddrCmp(o.addr.bytes, q.addr.bytes)
        /\ V4!AddrCmp(q.addr.bytes, o.addr.bytes) = S4!AddrCmp(q.addr.bytes, o.addr.bytes)
    BY Same4
  <2> QED BY <1>4, <2>2, <2>3, <2>4, ReturnedSucceeds DEF IsSign
<1>6. CASE o.type = "IPv6Address"
  <2>1. o.addr.bytes \in S6!Address /\ q.addr.bytes \in S6!Address
    BY <1>1, <1>2, <1>6, Shape6 DEF AddressType, IsAddress, BytesOf
  <2>2. /\ Cmp(o, q) = Returned(V6!AddrCmp(o.addr.bytes, q.addr.bytes))
        /\ Cmp(q, o) = Returned(V6!AddrCmp(q.addr.bytes, o.addr.bytes))
    BY <1>3, <1>6 DEF Cmp
  <2>3. /\ S6!AddrCmp(o.addr.bytes, q.addr.bytes) \in {-1, 0, 1}
        /\ S6!AddrCmp(o.addr.bytes, q.addr.bytes) = 0 <=> o.addr.bytes = q.addr.bytes
        /\ S6!AddrCmp(q.addr.bytes, o.addr.bytes) = -S6!AddrCmp(o.addr.bytes, q.addr.bytes)
    BY <2>1, Widths, S6!AddrOrder
  <2>4. /\ V6!AddrCmp(o.addr.bytes, q.addr.bytes) = S6!AddrCmp(o.addr.bytes, q.addr.bytes)
        /\ V6!AddrCmp(q.addr.bytes, o.addr.bytes) = S6!AddrCmp(q.addr.bytes, o.addr.bytes)
    BY Same6
  <2> QED BY <1>4, <2>2, <2>3, <2>4, ReturnedSucceeds DEF IsSign
<1> QED BY <1>5, <1>6 DEF AddressTypes

LEMMA NetworksCompare ==
  ASSUME NEW o, NEW q, IsObject(o), IsObject(q), o.type \in NetworkTypes, q.type = o.type
  PROVE  /\ IsSign(Cmp(o, q).val, Cmp(q, o).val, o = q)
         /\ Cmp(o, q) = Returned(Cmp(o, q).val) /\ Cmp(q, o) = Returned(Cmp(q, o).val)
         /\ o # q /\ WithinSpan(o.prefix, q.prefix) => Cmp(o, q).val = -1
<1>1. PICK p, r : p = o.prefix /\ r = q.prefix
  OBVIOUS
<1>2. IsNet(p) /\ o = NetworkOf(p) /\ IsNet(r) /\ q = NetworkOf(r)
  BY <1>1, ObjectIs
<1>3. o.type = NetworkType(p.addr.family) /\ q.type = NetworkType(r.addr.family)
  BY <1>2 DEF NetworkOf
<1>4. /\ {o.type, q.type} \subseteq NetworkTypes /\ {q.type, o.type} \subseteq NetworkTypes
      /\ p.addr.family \in {"INET", "INET6"} /\ r.addr.family \in {"INET", "INET6"}
  BY <1>2, NetFamily
<1>5. p.addr.family = r.addr.family
  BY <1>3, <1>4 DEF NetworkType
<1>6. o = q <=> p.addr.bytes = r.addr.bytes /\ p.pfxlen = r.pfxlen
  BY <1>1, <1>2, <1>5, SameNet
<1>7. CASE o.type = "IPv4Network"
  <2>1. p.addr.family = "INET" /\ r.addr.family = "INET"
    BY <1>3, <1>4, <1>5, <1>7 DEF NetworkType
  <2>2. PICK x, y : x = Raw(p) /\ y = Raw(r)
    OBVIOUS
  <2>3. /\ S4!IsPrefix(x) /\ S4!IsEntry(x) /\ S4!IsPrefix(y) /\ S4!IsEntry(y)
        /\ x.addr = p.addr.bytes /\ x.pfxlen = p.pfxlen
        /\ y.addr = r.addr.bytes /\ y.pfxlen = r.pfxlen
    BY <1>2, <2>1, <2>2, RawNet4
  <2>4. Cmp(o, q) = Returned(V4!PrefixCmp(x, y)) /\ Cmp(q, o) = Returned(V4!PrefixCmp(y, x))
    BY <1>1, <1>4, <1>7, <2>2 DEF Cmp
  <2>5. V4!PrefixCmp(x, y) = S4!PrefixCmp(x, y) /\ V4!PrefixCmp(y, x) = S4!PrefixCmp(y, x)
    BY Same4
  <2>6. /\ S4!PrefixCmp(x, y) \in {-1, 0, 1}
        /\ S4!PrefixCmp(x, y) = 0 <=> x.addr = y.addr /\ x.pfxlen = y.pfxlen
        /\ S4!PrefixCmp(y, x) = -S4!PrefixCmp(x, y)
    BY <2>3, Widths, S4!PrefixOrder
  <2>7. ASSUME o # q, WithinSpan(p, r) PROVE S4!PrefixCmp(x, y) = -1
    <3>1. InSpan(p, FirstOf(r)) /\ InSpan(p, LastOf(r))
      BY <2>7 DEF WithinSpan
    <3>2. /\ FirstOf(p) = [family |-> "INET", bytes |-> S4!First(x)]
          /\ LastOf(p) = [family |-> "INET", bytes |-> S4!Last(x)]
          /\ FirstOf(r) = [family |-> "INET", bytes |-> S4!First(y)]
          /\ LastOf(r) = [family |-> "INET", bytes |-> S4!Last(y)]
      BY <1>2, <2>1, <2>2, RawNet4
    <3>3. FirstOf(r).family = "INET" /\ LastOf(r).family = "INET" /\ LastOf(p).family = "INET"
          /\ FirstOf(r).bytes = S4!First(y) /\ LastOf(r).bytes = S4!Last(y)
          /\ FirstOf(p).bytes = S4!First(x) /\ LastOf(p).bytes = S4!Last(x)
      BY <3>2
    <3>4. S4!IsBetween(x, S4!First(y))
      BY <3>1, <3>3, InSpan4 DEF S4!IsBetween
    <3>5. S4!IsBetween(x, S4!Last(y))
      BY <3>1, <3>3, InSpan4 DEF S4!IsBetween
    <3> QED BY <1>6, <2>3, <2>7, <3>4, <3>5, Widths, S4!WithinSortsFirst
  <2> QED BY <1>1, <1>6, <2>3, <2>4, <2>5, <2>6, <2>7, ReturnedSucceeds DEF IsSign
<1>8. CASE o.type = "IPv6Network"
  <2>1. p.addr.family = "INET6" /\ r.addr.family = "INET6"
    BY <1>3, <1>4, <1>5, <1>8 DEF NetworkType
  <2>2. PICK x, y : x = Raw(p) /\ y = Raw(r)
    OBVIOUS
  <2>3. /\ S6!IsPrefix(x) /\ S6!IsEntry(x) /\ S6!IsPrefix(y) /\ S6!IsEntry(y)
        /\ x.addr = p.addr.bytes /\ x.pfxlen = p.pfxlen
        /\ y.addr = r.addr.bytes /\ y.pfxlen = r.pfxlen
    BY <1>2, <2>1, <2>2, RawNet6
  <2>4. Cmp(o, q) = Returned(V6!PrefixCmp(x, y)) /\ Cmp(q, o) = Returned(V6!PrefixCmp(y, x))
    BY <1>1, <1>4, <1>8, <2>2 DEF Cmp
  <2>5. V6!PrefixCmp(x, y) = S6!PrefixCmp(x, y) /\ V6!PrefixCmp(y, x) = S6!PrefixCmp(y, x)
    BY Same6
  <2>6. /\ S6!PrefixCmp(x, y) \in {-1, 0, 1}
        /\ S6!PrefixCmp(x, y) = 0 <=> x.addr = y.addr /\ x.pfxlen = y.pfxlen
        /\ S6!PrefixCmp(y, x) = -S6!PrefixCmp(x, y)
    BY <2>3, Widths, S6!PrefixOrder
  <2>7. ASSUME o # q, WithinSpan(p, r) PROVE S6!PrefixCmp(x, y) = -1
    <3>1. InSpan(p, FirstOf(r)) /\ InSpan(p, LastOf(r))
      BY <2>7 DEF WithinSpan
    <3>2. /\ FirstOf(p) = [family |-> "INET6", bytes |-> S6!First(x)]
          /\ LastOf(p) = [family |-> "INET6", bytes |-> S6!Last(x)]
          /\ FirstOf(r) = [family |-> "INET6", bytes |-> S6!First(y)]
          /\ LastOf(r) = [family |-> "INET6", bytes |-> S6!Last(y)]
      BY <1>2, <2>1, <2>2, RawNet6
    <3>3. FirstOf(r).family = "INET6" /\ LastOf(r).family = "INET6" /\ LastOf(p).family = "INET6"
          /\ FirstOf(r).bytes = S6!First(y) /\ LastOf(r).bytes = S6!Last(y)
          /\ FirstOf(p).bytes = S6!First(x) /\ LastOf(p).bytes = S6!Last(x)
      BY <3>2
    <3>4. S6!IsBetween(x, S6!First(y))
      BY <3>1, <3>3, InSpan6 DEF S6!IsBetween
    <3>5. S6!IsBetween(x, S6!Last(y))
      BY <3>1, <3>3, InSpan6 DEF S6!IsBetween
    <3> QED BY <1>6, <2>3, <2>7, <3>4, <3>5, Widths, S6!WithinSortsFirst
  <2> QED BY <1>1, <1>6, <2>3, <2>4, <2>5, <2>6, <2>7, ReturnedSucceeds DEF IsSign
<1> QED BY <1>7, <1>8 DEF NetworkTypes

----------------------------------------------------------------------------
(* Questions about two objects.                                            *)

LEMMA SpanAnswers ==
  ASSUME NEW p, NEW a
  PROVE  ContainsAddr(p, a) \in BOOLEAN /\ InSpan(p, a) \in BOOLEAN
<1>1. InSpan(p, a) \in BOOLEAN
  BY DEF InSpan
<1>2. CASE p.addr.family = "INET"
  BY <1>1, <1>2 DEF ContainsAddr, V4!Contains
<1>3. CASE p.addr.family # "INET"
  BY <1>1, <1>3 DEF ContainsAddr, V6!Contains
<1> QED BY <1>2, <1>3

\* What AnswersAgree asks of the result r of a question about obj and other.
Fits(about, r) ==
  /\ about = "contains" /\ Succeeds(r) => r.val = InSpan(obj.prefix, other.addr)
  /\ about = "overlaps" /\ Succeeds(r) =>
       r.val = (\/ InSpan(obj.prefix, FirstOf(other.prefix))
                \/ InSpan(other.prefix, FirstOf(obj.prefix)))
  /\ about = "cmp" /\ Succeeds(r) /\ r.val # NotImplemented =>
       /\ r.val = 0 <=> obj = other
       /\ Cmp(other, obj) = Returned(-r.val)
       /\ obj.type \in NetworkTypes /\ obj # other /\ WithinSpan(obj.prefix, other.prefix) =>
            r.val = -1
  /\ r.exc = "FamilyError" => FamilyOf(obj) # FamilyOf(other)

LEMMA FitAgrees ==
  ASSUME Holds, NEW about, NEW r, Question(about, r), Fits(about, r)
  PROVE  AnswersAgree'
<1>1. /\ last' = [call |-> "question", of |-> text, rc |-> r.exc]
      /\ obj' = obj /\ other' = other
      /\ answer' = IF Succeeds(r) THEN [about |-> about, val |-> r.val] ELSE NoAnswer
  BY QuestionHolds
<1>2. last'.call = "question" /\ last'.rc = r.exc
  BY <1>1
<1>3. CASE r.exc = "none"
  <2>1. Succeeds(r)
    BY <1>3 DEF Succeeds
  <2>2. answer'.about = about /\ answer'.val = r.val
    BY <1>1, <2>1
  <2>3. last'.rc # "FamilyError"
    BY <1>2, <1>3
  <2> QED BY <1>1, <1>2, <2>1, <2>2, <2>3 DEF AnswersAgree, Fits
<1>4. CASE r.exc # "none"
  BY <1>1, <1>2, <1>4 DEF AnswersAgree, Fits
<1> QED BY <1>3, <1>4

LEMMA ContainsFits ==
  ASSUME Holds, obj.type \in NetworkTypes
  PROVE  Fits("contains", ContainsObject(obj, Object(other)))
<1> DEFINE r == ContainsObject(obj, Object(other))
<1>1. IsObject(obj) /\ IsObject(other)
  BY DEF Holds, ObjectsHold
<1>2. IsNet(obj.prefix) /\ obj.type \notin AddressTypes
  BY <1>1, ObjectIs DEF NetworkTypes, AddressTypes
<1>3. /\ Object(other).kind = "object" /\ Object(other).of = other
  BY DEF Object
<1>4. CASE other.type \in AddressTypes
  <2>1. IsAddress(other.addr)
    BY <1>1, <1>4, ObjectIs
  <2>2. PICK a : a = OfFamily(other.addr, obj.prefix.addr.family)
    OBVIOUS
  <2>3. r = IF ~Succeeds(a) THEN a ELSE Returned(ContainsAddr(obj.prefix, a.val))
    BY <1>3, <1>4, <2>2 DEF ContainsObject
  <2>4. CASE other.addr.family = obj.prefix.addr.family
    <3>1. r = Returned(ContainsAddr(obj.prefix, other.addr))
      BY <2>2, <2>3, <2>4, ReturnedSucceeds DEF OfFamily
    <3>2. ContainsAddr(obj.prefix, other.addr) = InSpan(obj.prefix, other.addr)
      BY <1>2, <2>1, <2>4, ContainsIsInSpan, SpanAnswers
    <3>3. r.val = InSpan(obj.prefix, other.addr) /\ r.exc = "none"
      BY <3>1, <3>2 DEF Returned
    <3> QED BY <3>3 DEF Fits
  <2>5. CASE other.addr.family # obj.prefix.addr.family
    <3>1. r = Raised("FamilyError") /\ ~Succeeds(r)
      BY <2>2, <2>3, <2>5, RaisedFails DEF OfFamily
    <3>2. FamilyOf(obj) # FamilyOf(other)
      BY <1>2, <1>4, <2>5 DEF FamilyOf
    <3> QED BY <3>1, <3>2 DEF Fits
  <2> QED BY <2>4, <2>5
<1>5. CASE other.type \notin AddressTypes
  <2>1. r = Raised("TypeError")
    BY <1>3, <1>5, RaisedFails DEF ContainsObject
  <2>2. ~Succeeds(r) /\ r.exc = "TypeError"
    BY <2>1 DEF Raised, Succeeds
  <2> QED BY <2>2 DEF Fits
<1> QED BY <1>4, <1>5

\* Networks of one type are of one family, and of two types of two.
LEMMA TypesTellFamilies ==
  ASSUME NEW o, NEW q, IsObject(o), IsObject(q),
         {o.type, q.type} \subseteq AddressTypes \/ {o.type, q.type} \subseteq NetworkTypes
  PROVE  o.type = q.type <=> FamilyOf(o) = FamilyOf(q)
<1>1. CASE {o.type, q.type} \subseteq AddressTypes
  <2>1. /\ IsAddress(o.addr) /\ o = AddressOf(o.addr)
        /\ IsAddress(q.addr) /\ q = AddressOf(q.addr)
    BY <1>1, ObjectIs
  <2>2. /\ o.type = AddressType(o.addr.family) /\ q.type = AddressType(q.addr.family)
        /\ o.addr.family \in {"INET", "INET6"} /\ q.addr.family \in {"INET", "INET6"}
    BY <2>1 DEF AddressOf, IsAddress
  <2>3. FamilyOf(o) = o.addr.family /\ FamilyOf(q) = q.addr.family
    BY <1>1 DEF FamilyOf
  <2> QED BY <2>2, <2>3 DEF AddressType
<1>2. CASE {o.type, q.type} \subseteq NetworkTypes
  <2>1. /\ IsNet(o.prefix) /\ o = NetworkOf(o.prefix)
        /\ IsNet(q.prefix) /\ q = NetworkOf(q.prefix)
    BY <1>2, ObjectIs
  <2>2. /\ o.type = NetworkType(o.prefix.addr.family)
        /\ q.type = NetworkType(q.prefix.addr.family)
        /\ o.prefix.addr.family \in {"INET", "INET6"}
        /\ q.prefix.addr.family \in {"INET", "INET6"}
    BY <2>1, NetFamily DEF NetworkOf
  <2>3. FamilyOf(o) = o.prefix.addr.family /\ FamilyOf(q) = q.prefix.addr.family
    BY <1>2 DEF FamilyOf, NetworkTypes, AddressTypes
  <2> QED BY <2>2, <2>3 DEF NetworkType
<1> QED BY <1>1, <1>2

LEMMA OverlapsFits ==
  ASSUME Holds, obj.type \in NetworkTypes
  PROVE  Fits("overlaps", OverlapsObject(obj, other))
<1> DEFINE r == OverlapsObject(obj, other)
<1>1. IsObject(obj) /\ IsObject(other)
  BY DEF Holds, ObjectsHold
<1>2. CASE other.type \notin NetworkTypes
  <2>1. ~Succeeds(r) /\ r.exc = "TypeError"
    BY <1>2 DEF OverlapsObject, Raised, Succeeds
  <2> QED BY <2>1 DEF Fits
<1>3. CASE other.type \in NetworkTypes /\ other.type # obj.type
  <2>1. ~Succeeds(r)
    BY <1>3 DEF OverlapsObject, Raised, Succeeds
  <2>2. FamilyOf(obj) # FamilyOf(other)
    BY <1>1, <1>3, TypesTellFamilies
  <2> QED BY <2>1, <2>2 DEF Fits
<1>4. CASE other.type \in NetworkTypes /\ other.type = obj.type
  <2>1. IsNet(obj.prefix) /\ IsNet(other.prefix)
    BY <1>1, <1>4, ObjectIs
  <2>2. obj.prefix.addr.family = other.prefix.addr.family
    <3>1. FamilyOf(obj) = FamilyOf(other)
      BY <1>1, <1>4, TypesTellFamilies
    <3> QED BY <1>4, <3>1 DEF FamilyOf, NetworkTypes, AddressTypes
  <2>3. r = Returned(OverlapsNet(obj.prefix, other.prefix))
    BY <1>4 DEF OverlapsObject
  <2>4. OverlapsNet(obj.prefix, other.prefix) \in BOOLEAN
    <3>1. CASE obj.prefix.addr.family = "INET"
      BY <3>1 DEF OverlapsNet, V4!Overlaps
    <3>2. CASE obj.prefix.addr.family # "INET"
      BY <3>2 DEF OverlapsNet, V6!Overlaps
    <3> QED BY <3>1, <3>2
  <2>5. OverlapsNet(obj.prefix, other.prefix) =
          (\/ InSpan(obj.prefix, FirstOf(other.prefix))
           \/ InSpan(other.prefix, FirstOf(obj.prefix)))
    BY <2>1, <2>2, <2>4, OverlapsIsInSpan
  <2>6. r.val = OverlapsNet(obj.prefix, other.prefix) /\ r.exc = "none"
    BY <2>3 DEF Returned
  <2> QED BY <2>5, <2>6 DEF Fits
<1> QED BY <1>2, <1>3, <1>4

LEMMA CmpFits ==
  ASSUME Holds
  PROVE  Fits("cmp", Cmp(obj, other))
<1> DEFINE r == Cmp(obj, other)
<1>1. IsObject(obj) /\ IsObject(other)
  BY DEF Holds, ObjectsHold
<1>2. CASE ~(\/ {obj.type, other.type} \subseteq AddressTypes
             \/ {obj.type, other.type} \subseteq NetworkTypes)
  <2>1. r.val = NotImplemented /\ r.exc = "none"
    BY <1>2 DEF Cmp, Returned
  <2> QED BY <2>1 DEF Fits
<1>3. CASE /\ \/ {obj.type, other.type} \subseteq AddressTypes
              \/ {obj.type, other.type} \subseteq NetworkTypes
           /\ obj.type # other.type
  <2>1. ~Succeeds(r)
    BY <1>3 DEF Cmp, Raised, Succeeds
  <2>2. FamilyOf(obj) # FamilyOf(other)
    BY <1>1, <1>3, TypesTellFamilies
  <2> QED BY <2>1, <2>2 DEF Fits
<1>4. CASE obj.type \in AddressTypes \cup NetworkTypes /\ obj.type = other.type
  <2>1. /\ IsSign(r.val, Cmp(other, obj).val, obj = other)
        /\ r = Returned(r.val) /\ Cmp(other, obj) = Returned(Cmp(other, obj).val)
    BY <1>1, <1>4, AddressesCompare, NetworksCompare
  <2>2. obj.type \in NetworkTypes /\ obj # other /\ WithinSpan(obj.prefix, other.prefix) =>
          r.val = -1
    BY <1>1, <1>4, NetworksCompare
  <2>3. r.exc = "none"
    BY <2>1 DEF Returned
  <2>4. r.val = 0 <=> obj = other
    BY <2>1 DEF IsSign
  <2>5. Cmp(other, obj) = Returned(-r.val)
    BY <2>1 DEF IsSign
  <2> HIDE DEF r
  <2> QED BY <2>2, <2>3, <2>4, <2>5 DEF Fits, r
<1> QED BY <1>2, <1>3, <1>4

LEMMA AskAgrees ==
  ASSUME Holds, Ask
  PROVE  AnswersAgree'
<1>1. ASSUME NEW about, NEW v, about \notin {"contains", "overlaps", "cmp"},
             Question(about, Returned(v))
      PROVE  AnswersAgree'
  <2>1. Returned(v).exc = "none"
    BY DEF Returned
  <2>2. Fits(about, Returned(v))
    BY <1>1, <2>1 DEF Fits
  <2> QED BY <1>1, <2>2, FitAgrees
<1>2. CASE /\ obj.type \in AddressTypes
           /\ \/ \E attribute \in DOMAIN FlagOf :
                   Question(attribute, Returned(Is(obj, attribute)))
              \/ Question("classify", Returned(Classes(obj)))
  <2>1. \A attribute \in DOMAIN FlagOf : attribute \notin {"contains", "overlaps", "cmp"}
    BY DEF FlagOf
  <2>2. "classify" \notin {"contains", "overlaps", "cmp"}
    OBVIOUS
  <2> QED BY <1>1, <1>2, <2>1, <2>2
<1>3. CASE obj.type \in NetworkTypes /\ Question("contains", ContainsObject(obj, Object(other)))
  BY <1>3, ContainsFits, FitAgrees
<1>4. CASE obj.type \in NetworkTypes /\ Question("overlaps", OverlapsObject(obj, other))
  BY <1>4, OverlapsFits, FitAgrees
<1>5. CASE Question("cmp", Cmp(obj, other))
  BY <1>5, CmpFits, FitAgrees
<1> QED BY <1>2, <1>3, <1>4, <1>5 DEF Ask

\* A step asks a question, calls something else, or leaves the last call as it is.
LEMMA NextAsks ==
  ASSUME Holds, [Next]_vars, ~Ask
  PROVE  last'.call # "question" \/ UNCHANGED <<last, pyVars>>
<1>1. Steps
  BY StepHolds
<1>2. CASE CNext /\ UNCHANGED pyVars
  <2>1. CASE QuietStep
    <3>1. CASE Edit \/ NextText
      <4>1. UNCHANGED last
        BY <3>1, EditHolds, NextTextHolds DEF Holds
      <4> QED BY <1>2, <4>1
    <3>2. CASE ~(Edit \/ NextText)
      <4>1. CallAddrParse \/ CallPrefixParse => last'.call # "question"
        BY DEF CallAddrParse, CallPrefixParse, Called
      <4>2. CallAddrFormat \/ CallPrefixFormat => last'.call # "question"
        BY DEF CallAddrFormat, CallPrefixFormat, Called
      <4>3. CallToV4 => last'.call # "question"
        BY DEF CallToV4, Called
      <4>4. CallClassify => last'.call # "question"
        BY DEF CallClassify, Called
      <4>5. ASSUME NEW n, CallFromHost(n) PROVE last'.call # "question"
        BY <4>5 DEF CallFromHost, Called
      <4>6. ASSUME NEW a, FillAddr(a) PROVE UNCHANGED last
        BY <4>6 DEF FillAddr
      <4>7. CallBulkParse => last'.call # "question"
        BY DEF CallBulkParse, Called
      <4> QED BY <1>2, <3>2, <4>1, <4>2, <4>3, <4>4, <4>5, <4>6, <4>7 DEF CNext
    <3> QED BY <3>1, <3>2
  <2>2. CASE ~QuietStep
    BY <1>1, <1>2, <2>2, NoCallIs DEF Steps, StepFillsAddr, StepParsesAddr,
       StepParsesPrefix, StepWrites, StepClassifies, StepParsesBatch
  <2> QED BY <2>1, <2>2
<1>3. CASE PyNext
  <2>1. CASE (Edit \/ NextText) /\ UNCHANGED pyVars
    <3>1. UNCHANGED last
      BY <2>1, EditHolds, NextTextHolds DEF Holds
    <3> QED BY <2>1, <3>1
  <2>2. ASSUME NEW call, call # "question", NEW r, Make(call, r)
        PROVE  last'.call # "question"
    BY <2>2 DEF Make, Called
  <2>3. CASE MakeAddress
    BY <2>2, <2>3 DEF MakeAddress
  <2>4. CASE MakeNetwork
    BY <2>2, <2>4 DEF MakeNetwork
  <2>5. CASE Derive
    BY <2>2, <2>5 DEF Derive
  <2>6. CASE Show
    BY <2>6 DEF Show, Called
  <2> QED BY <1>3, <2>1, <2>3, <2>4, <2>5, <2>6 DEF PyNext
<1>4. CASE UNCHANGED vars
  BY <1>4 DEF vars, callVars
<1> QED BY <1>2, <1>3, <1>4 DEF Next

\* contains, overlaps and the comparisons agree with one another and with the
\* addresses the networks span, and objects of two families always give an
\* exception.
THEOREM QuestionsAgree == Spec => []AnswersAgree
<1>1. Init => Holds /\ AnswersAgree
  <2>1. CInit => AnswersAgree
    BY NoCallIs DEF CInit, AnswersAgree
  <2> QED BY <2>1, ProgramStarts DEF Init
<1>2. Holds /\ AnswersAgree /\ [Next]_vars => Holds' /\ AnswersAgree'
  <2> SUFFICES ASSUME Holds, AnswersAgree, [Next]_vars PROVE Holds' /\ AnswersAgree'
    OBVIOUS
  <2>1. Holds'
    BY StepHolds
  <2>2. CASE Ask
    BY <2>1, <2>2, AskAgrees
  <2>3. CASE last'.call # "question"
    BY <2>1, <2>3 DEF AnswersAgree
  <2>4. CASE UNCHANGED <<last, pyVars>>
    <3>1. last' = last /\ obj' = obj /\ other' = other /\ answer' = answer
      BY <2>4 DEF pyVars
    <3>2. AnswersAgree'
      BY <3>1 DEF AnswersAgree
    <3> QED BY <2>1, <3>2
  <2> QED BY <2>2, <2>3, <2>4, NextAsks
<1> QED BY <1>1, <1>2, PTL DEF Spec

----------------------------------------------------------------------------
(* The table of special-purpose blocks.                                    *)

\* A row whose block has no host bits; its flags are never those of no row.
GoodRow(row, family) ==
  /\ row.family = family
  /\ row.prefix \in [BytesOf(family) -> 0 .. 255]
  /\ row.pfxlen \in 0 .. MaxLen(family)
  /\ RowMatches(row, row.prefix)
  /\ row.flags # {} /\ "GLOBAL" \notin row.flags

\* The bytes in which the blocks end, and how many of their bits count.
LEMMA PartialBytes ==
  /\ V4!KeepTop(0, 4) = 0
  /\ V4!KeepTop(0, 5) = 0
  /\ V4!KeepTop(0, 7) = 0
  /\ V4!KeepTop(16, 4) = 16
  /\ V4!KeepTop(18, 7) = 18
  /\ V4!KeepTop(32, 4) = 32
  /\ V4!KeepTop(48, 4) = 48
  /\ V4!KeepTop(64, 2) = 64
  /\ V4!KeepTop(128, 2) = 128
  /\ V4!KeepTop(224, 4) = 224
  /\ V4!KeepTop(240, 4) = 240
  /\ V4!KeepTop(252, 7) = 252
BY DEF V4!KeepTop, V4!ByteSize

\* The IPv4 blocks have no host bits.
LEMMA Rows4 ==
  /\ DOMAIN Table4 = 1 .. 27
  /\ \A i \in 1 .. 27 : GoodRow(Table4[i], "INET")
<1>1. GoodRow(Row("INET", <<>>, 8, {"THIS_HOST"}), "INET")
  BY DEF GoodRow, Row, RowMatches, MaxLen, BytesOf, V4Bytes
<1>2. GoodRow(Row("INET", <<>>, 32, {"THIS_HOST"}), "INET")
  BY DEF GoodRow, Row, RowMatches, MaxLen, BytesOf, V4Bytes
<1>3. GoodRow(Row("INET", <<10>>, 8, {"PRIVATE"}), "INET")
  BY DEF GoodRow, Row, RowMatches, MaxLen, BytesOf, V4Bytes
<1>4. GoodRow(Row("INET", <<100, 64>>, 10, {"SHARED"}), "INET")
  BY PartialBytes DEF GoodRow, Row, RowMatches, MaxLen, BytesOf, V4Bytes
<1>5. GoodRow(Row("INET", <<127>>, 8, {"LOOPBACK"}), "INET")
  BY DEF GoodRow, Row, RowMatches, MaxLen, BytesOf, V4Bytes
<1>6. GoodRow(Row("INET", <<169, 254>>, 16, {"LINK_LOCAL"}), "INET")
  BY DEF GoodRow, Row, RowMatches, MaxLen, BytesOf, V4Bytes
<1>7. GoodRow(Row("INET", <<172, 16>>, 12, {"PRIVATE"}), "INET")
  BY PartialBytes DEF GoodRow, Row, RowMatches, MaxLen, BytesOf, V4Bytes
<1>8. GoodRow(Row("INET", <<192>>, 24, {"IETF_RESERVED"}), "INET")
  BY DEF GoodRow, Row, RowMatches, MaxLen, BytesOf, V4Bytes
<1>9. GoodRow(Row("INET", <<192>>, 29, {"IETF_RESERVED"}), "INET")
  BY PartialBytes DEF GoodRow, Row, RowMatches, MaxLen, BytesOf, V4Bytes
<1>10. GoodRow(Row("INET", <<192, 0, 0, 8>>, 32, {"IETF_RESERVED"}), "INET")
  BY DEF GoodRow, Row, RowMatches, MaxLen, BytesOf, V4Bytes
<1>11. GoodRow(Row("INET", <<192, 0, 0, 9>>, 32, {"IETF_RESERVED", "ANYCAST"}), "INET")
  BY DEF GoodRow, Row, RowMatches, MaxLen, BytesOf, V4Bytes
<1>12. GoodRow(Row("INET", <<192, 0, 0, 10>>, 32, {"IETF_RESERVED", "ANYCAST"}), "INET")
  BY DEF GoodRow, Row, RowMatches, MaxLen, BytesOf, V4Bytes
<1>13. GoodRow(Row("INET", <<192, 0, 0, 170>>, 32, {"IETF_RESERVED"}), "INET")
  BY DEF GoodRow, Row, RowMatches, MaxLen, BytesOf, V4Bytes
<1>14. GoodRow(Row("INET", <<192, 0, 0, 171>>, 32, {"IETF_RESERVED"}), "INET")
  BY DEF GoodRow, Row, RowMatches, MaxLen, BytesOf, V4Bytes
<1>15. GoodRow(Row("INET", <<192, 0, 2>>, 24, {"DOCUMENTATION"}), "INET")
  BY DEF GoodRow, Row, RowMatches, MaxLen, BytesOf, V4Bytes
<1>16. GoodRow(Row("INET", <<192, 31, 196>>, 24, {"ANYCAST"}), "INET")
  BY DEF GoodRow, Row, RowMatches, MaxLen, BytesOf, V4Bytes
<1>17. GoodRow(Row("INET", <<192, 52, 193>>, 24, {"ANYCAST"}), "INET")
  BY DEF GoodRow, Row, RowMatches, MaxLen, BytesOf, V4Bytes
<1>18. GoodRow(Row("INET", <<192, 88, 99>>, 24, {"6TO4_RELAY"}), "INET")
  BY DEF GoodRow, Row, RowMatches, MaxLen, BytesOf, V4Bytes
<1>19. GoodRow(Row("INET", <<192, 88, 99, 2>>, 32, {"6TO4_RELAY"}), "INET")
  BY DEF GoodRow, Row, RowMatches, MaxLen, BytesOf, V4Bytes
<1>20. GoodRow(Row("INET", <<192, 168>>, 16, {"PRIVATE"}), "INET")
  BY DEF GoodRow, Row, RowMatches, MaxLen, BytesOf, V4Bytes
<1>21. GoodRow(Row("INET", <<192, 175, 48>>, 24, {"ANYCAST"}), "INET")
  BY DEF GoodRow, Row, RowMatches, MaxLen, BytesOf, V4Bytes
<1>22. GoodRow(Row("INET", <<198, 18>>, 15, {"BENCHMARKING"}), "INET")
  BY PartialBytes DEF GoodRow, Row, RowMatches, MaxLen, BytesOf, V4Bytes
<1>23. GoodRow(Row("INET", <<198, 51, 100>>, 24, {"DOCUMENTATION"}), "INET")
  BY DEF GoodRow, Row, RowMatches, MaxLen, BytesOf, V4Bytes
<1>24. GoodRow(Row("INET", <<203, 0, 113>>, 24, {"DOCUMENTATION"}), "INET")
  BY DEF GoodRow, Row, RowMatches, MaxLen, BytesOf, V4Bytes
<1>25. GoodRow(Row("INET", <<224>>, 4, {"MULTICAST"}), "INET")
  BY PartialBytes DEF GoodRow, Row, RowMatches, MaxLen, BytesOf, V4Bytes
<1>26. GoodRow(Row("INET", <<240>>, 4, {"RESERVED"}), "INET")
  BY PartialBytes DEF GoodRow, Row, RowMatches, MaxLen, BytesOf, V4Bytes
<1>27. GoodRow(Row("INET", <<255, 255, 255, 255>>, 32, {"BROADCAST"}), "INET")
  BY DEF GoodRow, Row, RowMatches, MaxLen, BytesOf, V4Bytes
<1>28. DOMAIN Table4 = 1 .. 27
  BY DEF Table4
<1>29. /\ GoodRow(Table4[1], "INET") /\ GoodRow(Table4[2], "INET") /\ GoodRow(Table4[3], "INET")
       /\ GoodRow(Table4[4], "INET") /\ GoodRow(Table4[5], "INET") /\ GoodRow(Table4[6], "INET")
       /\ GoodRow(Table4[7], "INET")
  BY <1>1, <1>2, <1>3, <1>4, <1>5, <1>6, <1>7 DEF Table4
<1>30. /\ GoodRow(Table4[8], "INET") /\ GoodRow(Table4[9], "INET") /\ GoodRow(Table4[10], "INET")
       /\ GoodRow(Table4[11], "INET") /\ GoodRow(Table4[12], "INET") /\ GoodRow(Table4[13], "INET")
       /\ GoodRow(Table4[14], "INET")
  BY <1>8, <1>9, <1>10, <1>11, <1>12, <1>13, <1>14 DEF Table4
<1>31. /\ GoodRow(Table4[15], "INET") /\ GoodRow(Table4[16], "INET") /\ GoodRow(Table4[17], "INET")
       /\ GoodRow(Table4[18], "INET") /\ GoodRow(Table4[19], "INET") /\ GoodRow(Table4[20], "INET")
       /\ GoodRow(Table4[21], "INET")
  BY <1>15, <1>16, <1>17, <1>18, <1>19, <1>20, <1>21 DEF Table4
<1>32. /\ GoodRow(Table4[22], "INET") /\ GoodRow(Table4[23], "INET") /\ GoodRow(Table4[24], "INET")
       /\ GoodRow(Table4[25], "INET") /\ GoodRow(Table4[26], "INET") /\ GoodRow(Table4[27], "INET")
  BY <1>22, <1>23, <1>24, <1>25, <1>26, <1>27 DEF Table4
<1> QED BY <1>28, <1>29, <1>30, <1>31, <1>32

\* The IPv6 blocks have no host bits.
LEMMA Rows6 ==
  /\ DOMAIN Table6 = 1 .. 26
  /\ \A i \in 1 .. 26 : GoodRow(Table6[i], "INET6")
<1>1. GoodRow(Row("INET6", <<>>, 128, {"UNSPECIFIED"}), "INET6")
  BY DEF GoodRow, Row, RowMatches, MaxLen, BytesOf, V6Bytes
<1>2. GoodRow(Row("INET6", <<0, 0, 0, 0, 0, 0, 0, 0, 0, 0, 0, 0, 0, 0, 0, 1>>, 128,
                  {"LOOPBACK"}), "INET6")
  BY DEF GoodRow, Row, RowMatches, MaxLen, BytesOf, V6Bytes
<1>3. GoodRow(Row("INET6", <<0, 0, 0, 0, 0, 0, 0, 0, 0, 0, 255, 255>>, 96,
                  {"V4MAPPED"}), "INET6")
  BY DEF GoodRow, Row, RowMatches, MaxLen, BytesOf, V6Bytes
<1>4. GoodRow(Row("INET6", <<0, 100, 255, 155>>, 96, {"V4TRANSLATED"}), "INET6")
  BY DEF GoodRow, Row, RowMatches, MaxLen, BytesOf, V6Bytes
<1>5. GoodRow(Row("INET6", <<0, 100, 255, 155, 0, 1>>, 48, {"V4TRANSLATED"}), "INET6")
  BY DEF GoodRow, Row, RowMatches, MaxLen, BytesOf, V6Bytes
<1>6. GoodRow(Row("INET6", <<1>>, 64, {"DISCARD"}), "INET6")
  BY DEF GoodRow, Row, RowMatches, MaxLen, BytesOf, V6Bytes
<1>7. GoodRow(Row("INET6", <<1, 0, 0, 0, 0, 0, 0, 1>>, 64, {"IETF_RESERVED"}), "INET6")
  BY DEF GoodRow, Row, RowMatches, MaxLen, BytesOf, V6Bytes
<1>8. GoodRow(Row("INET6", <<32, 1>>, 23, {"IETF_RESERVED"}), "INET6")
  BY PartialBytes DEF GoodRow, Row, RowMatches, MaxLen, BytesOf, V6Bytes
<1>9. GoodRow(Row("INET6", <<32, 1>>, 32, {"IETF_RESERVED", "TEREDO"}), "INET6")
  BY DEF GoodRow, Row, RowMatches, MaxLen, BytesOf, V6Bytes
<1>10. GoodRow(Row("INET6", <<32, 1, 0, 1, 0, 0, 0, 0, 0, 0, 0, 0, 0, 0, 0, 1>>, 128,
                   {"IETF_RESERVED", "ANYCAST"}), "INET6")
  BY DEF GoodRow, Row, RowMatches, MaxLen, BytesOf, V6Bytes
<1>11. GoodRow(Row("INET6", <<32, 1, 0, 1, 0, 0, 0, 0, 0, 0, 0, 0, 0, 0, 0, 2>>, 128,
                   {"IETF_RESERVED", "ANYCAST"}), "INET6")
  BY DEF GoodRow, Row, RowMatches, MaxLen, BytesOf, V6Bytes
<1>12. GoodRow(Row("INET6", <<32, 1, 0, 1, 0, 0, 0, 0, 0, 0, 0, 0, 0, 0, 0, 3>>, 128,
                   {"IETF_RESERVED", "ANYCAST"}), "INET6")
  BY DEF GoodRow, Row, RowMatches, MaxLen, BytesOf, V6Bytes
<1>13. GoodRow(Row("INET6", <<32, 1, 0, 2>>, 48, {"IETF_RESERVED", "BENCHMARKING"}), "INET6")
  BY DEF GoodRow, Row, RowMatches, MaxLen, BytesOf, V6Bytes
<1>14. GoodRow(Row("INET6", <<32, 1, 0, 3>>, 32, {"IETF_RESERVED", "ANYCAST"}), "INET6")
  BY DEF GoodRow, Row, RowMatches, MaxLen, BytesOf, V6Bytes
<1>15. GoodRow(Row("INET6", <<32, 1, 0, 4, 1, 18>>, 48, {"IETF_RESERVED", "ANYCAST"}), "INET6")
  BY DEF GoodRow, Row, RowMatches, MaxLen, BytesOf, V6Bytes
<1>16. GoodRow(Row("INET6", <<32, 1, 0, 16>>, 28, {"IETF_RESERVED"}), "INET6")
  BY PartialBytes DEF GoodRow, Row, RowMatches, MaxLen, BytesOf, V6Bytes
<1>17. GoodRow(Row("INET6", <<32, 1, 0, 32>>, 28, {"IETF_RESERVED", "ORCHID"}), "INET6")
  BY PartialBytes DEF GoodRow, Row, RowMatches, MaxLen, BytesOf, V6Bytes
<1>18. GoodRow(Row("INET6", <<32, 1, 0, 48>>, 28, {"IETF_RESERVED", "ORCHID"}), "INET6")
  BY PartialBytes DEF GoodRow, Row, RowMatches, MaxLen, BytesOf, V6Bytes
<1>19. GoodRow(Row("INET6", <<32, 1, 13, 184>>, 32,
                   {"IETF_RESERVED", "DOCUMENTATION"}), "INET6")
  BY DEF GoodRow, Row, RowMatches, MaxLen, BytesOf, V6Bytes
<1>20. GoodRow(Row("INET6", <<32, 2>>, 16, {"6TO4"}), "INET6")
  BY DEF GoodRow, Row, RowMatches, MaxLen, BytesOf, V6Bytes
<1>21. GoodRow(Row("INET6", <<38, 32, 0, 79, 128>>, 48, {"ANYCAST"}), "INET6")
  BY DEF GoodRow, Row, RowMatches, MaxLen, BytesOf, V6Bytes
<1>22. GoodRow(Row("INET6", <<63, 255>>, 20, {"DOCUMENTATION"}), "INET6")
  BY PartialBytes DEF GoodRow, Row, RowMatches, MaxLen, BytesOf, V6Bytes
<1>23. GoodRow(Row("INET6", <<95>>, 16, {"SRV6"}), "INET6")
  BY DEF GoodRow, Row, RowMatches, MaxLen, BytesOf, V6Bytes
<1>24. GoodRow(Row("INET6", <<252>>, 7, {"UNIQUE_LOCAL"}), "INET6")
  BY PartialBytes DEF GoodRow, Row, RowMatches, MaxLen, BytesOf, V6Bytes
<1>25. GoodRow(Row("INET6", <<254, 128>>, 10, {"LINK_LOCAL"}), "INET6")
  BY PartialBytes DEF GoodRow, Row, RowMatches, MaxLen, BytesOf, V6Bytes
<1>26. GoodRow(Row("INET6", <<255>>, 8, {"MULTICAST"}), "INET6")
  BY DEF GoodRow, Row, RowMatches, MaxLen, BytesOf, V6Bytes
<1>27. DOMAIN Table6 = 1 .. 26
  BY DEF Table6
<1>28. /\ GoodRow(Table6[1], "INET6") /\ GoodRow(Table6[2], "INET6") /\ GoodRow(Table6[3], "INET6")
       /\ GoodRow(Table6[4], "INET6") /\ GoodRow(Table6[5], "INET6") /\ GoodRow(Table6[6], "INET6")
       /\ GoodRow(Table6[7], "INET6")
  BY <1>1, <1>2, <1>3, <1>4, <1>5, <1>6, <1>7 DEF Table6
<1>29. /\ GoodRow(Table6[8], "INET6") /\ GoodRow(Table6[9], "INET6") /\ GoodRow(Table6[10], "INET6")
       /\ GoodRow(Table6[11], "INET6") /\ GoodRow(Table6[12], "INET6") /\ GoodRow(Table6[13], "INET6")
       /\ GoodRow(Table6[14], "INET6")
  BY <1>8, <1>9, <1>10, <1>11, <1>12, <1>13, <1>14 DEF Table6
<1>30. /\ GoodRow(Table6[15], "INET6") /\ GoodRow(Table6[16], "INET6") /\ GoodRow(Table6[17], "INET6")
       /\ GoodRow(Table6[18], "INET6") /\ GoodRow(Table6[19], "INET6") /\ GoodRow(Table6[20], "INET6")
       /\ GoodRow(Table6[21], "INET6")
  BY <1>15, <1>16, <1>17, <1>18, <1>19, <1>20, <1>21 DEF Table6
<1>31. /\ GoodRow(Table6[22], "INET6") /\ GoodRow(Table6[23], "INET6") /\ GoodRow(Table6[24], "INET6")
       /\ GoodRow(Table6[25], "INET6") /\ GoodRow(Table6[26], "INET6")
  BY <1>22, <1>23, <1>24, <1>25, <1>26 DEF Table6
<1> QED BY <1>27, <1>28, <1>29, <1>30, <1>31

LEMMA RowsAreGood ==
  ASSUME NEW i \in DOMAIN classify_table
  PROVE  \E family \in {"INET", "INET6"} : GoodRow(classify_table[i], family)
<1>1. Len(Table4) = 27 /\ Len(Table6) = 26
  BY DEF Table4, Table6
<1>2. PICK S : S = {Table4[k] : k \in 1 .. 27} \cup {Table6[k] : k \in 1 .. 26}
  OBVIOUS
<1>3. Table4 \in Seq(S) /\ Table6 \in Seq(S)
  <2>1. Table4 \in Seq(S)
    <3>1. \A k \in 1 .. 27 : Table4[k] \in S
      BY <1>2
    <3>2. Table4 = [k \in 1 .. 27 |-> Table4[k]]
      BY DEF Table4
    <3> QED BY <3>1, <3>2
  <2>2. Table6 \in Seq(S)
    <3>1. \A k \in 1 .. 26 : Table6[k] \in S
      BY <1>2
    <3>2. Table6 = [k \in 1 .. 26 |-> Table6[k]]
      BY DEF Table6
    <3> QED BY <3>1, <3>2
  <2> QED BY <2>1, <2>2
<1>4. PICK s, t, u : s = Table4 /\ t = Table6 /\ u = s \o t
  OBVIOUS
<1>5. i \in 1 .. 53 /\ classify_table[i] = IF i <= 27 THEN s[i] ELSE t[i - 27]
  <2>1. s \in Seq(S) /\ t \in Seq(S) /\ Len(s) = 27 /\ Len(t) = 26 /\ u = s \o t
    BY <1>1, <1>3, <1>4
  <2>2. i \in DOMAIN u /\ classify_table[i] = u[i]
    BY <1>4 DEF classify_table
  <2>3. /\ u \in Seq(S) /\ Len(u) = Len(s) + Len(t)
        /\ \A k \in 1 .. Len(s) + Len(t) :
             u[k] = IF k <= Len(s) THEN s[k] ELSE t[k - Len(s)]
    BY ONLY <2>1, ConcatProperties
  <2>4. Len(s) + Len(t) = 53
    BY <2>1
  <2>5. DOMAIN u = 1 .. 53
    <3>1. u \in Seq(S)
      BY <2>3
    <3>2. DOMAIN u = 1 .. Len(u)
      BY ONLY <3>1
    <3>3. Len(u) = 53
      BY <2>3, <2>4
    <3> QED BY ONLY <3>2, <3>3
  <2> QED BY <2>1, <2>2, <2>3, <2>4, <2>5
<1>6. CASE i <= 27
  <2>1. i \in 1 .. 53
    BY <1>5
  <2>2. i \in 1 .. 27
    BY ONLY <1>6, <2>1
  <2>3. classify_table[i] = Table4[i]
    BY <1>4, <1>5, <1>6
  <2>4. GoodRow(classify_table[i], "INET")
    BY <2>2, <2>3, Rows4
  <2> QED BY <2>4
<1>7. CASE ~(i <= 27)
  <2>1. i - 27 \in 1 .. 26
    BY <1>5, <1>7
  <2>2. classify_table[i] = Table6[i - 27]
    BY <1>4, <1>5, <1>7
  <2>3. GoodRow(classify_table[i], "INET6")
    BY <2>1, <2>2, Rows6
  <2> QED BY <2>3
<1> QED BY <1>6, <1>7

\* The byte k of a masked address, as the scan computes it.
MaskedByte(b, n, k) == IF n >= (k + 1) * 8 THEN b
                       ELSE IF n <= k * 8 THEN 0
                       ELSE V4!KeepTop(b, n - k * 8)

LEMMA MatchIsMask ==
  ASSUME NEW row
  PROVE  /\ GoodRow(row, "INET") =>
              \A b \in S4!Address :
                RowMatches(row, b) <=> S4!MaskApply(b, row.pfxlen) = row.prefix
         /\ GoodRow(row, "INET6") =>
              \A b \in S6!Address :
                RowMatches(row, b) <=> S6!MaskApply(b, row.pfxlen) = row.prefix
<1>1. PICK n : n = row.pfxlen
  OBVIOUS
<1>2. ASSUME NEW k \in 0 .. 15, n \in 0 .. 128, NEW b
      PROVE  (IF k < n \div 8 THEN b
              ELSE IF k = n \div 8 /\ n % 8 > 0 THEN V4!KeepTop(b, n % 8) ELSE 0)
               = MaskedByte(b, n, k)
  <2>1. /\ k < n \div 8 <=> n >= (k + 1) * 8
        /\ k = n \div 8 /\ n % 8 > 0 <=> n > k * 8 /\ ~(n >= (k + 1) * 8)
        /\ k = n \div 8 => n % 8 = n - k * 8
    BY <1>2
  <2> QED BY <1>2, <2>1 DEF MaskedByte
<1>3. ASSUME NEW b
      PROVE  RowMatches(row, b) <=>
               \A k \in DOMAIN row.prefix : MaskedByte(b[k], n, k) = row.prefix[k]
  BY <1>1 DEF RowMatches, MaskedByte
<1>4. ASSUME GoodRow(row, "INET"), NEW b \in S4!Address
      PROVE  RowMatches(row, b) <=> S4!MaskApply(b, row.pfxlen) = row.prefix
  <2>1. row.prefix \in [0 .. 3 -> 0 .. 255] /\ n \in 0 .. 32
    BY <1>1, <1>4 DEF GoodRow, BytesOf, V4Bytes, MaxLen
  <2>2. \A x, m : V4!KeepTop(x, m) = S4!KeepTop(x, m)
    BY Same4
  <2>3. S4!MaskApply(b, n) = [k \in 0 .. 3 |-> IF k < n \div 8 THEN b[k]
          ELSE IF k = n \div 8 /\ n % 8 > 0 THEN V4!KeepTop(b[k], n % 8) ELSE 0]
    <3>1. S4!BytePos = 0 .. 3
      <4>1. 4 - 1 = 3
        OBVIOUS
      <4> QED BY <4>1 DEF S4!BytePos
    <3> QED BY <2>2, <3>1 DEF S4!MaskApply
  <2>4. \A k \in 0 .. 3 : S4!MaskApply(b, n)[k] = MaskedByte(b[k], n, k)
    <3> TAKE k \in 0 .. 3
    <3>1. k \in 0 .. 15 /\ n \in 0 .. 128
      BY <2>1
    <3> QED BY <1>2, <2>3, <3>1
  <2>5. S4!MaskApply(b, n) = row.prefix <=>
          \A k \in 0 .. 3 : S4!MaskApply(b, n)[k] = row.prefix[k]
    BY <2>1, <2>3
  <2> QED BY <1>1, <1>3, <2>1, <2>4, <2>5
<1>5. ASSUME GoodRow(row, "INET6"), NEW b \in S6!Address
      PROVE  RowMatches(row, b) <=> S6!MaskApply(b, row.pfxlen) = row.prefix
  <2>1. row.prefix \in [0 .. 15 -> 0 .. 255] /\ n \in 0 .. 128
    BY <1>1, <1>5 DEF GoodRow, BytesOf, V6Bytes, MaxLen
  <2>2. \A x, m : V4!KeepTop(x, m) = S6!KeepTop(x, m)
    BY DEF V4!KeepTop, S6!KeepTop, V4!ByteSize, S6!ByteSize
  <2>3. S6!MaskApply(b, n) = [k \in 0 .. 15 |-> IF k < n \div 8 THEN b[k]
          ELSE IF k = n \div 8 /\ n % 8 > 0 THEN V4!KeepTop(b[k], n % 8) ELSE 0]
    <3>1. S6!BytePos = 0 .. 15
      <4>1. 16 - 1 = 15
        OBVIOUS
      <4> QED BY <4>1 DEF S6!BytePos
    <3> QED BY <2>2, <3>1 DEF S6!MaskApply
  <2>4. \A k \in 0 .. 15 : S6!MaskApply(b, n)[k] = MaskedByte(b[k], n, k)
    <3> TAKE k \in 0 .. 15
    <3> QED BY <1>2, <2>1, <2>3
  <2>5. S6!MaskApply(b, n) = row.prefix <=>
          \A k \in 0 .. 15 : S6!MaskApply(b, n)[k] = row.prefix[k]
    BY <2>1, <2>3
  <2> QED BY <1>1, <1>3, <2>1, <2>4, <2>5
<1> QED BY <1>4, <1>5

\* A row matches the addresses of its block.
LEMMA MatchIsBlock ==
  ASSUME NEW family \in {"INET", "INET6"}, NEW row, GoodRow(row, family),
         NEW a, IsAddress(a), a.family = family
  PROVE  RowMatches(row, a.bytes) <=> InBlock(row, a.bytes)
<1>1. PICK p : p = [addr |-> row.prefix, pfxlen |-> row.pfxlen]
  OBVIOUS
<1>2. /\ row.family = family /\ RowMatches(row, row.prefix)
      /\ p.addr = row.prefix /\ p.pfxlen = row.pfxlen
  BY <1>1 DEF GoodRow
<1>3. CASE family = "INET"
  <2>1. row.prefix \in S4!Address /\ row.pfxlen \in S4!Pfxlen /\ a.bytes \in S4!Address
    BY <1>3, Shape4 DEF GoodRow, IsAddress, BytesOf, MaxLen
  <2>2. /\ S4!MaskApply(row.prefix, row.pfxlen) = row.prefix
        /\ RowMatches(row, a.bytes) <=> S4!MaskApply(a.bytes, row.pfxlen) = row.prefix
    BY <1>2, <1>3, <2>1, MatchIsMask
  <2>3. S4!IsPrefix(p)
    BY <1>1, <2>1, <2>2 DEF S4!IsPrefix, S4!IsEntry
  <2>4. S4!MaskApply(a.bytes, p.pfxlen) = p.addr <=> S4!IsBetween(p, a.bytes)
    BY <2>1, <2>3, Widths, S4!ContainsIsBetween
  <2>5. InBlock(row, a.bytes) <=> /\ ~S4!AddrLess(a.bytes, row.prefix)
                                  /\ ~S4!AddrLess(S4!FillHost(row.prefix, row.pfxlen), a.bytes)
    BY <1>2, <1>3, Same4 DEF InBlock
  <2>6. InBlock(row, a.bytes) <=> S4!IsBetween(p, a.bytes)
    BY <1>2, <2>5 DEF S4!IsBetween, S4!First, S4!Last
  <2> QED BY <1>2, <2>2, <2>4, <2>6
<1>4. CASE family = "INET6"
  <2>1. row.prefix \in S6!Address /\ row.pfxlen \in S6!Pfxlen /\ a.bytes \in S6!Address
    BY <1>4, Shape6 DEF GoodRow, IsAddress, BytesOf, MaxLen
  <2>2. /\ S6!MaskApply(row.prefix, row.pfxlen) = row.prefix
        /\ RowMatches(row, a.bytes) <=> S6!MaskApply(a.bytes, row.pfxlen) = row.prefix
    BY <1>2, <1>4, <2>1, MatchIsMask
  <2>3. S6!IsPrefix(p)
    BY <1>1, <2>1, <2>2 DEF S6!IsPrefix, S6!IsEntry
  <2>4. S6!MaskApply(a.bytes, p.pfxlen) = p.addr <=> S6!IsBetween(p, a.bytes)
    BY <2>1, <2>3, Widths, S6!ContainsIsBetween
  <2>5. InBlock(row, a.bytes) <=> /\ ~S6!AddrLess(a.bytes, row.prefix)
                                  /\ ~S6!AddrLess(S6!FillHost(row.prefix, row.pfxlen), a.bytes)
    BY <1>2, <1>4, Same6 DEF InBlock
  <2>6. InBlock(row, a.bytes) <=> S6!IsBetween(p, a.bytes)
    BY <1>2, <2>5 DEF S6!IsBetween, S6!First, S6!Last
  <2> QED BY <1>2, <2>2, <2>4, <2>6
<1> QED BY <1>3, <1>4

\* The rows of an address, by the scan and by their blocks.
Matching(a) == {i \in DOMAIN classify_table : /\ classify_table[i].family = a.family
                                              /\ RowMatches(classify_table[i], a.bytes)}
Blocks(a) == {i \in DOMAIN classify_table : /\ classify_table[i].family = a.family
                                            /\ InBlock(classify_table[i], a.bytes)}

LEMMA ClassesAreFlags ==
  ASSUME NEW a, IsAddress(a), NEW out, NEW new, new = AddrClassify(a, out).out
  PROVE  /\ new \ {"GLOBAL"} = UNION {classify_table[i].flags : i \in Blocks(a)}
         /\ "GLOBAL" \in new <=> Blocks(a) = {}
<1>1. \A i \in DOMAIN classify_table :
        /\ classify_table[i].flags # {} /\ "GLOBAL" \notin classify_table[i].flags
        /\ classify_table[i].family = a.family =>
             (RowMatches(classify_table[i], a.bytes) <=> InBlock(classify_table[i], a.bytes))
  <2> TAKE i \in DOMAIN classify_table
  <2>1. PICK row : row = classify_table[i]
    OBVIOUS
  <2>2. PICK family \in {"INET", "INET6"} : GoodRow(row, family)
    BY <2>1, RowsAreGood
  <2>3. row.flags # {} /\ "GLOBAL" \notin row.flags /\ row.family = family
    BY <2>2 DEF GoodRow
  <2>4. row.family = a.family => (RowMatches(row, a.bytes) <=> InBlock(row, a.bytes))
    BY <2>2, <2>3, MatchIsBlock
  <2> QED BY <2>1, <2>3, <2>4
<1>2. Matching(a) = Blocks(a)
  BY <1>1 DEF Matching, Blocks
<1>3. PICK all : all = UNION {classify_table[i].flags : i \in Blocks(a)}
  OBVIOUS
<1>4. "GLOBAL" \notin all /\ (all = {} <=> Blocks(a) = {})
  <2>1. \A i \in Blocks(a) : /\ classify_table[i].flags # {}
                             /\ "GLOBAL" \notin classify_table[i].flags
    BY <1>1 DEF Blocks
  <2> QED BY <1>3, <2>1
<1>5. a.family # "UNSPEC"
  BY DEF IsAddress
<1>6. new = IF all = {} THEN {"GLOBAL"} ELSE all
  BY <1>2, <1>3, <1>5 DEF AddrClassify, Matching
<1> QED BY <1>3, <1>4, <1>6

\* An address has the flags of exactly the registry's blocks it lies in, and
\* GLOBAL exactly when it lies in none.
THEOREM ClassesAreBlocks == Spec => []ClassesOfBlocks
<1>1. Init => Holds /\ ClassesOfBlocks
  <2>1. CInit => ClassesOfBlocks
    BY NoCallIs DEF CInit, ClassesOfBlocks
  <2> QED BY <2>1, ProgramStarts DEF Init
<1>2. Holds /\ ClassesOfBlocks /\ [Next]_vars => Holds' /\ ClassesOfBlocks'
  <2> SUFFICES ASSUME Holds, ClassesOfBlocks, [Next]_vars PROVE Holds' /\ ClassesOfBlocks'
    OBVIOUS
  <2>1. Holds' /\ Steps
    BY StepHolds
  <2>2. CASE last'.call # "classify"
    BY <2>1, <2>2 DEF ClassesOfBlocks
  <2>3. CASE last' = last /\ UNCHANGED <<addr, class>>
    BY <2>1, <2>3 DEF ClassesOfBlocks, InBlock
  <2>4. CASE QuietStep
    <3>1. last' = last => UNCHANGED <<addr, class>>
      BY <2>4 DEF QuietStep, cVars
    <3>2. last' # last => last'.call # "classify"
      BY <2>4 DEF QuietStep, QuietCalls
    <3> QED BY <2>2, <2>3, <3>1, <3>2
  <2>5. CASE StepClassifies
    <3>1. /\ last'.rc = AddrClassify(addr, class).rc
          /\ class' = AddrClassify(addr, class).out /\ addr' = addr
      BY <2>5 DEF StepClassifies
    <3>2. CASE last'.rc = "OK"
      <4>1. IsAddress(addr)
        <5>1. addr.family # "UNSPEC"
          BY <3>1, <3>2 DEF AddrClassify
        <5> QED BY <5>1 DEF Holds, CallerHolds, StructsHold, IsCell
      <4>2. /\ class' \ {"GLOBAL"} = UNION {classify_table[i].flags : i \in Blocks(addr)}
            /\ "GLOBAL" \in class' <=> Blocks(addr) = {}
        BY <3>1, <4>1, ClassesAreFlags
      <4>3. ClassesOfBlocks'
        BY <3>1, <4>2 DEF ClassesOfBlocks, Blocks
      <4> QED BY <2>1, <4>3
    <3>3. CASE last'.rc # "OK"
      BY <2>1, <3>3 DEF ClassesOfBlocks
    <3> QED BY <3>2, <3>3
  <2>6. CASE StepFillsAddr
    <3>1. last'.call = "none"
      BY <2>6, NoCallIs DEF StepFillsAddr
    <3> QED BY <2>2, <3>1
  <2>7. CASE StepParsesAddr \/ StepParsesPrefix \/ StepWrites \/ StepParsesBatch
    <3>1. last'.call # "classify"
      BY <2>7 DEF StepParsesAddr, StepParsesPrefix, StepWrites, StepParsesBatch
    <3> QED BY <2>2, <3>1
  <2> QED BY <2>1, <2>4, <2>5, <2>6, <2>7 DEF Steps
<1> QED BY <1>1, <1>2, PTL DEF Spec

----------------------------------------------------------------------------
(* The bulk functions of the extension.                                    *)

\* What a call owns while a list helper works for it.
BeforeList == IF fn = "bulk_contains_packed" THEN {"view"}
              ELSE IF fn = "bulk_contains" /\ want = "prefixes" THEN {"addrs"}
              ELSE {}

Extracting == {"extract", "probe", "items", "null"}

Holdable == IF pc \in {"extract", "null"} THEN BeforeList
            ELSE IF pc = "probe" THEN BeforeList \cup {"seq"}
            ELSE IF pc = "items" THEN BeforeList \cup {"seq", "arr"}
            ELSE IF pc = "prepare" THEN Arguments
            ELSE IF pc \in {"convert", "call", "build"} THEN Arguments \cup Working
            ELSE IF pc = "fill" THEN Arguments \cup Working \cup {"result"}
            ELSE IF pc = "returned" /\ ret = "list" THEN {"result"}
            ELSE {}

Owned ==
  /\ own \subseteq Holdable
  /\ pc = "fill" \/ (pc = "returned" /\ ret = "list") => "result" \in own
  /\ pc \in Extracting => fn # "bulk_parse" /\ (want = "addrs" => fn = "bulk_contains")
  /\ pc = "enter" => want = "prefixes"
  /\ pc = "convert" => fn = "bulk_parse"
  /\ raised <=> pc = "null" \/ (pc = "returned" /\ ret = "NULL")
  /\ pc = "returned" <=> ret # "none"

BulkInv == TypeOK /\ Owned

USE ItemsAssumption DEF Functions, InPlace, Containing, Lists

\* A call not yet entered owns nothing.
LEMMA BulkInit == PyBulkInit => BulkInv
<1> SUFFICES ASSUME PyBulkInit PROVE BulkInv
  OBVIOUS
<1>1. TypeOK
  <2>1. count \in [Lists -> 0 .. MaxItems] /\ item \in 0 .. MaxItems
    BY DEF PyBulkInit
  <2>2. own = {}
    BY DEF PyBulkInit
  <2> QED BY <2>1, <2>2 DEF PyBulkInit, TypeOK
<1>2. Owned
  BY DEF PyBulkInit, Owned, Holdable, Extracting
<1> QED BY <1>1, <1>2 DEF BulkInv

\* Every failure after the lists leaves through the error path.
LEMMA FailWithPreserves ==
  ASSUME BulkInv, NEW got, got \subseteq Working, FailWith(got),
         pc \in {"prepare", "convert", "call", "build", "fill"}
  PROVE  BulkInv'
<1>1. own' = {}
  BY DEF BulkInv, Owned, Holdable, FailWith, ReturnNull, ErrorPath
<1>2. pc' = "returned" /\ ret' = "NULL" /\ raised' = TRUE /\ UNCHANGED <<fn, want, count, item>>
  BY DEF FailWith, ReturnNull
<1> QED BY <1>1, <1>2 DEF BulkInv, TypeOK, Owned, Holdable, Extracting

\* A helper that fails has released what it took.
LEMMA HelperFailsPreserves ==
  ASSUME BulkInv, NEW released, HelperFails(released),
         pc \in {"extract", "probe", "items"},
         own \ released \subseteq BeforeList
  PROVE  BulkInv'
<1>1. pc' = "null" /\ raised' = TRUE /\ own' = own \ released
      /\ UNCHANGED <<fn, want, count, item, ret>>
  BY DEF HelperFails
<1>2. own' \subseteq Holdable'
  BY <1>1 DEF Holdable, BeforeList
<1>3. own' \subseteq own /\ Arguments' = Arguments /\ Working' = Working
  BY <1>1 DEF Arguments, Working
<1> QED BY <1>1, <1>2, <1>3 DEF BulkInv, TypeOK, Owned, Extracting

\* Entering a function, and extracting its lists.
LEMMA ExtractionPreserves ==
  ASSUME BulkInv,
         EnterParse \/ EnterLists \/ EnterPacked \/ BadArguments \/ RefuseView \/ Extraction
  PROVE  BulkInv'
<1> USE DEF BulkInv
<1>1. CASE EnterParse
  <2>1. TypeOK'
    BY <1>1 DEF EnterParse, TypeOK, Arguments, Working
  <2> QED BY <1>1, <2>1 DEF EnterParse, TypeOK, Owned, Holdable, Extracting, Arguments
<1>2. CASE EnterLists
  <2>1. TypeOK'
    BY <1>2 DEF EnterLists, TypeOK, Arguments, Working
  <2> QED BY <1>2, <2>1 DEF EnterLists, Owned, Holdable, Extracting, BeforeList
<1>3. CASE EnterPacked
  <2>1. TypeOK'
    BY <1>3 DEF EnterPacked, TypeOK, Arguments, Working
  <2> QED BY <1>3, <2>1 DEF EnterPacked, Owned, Holdable, Extracting, BeforeList
<1>4. CASE BadArguments
  BY <1>4 DEF BadArguments, ReturnNull, TypeOK, Owned, Holdable, Extracting
<1>5. CASE RefuseView
  BY <1>5 DEF RefuseView, ReturnNull, TypeOK, Owned, Holdable, Extracting, BeforeList
<1>6. CASE ExtractBegin
  <2>1. TypeOK'
    BY <1>6 DEF ExtractBegin, TypeOK, Arguments, Working
  <2> QED BY <1>6, <2>1 DEF ExtractBegin, Owned, Holdable, Extracting, BeforeList
<1>7. CASE NoSequence
  <2>1. own \ {} \subseteq BeforeList /\ pc = "extract"
    BY <1>7 DEF NoSequence, Owned, Holdable
  <2> QED BY <1>7, <2>1, HelperFailsPreserves DEF NoSequence
<1>8. CASE ExtractAllocate
  <2>1. Arguments' = Arguments /\ Working' = Working
    BY <1>8 DEF ExtractAllocate, Arguments, Working
  <2>2. 0 <= count[want]
    BY DEF TypeOK
  <2>3. TypeOK'
    BY <1>8, <2>1, <2>2 DEF ExtractAllocate, TypeOK
  <2> QED BY <1>8, <2>3 DEF ExtractAllocate, Owned, Holdable, Extracting, BeforeList
<1>9. CASE NoFirstOrArray
  <2>1. own \ {"seq"} \subseteq BeforeList /\ pc = "probe"
    BY <1>9 DEF NoFirstOrArray, Owned, Holdable
  <2> QED BY <1>9, <2>1, HelperFailsPreserves DEF NoFirstOrArray
<1>10. CASE ExtractItem
  <2>1. Arguments' = Arguments /\ Working' = Working
    BY <1>10 DEF ExtractItem, Arguments, Working
  <2>2. item + 1 \in 0 .. MaxItems /\ item + 1 <= count[want]
    <3>1. item \in 0 .. MaxItems /\ count[want] \in 0 .. MaxItems /\ item < count[want]
      BY <1>10 DEF ExtractItem, TypeOK
    <3> QED BY <3>1
  <2>3. TypeOK'
    BY <1>10, <2>1, <2>2 DEF ExtractItem, TypeOK
  <2> QED BY <1>10, <2>3 DEF ExtractItem, Owned, Holdable, Extracting, BeforeList
<1>11. CASE WrongItem
  <2>1. own \ {"seq", "arr"} \subseteq BeforeList /\ pc = "items"
    BY <1>11 DEF WrongItem, Owned, Holdable
  <2> QED BY <1>11, <2>1, HelperFailsPreserves DEF WrongItem
<1>12. CASE ExtractEnd
  <2>1. own' \subseteq Holdable'
    BY <1>12 DEF ExtractEnd, Owned, Holdable, Extracting, BeforeList, TypeOK, Arguments
  <2>2. TypeOK'
    BY <1>12 DEF ExtractEnd, Owned, Holdable, Extracting, BeforeList, TypeOK, Arguments, Working
  <2> QED BY <1>12, <2>1, <2>2 DEF ExtractEnd, Owned, Extracting
<1>13. CASE HelperNull
  <2>1. own' = {}
    BY <1>13 DEF HelperNull, ReturnNull, Owned, Holdable, BeforeList, ErrorPath, Arguments
  <2> QED BY <1>13, <2>1 DEF HelperNull, ReturnNull, TypeOK, Owned, Holdable, Extracting
<1> QED BY <1>1, <1>2, <1>3, <1>4, <1>5, <1>6, <1>7, <1>8, <1>9, <1>10, <1>11, <1>12, <1>13
   DEF Extraction

\* The working arrays, the C call and the result.
LEMMA WorkPreserves ==
  ASSUME BulkInv,
         \/ EmptyResult \/ Allocate \/ NoMemory \/ FamilyMismatch
         \/ Convert \/ NotEncodable \/ CallParse \/ Call \/ CallFails
         \/ Build \/ NoList \/ Fill \/ NoItem \/ BatchError \/ ReturnList
  PROVE  BulkInv'
<1> USE DEF BulkInv
<1>1. CASE EmptyResult
  <2>1. own \ Arguments = {} /\ pc' = "returned" /\ UNCHANGED <<fn, want, count, item>>
    BY <1>1 DEF EmptyResult, Owned, Holdable
  <2>2. \/ own' = {"result"} /\ ret' = "list" /\ raised' = FALSE
        \/ own' = {} /\ ret' = "NULL" /\ raised' = TRUE
    BY <1>1, <2>1 DEF EmptyResult, Owned, TypeOK
  <2> QED BY <2>1, <2>2 DEF TypeOK, Owned, Holdable, Extracting
<1>2. CASE Allocate
  <2>1. own' \subseteq Arguments \cup Working
    BY <1>2 DEF Allocate, Preparing, Owned, Holdable, Listed, Arguments, Working
  <2>2. pc' = (IF fn = "bulk_parse" THEN "convert" ELSE "call") /\ item' = 0
        /\ UNCHANGED <<fn, want, count, raised, ret>> /\ pc = "prepare"
    BY <1>2 DEF Allocate, Preparing
  <2>3. Arguments' = Arguments /\ Working' = Working
    BY <2>2 DEF Arguments, Working
  <2> QED BY <2>1, <2>2, <2>3, ItemsAssumption DEF TypeOK, Owned, Holdable, Extracting
<1>3. CASE NoMemory
  BY <1>3, FailWithPreserves DEF NoMemory, Preparing
<1>4. CASE FamilyMismatch
  <2>1. (IF fn = "bulk_contains" THEN {"matches"} ELSE {}) \subseteq Working /\ pc = "prepare"
    BY <1>4 DEF FamilyMismatch, Working
  <2> QED BY <1>4, <2>1, FailWithPreserves DEF FamilyMismatch
<1>5. CASE Convert
  <2>1. Arguments' = Arguments /\ Working' = Working
    BY <1>5 DEF Convert, Arguments, Working
  <2>2. item + 1 \in 0 .. MaxItems /\ item + 1 <= count.srcs
    <3>1. item \in 0 .. MaxItems /\ count.srcs \in 0 .. MaxItems /\ item < count.srcs
      BY <1>5 DEF Convert, TypeOK
    <3> QED BY <3>1
  <2> QED BY <1>5, <2>1, <2>2 DEF Convert, TypeOK, Owned, Holdable, Extracting
<1>6. CASE NotEncodable \/ CallFails \/ NoList \/ NoItem \/ BatchError
  <2>1. FailWith({}) /\ pc \in {"convert", "call", "build", "fill"}
    BY <1>6 DEF NotEncodable, CallFails, NoList, NoItem, BatchError
  <2> QED BY <2>1, FailWithPreserves
<1>7. CASE CallParse \/ Call
  <2>1. Arguments' = Arguments /\ Working' = Working
    BY <1>7 DEF CallParse, Call, Arguments, Working
  <2> QED BY <1>7, <2>1 DEF CallParse, Call, TypeOK, Owned, Holdable, Extracting
<1>8. CASE Build
  <2>1. PICK n \in 0 .. count[Listed] : count' = [count EXCEPT !.result = n]
    BY <1>8 DEF Build
  <2>2. count[Listed] \in 0 .. MaxItems
    BY DEF TypeOK, Listed
  <2>3. n \in 0 .. MaxItems /\ count'.result = n /\ count' \in [Lists -> 0 .. MaxItems]
    <3>1. n \in 0 .. MaxItems
      BY <2>2
    <3> QED BY <2>1, <3>1 DEF TypeOK
  <2>4. pc' = "fill" /\ item' = 0 /\ own' = own \cup {"result"} /\ pc = "build"
        /\ UNCHANGED <<fn, want, raised, ret>>
    BY <1>8 DEF Build
  <2>5. Arguments' = Arguments /\ Working' = Working
    BY <2>4 DEF Arguments, Working
  <2>6. TypeOK'
    BY <2>3, <2>4, <2>5, ItemsAssumption DEF TypeOK
  <2> QED BY <2>4, <2>5, <2>6 DEF Owned, Holdable, Extracting
<1>9. CASE Fill
  <2>1. Arguments' = Arguments /\ Working' = Working
    BY <1>9 DEF Fill, Arguments, Working
  <2>2. item + 1 \in 0 .. MaxItems /\ item + 1 <= count.result
    <3>1. item \in 0 .. MaxItems /\ count.result \in 0 .. MaxItems /\ item < count.result
      BY <1>9 DEF Fill, TypeOK
    <3> QED BY <3>1
  <2> QED BY <1>9, <2>1, <2>2 DEF Fill, TypeOK, Owned, Holdable, Extracting
<1>10. CASE ReturnList
  <2>1. "result" \notin Arguments \cup Working
    BY DEF Arguments, Working
  <2>2. own' = {"result"}
    BY <1>10, <2>1 DEF ReturnList, Owned, Holdable
  <2> QED BY <1>10, <2>2 DEF ReturnList, TypeOK, Owned, Holdable, Extracting
<1> QED BY <1>1, <1>2, <1>3, <1>4, <1>5, <1>6, <1>7, <1>8, <1>9, <1>10

\* Every step of every function keeps what it may own at its point.
LEMMA BulkStep == BulkInv /\ [PyBulkNext]_pyBulkVars => BulkInv'
<1> SUFFICES ASSUME BulkInv, [PyBulkNext]_pyBulkVars
             PROVE  BulkInv'
  OBVIOUS
<1>1. CASE UNCHANGED pyBulkVars
  <2>1. Arguments' = Arguments /\ Working' = Working /\ BeforeList' = BeforeList
    BY <1>1 DEF pyBulkVars, Arguments, Working, BeforeList
  <2>2. TypeOK'
    BY <1>1, <2>1 DEF pyBulkVars, BulkInv, TypeOK
  <2> QED BY <1>1, <2>1, <2>2 DEF pyBulkVars, BulkInv, Owned, Holdable
<1>2. CASE PyBulkNext
  BY <1>2, ExtractionPreserves, WorkPreserves DEF PyBulkNext
<1> QED BY <1>1, <1>2

\* The types, the loop bounds, and what a call owns at each point.
THEOREM BulkInvariance == PyBulkSpec => []BulkInv
BY BulkInit, BulkStep, PTL DEF PyBulkSpec

\* Whatever fails, a call that has returned owns nothing but its result.
THEOREM NothingLeaks == PyBulkSpec => []NoLeak
<1>1. BulkInv => NoLeak
  BY DEF BulkInv, Owned, Holdable, NoLeak
<1> QED BY <1>1, BulkInvariance, PTL

\* NULL and an exception, or a list and none.
THEOREM ExceptionWithNull == PyBulkSpec => []RaisedIffNull
<1>1. BulkInv => RaisedIffNull
  BY DEF BulkInv, Owned, RaisedIffNull
<1> QED BY <1>1, BulkInvariance, PTL

----------------------------------------------------------------------------
(* What a call works with is there: the lists come in their order, so the  *)
(* first one is still owned while the second is extracted.                 *)

LiveInv == UsesLive /\ (pc \in Extracting => BeforeList \subseteq own)

\* A call not yet entered needs nothing.
LEMMA LiveInit == PyBulkInit => LiveInv
BY DEF PyBulkInit, LiveInv, UsesLive, Needed, Extracting

\* Entering and extracting keep what is needed next.
LEMMA ExtractionKeepsLive ==
  ASSUME BulkInv, LiveInv,
         EnterParse \/ EnterLists \/ EnterPacked \/ BadArguments \/ RefuseView \/ Extraction
  PROVE  LiveInv'
<1> USE DEF LiveInv, UsesLive, Needed, Extracting, BeforeList
<1>1. CASE EnterParse
  BY <1>1 DEF EnterParse, Arguments
<1>2. CASE EnterLists
  BY <1>2 DEF EnterLists, BulkInv, Owned
<1>3. CASE EnterPacked
  BY <1>3 DEF EnterPacked, BulkInv, Owned
<1>4. CASE BadArguments \/ RefuseView
  BY <1>4 DEF BadArguments, RefuseView, ReturnNull
<1>5. CASE ExtractBegin \/ ExtractAllocate \/ ExtractItem
  BY <1>5 DEF ExtractBegin, ExtractAllocate, ExtractItem
<1>6. CASE NoSequence \/ NoFirstOrArray \/ WrongItem
  BY <1>6 DEF NoSequence, NoFirstOrArray, WrongItem, HelperFails
<1>7. CASE ExtractEnd
  BY <1>7 DEF ExtractEnd, Arguments, BulkInv, Owned, TypeOK
<1>8. CASE HelperNull
  BY <1>8 DEF HelperNull, ReturnNull
<1> QED BY <1>1, <1>2, <1>3, <1>4, <1>5, <1>6, <1>7, <1>8 DEF Extraction

\* So do the allocations, the C call and the building of the result.
LEMMA WorkKeepsLive ==
  ASSUME BulkInv, LiveInv,
         \/ EmptyResult \/ Allocate \/ NoMemory \/ FamilyMismatch
         \/ Convert \/ NotEncodable \/ CallParse \/ Call \/ CallFails
         \/ Build \/ NoList \/ Fill \/ NoItem \/ BatchError \/ ReturnList
  PROVE  LiveInv'
<1> USE DEF LiveInv, UsesLive, Needed, Extracting
<1>1. CASE EmptyResult \/ NoMemory \/ FamilyMismatch \/ NotEncodable \/ CallFails \/ NoList
           \/ NoItem \/ BatchError \/ ReturnList
  <2>1. pc' = "returned"
    BY <1>1 DEF EmptyResult, NoMemory, FamilyMismatch, NotEncodable, CallFails, NoList,
                NoItem, BatchError, ReturnList, FailWith, ReturnNull
  <2> QED BY <2>1
<1>2. CASE Allocate
  <2>1. pc = "prepare" /\ pc' \in {"convert", "call"} /\ UNCHANGED <<fn, count>>
        /\ own' = own \cup (IF count[Listed] = 0 THEN {"matches"} ELSE Working)
    BY <1>2 DEF Allocate, Preparing
  <2>2. Arguments' = Arguments /\ Working' = Working /\ Listed' = Listed
    BY <2>1 DEF Arguments, Working, Listed
  <2> QED BY <2>1, <2>2
<1>3. CASE Convert \/ CallParse \/ Call \/ Fill
  <2>1. UNCHANGED <<fn, count, own>>
    BY <1>3 DEF Convert, CallParse, Call, Fill
  <2>2. \/ pc \in {"convert", "call"} /\ pc' \in {"convert", "build"}
        \/ pc = "fill" /\ pc' = "fill"
    BY <1>3 DEF Convert, CallParse, Call, Fill
  <2>3. Arguments' = Arguments /\ Working' = Working /\ Listed' = Listed
    BY <2>1 DEF Arguments, Working, Listed
  <2> QED BY <2>1, <2>2, <2>3
<1>4. CASE Build
  <2>1. pc = "build" /\ pc' = "fill" /\ UNCHANGED fn /\ own' = own \cup {"result"}
    BY <1>4 DEF Build
  <2>2. Arguments' = Arguments /\ Working' = Working /\ Listed' = Listed
    BY <2>1 DEF Arguments, Working, Listed
  <2>3. count'[Listed] = count[Listed]
    BY <1>4 DEF Build, Listed, BulkInv, TypeOK
  <2> QED BY <2>1, <2>2, <2>3
<1> QED BY <1>1, <1>2, <1>3, <1>4

\* Every step of every function keeps what it still needs.
LEMMA LiveStep == BulkInv /\ LiveInv /\ [PyBulkNext]_pyBulkVars => LiveInv'
<1> SUFFICES ASSUME BulkInv, LiveInv, [PyBulkNext]_pyBulkVars
             PROVE  LiveInv'
  OBVIOUS
<1>1. CASE UNCHANGED pyBulkVars
  BY <1>1 DEF pyBulkVars, LiveInv, UsesLive, Needed, Extracting, BeforeList, Arguments, Working, Listed
<1>2. CASE PyBulkNext
  BY <1>2, ExtractionKeepsLive, WorkKeepsLive DEF PyBulkNext
<1> QED BY <1>1, <1>2

\* At each point a call still owns what the code there works with.
THEOREM NothingUsedAfterRelease == PyBulkSpec => []UsesLive
<1>1. LiveInv => UsesLive
  BY DEF LiveInv
<1> QED BY <1>1, LiveInit, LiveStep, BulkInvariance, PTL DEF PyBulkSpec

----------------------------------------------------------------------------
(* PrefixIndex.                                                            *)

Ownership == IndexTypeOK /\ OwnedOnce

\* Leaving a method keeps the result and the control points in their ranges.
LEMMA ReturnsTyped ==
  ASSUME IndexTypeOK, NEW c \in Callers,
         NEW r \in {"none", "new", "destroyed", "error", "empty", "matches", "closed"},
         Returns(c, r)
  PROVE  /\ at' \in [Callers -> {"idle", "extract"}]
         /\ result' \in [Callers -> {"none", "new", "destroyed", "error", "empty",
                                     "matches", "closed"}]
BY DEF IndexTypeOK, Returns

\* Clearing the pointer and freeing the index are one step.
LEMMA DestroyKeepsOwnership ==
  ASSUME Ownership, DestroyOwned
  PROVE  /\ heap' \in {"none", "live", "freed"}
         /\ frees' \in {0, 1}
         /\ index' = "NULL"
         /\ heap' # "live"
         /\ heap' = "freed" <=> frees' = 1
BY DEF Ownership, IndexTypeOK, OwnedOnce, DestroyOwned

\* Before the constructor there is no index.
LEMMA OwnershipInit == IndexInit => Ownership
BY DEF IndexInit, Ownership, IndexTypeOK, OwnedOnce

\* Every action of every caller keeps the ownership.
LEMMA OwnershipStep == Ownership /\ [IndexNext]_indexVars => Ownership'
<1> SUFFICES ASSUME Ownership, [IndexNext]_indexVars
             PROVE  Ownership'
  OBVIOUS
<1> USE DEF Ownership
<1>1. CASE UNCHANGED indexVars
  BY <1>1 DEF indexVars, IndexTypeOK, OwnedOnce
<1>2. ASSUME NEW c \in Callers, New(c)
      PROVE  Ownership'
  <2>1. heap = "none" /\ frees = 0 /\ index = "NULL"
    BY <1>2 DEF New, IndexTypeOK, OwnedOnce
  <2>2. \E r \in {"new", "error"} : Returns(c, r)
    BY <1>2 DEF New
  <2>3. IndexTypeOK'
    BY <1>2, <2>1, <2>2, ReturnsTyped DEF New, IndexTypeOK
  <2>4. OwnedOnce'
    BY <1>2, <2>1 DEF New, OwnedOnce
  <2> QED BY <2>3, <2>4
\* What only moves a caller along keeps the index and the object.
<1>3. ASSUME NEW c \in Callers,
             LookupDestroyed(c) \/ LookupBegin(c) \/ LookupLeave(c) \/ LookupFinish(c)
      PROVE  Ownership'
  <2>1. UNCHANGED <<heap, frees, object, index, holds>>
    BY <1>3 DEF LookupDestroyed, LookupBegin, LookupLeave, LookupFinish
  <2>2. OwnedOnce'
    BY <2>1 DEF OwnedOnce
  <2>3. /\ at' \in [Callers -> {"idle", "extract"}]
        /\ result' \in [Callers -> {"none", "new", "destroyed", "error", "empty",
                                    "matches", "closed"}]
    <3>1. CASE LookupBegin(c)
      BY <3>1 DEF LookupBegin, IndexTypeOK
    <3>2. CASE LookupDestroyed(c)
      BY <3>2, ReturnsTyped DEF LookupDestroyed
    <3>3. CASE LookupLeave(c)
      BY <3>3, ReturnsTyped DEF LookupLeave
    <3>4. CASE LookupFinish(c)
      BY <3>4, ReturnsTyped DEF LookupFinish
    <3> QED BY <1>3, <3>1, <3>2, <3>3, <3>4
  <2> QED BY <2>1, <2>2, <2>3 DEF IndexTypeOK
<1>4. ASSUME NEW c \in Callers, Exit(c)
      PROVE  Ownership'
  <2>1. UNCHANGED <<object, holds>> /\ DestroyOwned /\ Returns(c, "closed")
    BY <1>4 DEF Exit
  <2> QED BY <2>1, DestroyKeepsOwnership, ReturnsTyped DEF IndexTypeOK, OwnedOnce
<1>5. ASSUME NEW c \in Callers, NEW d \in Callers, Share(c, d)
      PROVE  Ownership'
  BY <1>5 DEF Share, IndexTypeOK, OwnedOnce
<1>6. ASSUME NEW c \in Callers, Drop(c)
      PROVE  Ownership'
  <2>1. holds' \subseteq Callers /\ UNCHANGED <<at, result>>
    BY <1>6 DEF Drop, IndexTypeOK
  <2>2. CASE holds' = {}
    <3>1. object' = "gone" /\ DestroyOwned
      BY <1>6, <2>2 DEF Drop
    <3> QED BY <2>1, <3>1, DestroyKeepsOwnership DEF IndexTypeOK, OwnedOnce
  <2>3. CASE holds' # {}
    <3>1. UNCHANGED <<object, heap, frees, index>>
      BY <1>6, <2>3 DEF Drop
    <3> QED BY <2>1, <3>1 DEF IndexTypeOK, OwnedOnce
  <2> QED BY <2>2, <2>3
<1> QED BY <1>1, <1>2, <1>3, <1>4, <1>5, <1>6 DEF IndexNext

\* The types and the ownership of the index, for any set of callers.
THEOREM OwnershipHolds == IndexSpec => []Ownership
BY OwnershipInit, OwnershipStep, PTL DEF IndexSpec

\* The index is freed once, by an exit or with the object, and by no one twice.
THEOREM FreedOnce == IndexSpec => []OwnedOnce
<1>1. Ownership => OwnedOnce
  BY DEF Ownership
<1> QED BY <1>1, OwnershipHolds, PTL

\* A lookup that returns matches has read a live index, whatever happened while
\* the iterator of its argument ran.
THEOREM NoMatchAfterFree == IndexSpec => MatchesAreLive
<1>1. ASSUME Ownership, [IndexNext]_indexVars
      PROVE  [\A c \in Callers : at[c] = "extract" /\ at'[c] = "idle" /\ result'[c] = "matches"
                => heap = "live"]_indexVars
  <2> SUFFICES ASSUME IndexNext, NEW c \in Callers, at[c] = "extract", at'[c] = "idle",
                      result'[c] = "matches"
               PROVE  heap = "live"
    BY <1>1
  <2>1. at \in [Callers -> {"idle", "extract"}] /\ DOMAIN result = Callers
    BY <1>1 DEF Ownership, IndexTypeOK
  <2>2. PICK e \in Callers :
          \/ New(e) \/ LookupDestroyed(e) \/ LookupBegin(e) \/ LookupLeave(e)
          \/ LookupFinish(e) \/ Exit(e) \/ Drop(e) \/ \E d \in Callers : Share(e, d)
    BY DEF IndexNext
  <2>3. at'[c] # at[c]
    OBVIOUS
  <2>4. LookupFinish(e) /\ e = c
    BY <2>1, <2>2, <2>3 DEF New, LookupDestroyed, LookupBegin, LookupLeave, LookupFinish,
       Exit, Drop, Share, MayCall, Returns
  <2>5. index # "NULL"
    BY <2>1, <2>4 DEF LookupFinish, Returns
  <2> QED BY <1>1, <2>5 DEF Ownership, IndexTypeOK, OwnedOnce
<1> QED BY <1>1, OwnershipHolds, PTL DEF IndexSpec, MatchesAreLive

----------------------------------------------------------------------------
\* A step of one part leaves the variables of the other alone.
LEMMA ExtensionParts == ExtensionSpec => PyBulkSpec /\ IndexSpec
<1>1. ExtensionInit => PyBulkInit /\ IndexInit
  BY DEF ExtensionInit
<1>2. [ExtensionNext]_extensionVars => [PyBulkNext]_pyBulkVars /\ [IndexNext]_indexVars
  <2> SUFFICES ASSUME [ExtensionNext]_extensionVars
               PROVE  [PyBulkNext]_pyBulkVars /\ [IndexNext]_indexVars
    OBVIOUS
  <2>1. CASE PyBulkNext /\ UNCHANGED indexVars
    BY <2>1
  <2>2. CASE IndexNext /\ UNCHANGED pyBulkVars
    BY <2>2
  <2>3. CASE UNCHANGED extensionVars
    BY <2>3 DEF extensionVars
  <2> QED BY <2>1, <2>2, <2>3 DEF ExtensionNext
<1> QED BY <1>1, <1>2, PTL DEF ExtensionSpec, PyBulkSpec, IndexSpec

\* What holds of a bulk call and of the callers of an index by themselves holds
\* of both in one interpreter, in whatever order their steps come.
THEOREM ExtensionIsSafe ==
  ExtensionSpec => /\ [](NoLeak /\ RaisedIffNull /\ UsesLive /\ OwnedOnce)
                   /\ MatchesAreLive
BY ExtensionParts, NothingLeaks, ExceptionWithNull, NothingUsedAfterRelease,
   FreedOnce, NoMatchAfterFree, PTL
==============================================================================
