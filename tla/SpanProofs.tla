----------------------------- MODULE SpanProofs -----------------------------
(***************************************************************************)
(* Lemmas about numbers and the addresses of CidrPrefix as numbers:        *)
(* induction over intervals and finite sets, loops as recursive functions, *)
(* division and powers of two; then comparison, masking, blocks, siblings, *)
(* carry addition and the bits of an address.  No module's state is        *)
(* mentioned; the proofs about the components all rest on these.           *)
(***************************************************************************)
EXTENDS PrefixSpans, FiniteSetTheorems, TLAPS

\* A nonempty set of natural numbers has a least element: the intervals below
\* its elements are finite sets, and those are well-founded under inclusion.
LEMMA LeastElement ==
  ASSUME NEW T, T \subseteq Nat, T # {}
  PROVE  \E x \in T : \A y \in T : x <= y
<1> DEFINE R == StrictSubsetOrdering(Nat)
           below(x) == 0 .. x - 1
           X == {below(x) : x \in T}
<1>1. IsWellFoundedOn(R, FiniteSubsetsOf(Nat))
  BY FS_StrictSubsetOrderingWellFounded
<1>2. X \subseteq FiniteSubsetsOf(Nat) /\ X # {}
  <2>1. ASSUME NEW x \in T PROVE below(x) \in SUBSET Nat /\ IsFiniteSet(below(x))
    <3>1. 0 \in Int /\ x - 1 \in Int
      OBVIOUS
    <3> QED BY <3>1, FS_Interval
  <2> QED BY <2>1 DEF FiniteSubsetsOf
<1>3. PICK U \in X : \A V \in X : ~(<<V, U>> \in R)
  <2> HIDE DEF R, X
  <2> QED BY <1>1, <1>2, WFMin
<1>4. PICK x \in T : U = below(x)
  OBVIOUS
<1>5. ASSUME NEW y \in T, y < x PROVE FALSE
  <2>1. /\ below(y) \in SUBSET Nat /\ below(x) \in SUBSET Nat
        /\ below(y) \subseteq below(x)
        /\ y \in below(x) /\ y \notin below(y)
    BY <1>5
  <2>2. <<below(y), below(x)>> \in R
    <3> HIDE DEF below
    <3> QED BY <2>1 DEF StrictSubsetOrdering
  <2>3. below(y) \in X
    OBVIOUS
  <2> QED BY <1>3, <1>4, <2>2, <2>3
<1> QED BY <1>4, <1>5

\* Induction over the natural numbers, for a set instead of a predicate: the
\* form in which it can be instantiated.
LEMMA SetInduction ==
  ASSUME NEW S, 0 \in S, \A n \in Nat : n \in S => n + 1 \in S
  PROVE  Nat \subseteq S
<1> DEFINE T == Nat \ S
<1>1. SUFFICES ASSUME T # {} PROVE FALSE
  OBVIOUS
<1>2. PICK x \in T : \A y \in T : x <= y
  BY <1>1, LeastElement
<1>3. x # 0 /\ x - 1 \in Nat
  BY <1>2
<1>4. x - 1 \notin T
  BY <1>2, <1>3
<1> QED BY <1>2, <1>3, <1>4

\* A loop of n rounds over values in D has a result: the k-th round makes
\* step[<<k, d>>] of d.
IsLoop(f, n, D, first, step) ==
  /\ f \in [0 .. n -> D]
  /\ f[0] = first
  /\ \A k \in 1 .. n : f[k] = step[<<k, f[k - 1]>>]
Loop(n, D, first, step) == CHOOSE f : IsLoop(f, n, D, first, step)

LEMMA LoopExists ==
  ASSUME NEW n \in Nat, NEW D, NEW first \in D, NEW step \in [(1 .. n) \X D -> D]
  PROVE  IsLoop(Loop(n, D, first, step), n, D, first, step)
<1> DEFINE Good(f, m) == /\ f \in [0 .. m -> D] /\ f[0] = first
                         /\ \A k \in 1 .. m : f[k] = step[<<k, f[k - 1]>>]
           S == {m \in Nat : m <= n => \E f : Good(f, m)}
<1>1. 0 \in S
  <2>1. Good([k \in 0 .. 0 |-> first], 0)
    OBVIOUS
  <2> QED BY <2>1
<1>2. ASSUME NEW m \in Nat, m \in S
      PROVE  m + 1 \in S
  <2> SUFFICES ASSUME m + 1 <= n PROVE \E f : Good(f, m + 1)
    OBVIOUS
  <2>1. PICK f : Good(f, m)
    BY <1>2
  <2>2. PICK d : d = step[<<m + 1, f[m]>>]
    OBVIOUS
  <2>3. d \in D
    BY <2>1, <2>2
  <2> DEFINE g == [k \in 0 .. m + 1 |-> IF k = m + 1 THEN d ELSE f[k]]
  <2>4. g \in [0 .. m + 1 -> D] /\ g[0] = first
    BY <2>1, <2>3
  <2>5. ASSUME NEW k \in 1 .. m + 1
        PROVE  g[k] = step[<<k, g[k - 1]>>]
    <3>1. k - 1 \in 0 .. m + 1 /\ k - 1 # m + 1 /\ k \in 0 .. m + 1
      OBVIOUS
    <3>2. g[k - 1] = f[k - 1]
      BY <3>1
    <3>3. CASE k = m + 1
      BY <2>2, <3>1, <3>2, <3>3
    <3>4. CASE k \in 1 .. m
      <4>1. g[k] = f[k]
        BY <3>1, <3>4
      <4> QED BY <2>1, <3>2, <3>4, <4>1
    <3> QED BY <3>3, <3>4
  <2>6. Good(g, m + 1)
    <3> HIDE DEF g
    <3> QED BY <2>4, <2>5
  <2> HIDE DEF g, Good
  <2> QED BY <2>6
<1>3. n \in S
  <2> HIDE DEF S
  <2> QED BY <1>1, <1>2, SetInduction
<1>4. \E f : IsLoop(f, n, D, first, step)
  BY <1>3 DEF IsLoop
<1> QED BY <1>4 DEF Loop

\* What holds before the first round and after every round holds at the end.
LEMMA RoundByRound ==
  ASSUME NEW n \in Nat, NEW S, 0 \in S,
         \A k \in 1 .. n : k - 1 \in S => k \in S
  PROVE  0 .. n \subseteq S
<1> DEFINE R == {k \in Nat : k <= n => k \in S}
<1>1. 0 \in R
  OBVIOUS
<1>2. ASSUME NEW k \in Nat, k \in R
      PROVE  k + 1 \in R
  <2> SUFFICES ASSUME k + 1 <= n PROVE k + 1 \in S
    OBVIOUS
  <2>1. k \in S /\ k + 1 \in 1 .. n /\ (k + 1) - 1 = k
    BY <1>2
  <2> QED BY <2>1
<1>3. Nat \subseteq R
  <2> HIDE DEF R
  <2> QED BY <1>1, <1>2, SetInduction
<1> QED BY <1>3

----------------------------------------------------------------------------
(* Division.                                                               *)

\* What the quotient is, and that nothing else is.
LEMMA DivisionIs ==
  ASSUME NEW n \in Int, NEW m \in Nat \ {0}
  PROVE  /\ n \div m \in Int
         /\ m * (n \div m) <= n
         /\ n < m * (n \div m) + m
OBVIOUS

LEMMA DivisionIsUnique ==
  ASSUME NEW n \in Int, NEW m \in Nat \ {0}, NEW q \in Int, NEW s \in Int,
         m * q <= n, n < m * q + m, m * s <= n, n < m * s + m
  PROVE  q = s
<1>1. ASSUME NEW a \in Int, NEW b \in Int, a < b
      PROVE  m * a + m <= m * b
  <2>1. PICK e \in Nat : b = a + 1 + e
    BY <1>1
  <2>2. m * b = m * a + m + m * e
    BY <2>1
  <2>3. m * e >= 0
    OBVIOUS
  <2>4. m * a \in Int /\ m * e \in Int
    OBVIOUS
  <2> QED BY <2>2, <2>3, <2>4
<1>2. m * q \in Int /\ m * s \in Int
  OBVIOUS
<1>3. ~(q < s)
  BY <1>1, <1>2
<1>4. ~(s < q)
  BY <1>1, <1>2
<1> QED BY <1>3, <1>4

LEMMA SmallRemainder ==
  ASSUME NEW m \in Nat \ {0}, NEW x \in 0 .. m - 1
  PROVE  x - (x % m) = 0
<1>1. x \in Int /\ m * (x \div m) <= x /\ x < m * (x \div m) + m /\ x \div m \in Int
  BY DivisionIs
<1>2. m * 0 = 0
  OBVIOUS
<1>3. x \div m = 0
  BY <1>1, <1>2, DivisionIsUnique
<1>4. x = m * (x \div m) + (x % m) /\ x % m \in Int
  OBVIOUS
<1> QED BY <1>2, <1>3, <1>4

\* To divide by a product, divide by the one factor and then by the other.
LEMMA DivideTwice ==
  ASSUME NEW n \in Nat, NEW w \in Nat \ {0}, NEW b \in Nat \ {0}
  PROVE  n \div (b * w) = (n \div w) \div b
<1> DEFINE q == n \div w
           s == q \div b
           r == n - w * q
           t == q - b * s
           m == b * w
<1>1. q \in Int /\ w * q <= n /\ n < w * q + w
  BY DivisionIs
<1>2. s \in Int /\ b * s <= q /\ q < b * s + b
  <2> HIDE DEF q
  <2> QED BY <1>1, DivisionIs
<1> HIDE DEF q, s
<1>3. r \in Nat /\ r < w /\ t \in Nat /\ t <= b - 1 /\ n = w * q + r /\ q = b * s + t
  BY <1>1, <1>2
<1> HIDE DEF r, t
<1>4. m \in Nat \ {0}
  OBVIOUS
<1>5. w * q = m * s + w * t
  <2>1. w * q = w * (b * s) + w * t
    BY <1>1, <1>2, <1>3
  <2>2. w * (b * s) = m * s
    BY <1>2
  <2> QED BY <2>1, <2>2
<1>6. w * t >= 0 /\ w * t + w <= m
  <2>1. PICK u \in Nat : b = t + 1 + u
    BY <1>3
  <2>2. m = w * t + w + w * u
    BY <1>3, <2>1
  <2>3. w * u >= 0 /\ w * t >= 0
    BY <1>3
  <2>4. w * u \in Int /\ w * t \in Int
    BY <1>3
  <2> QED BY <2>2, <2>3, <2>4
<1>7. m * s \in Int /\ w * t \in Int
  BY <1>2, <1>3
<1> HIDE DEF m
<1>8. m * s <= n /\ n < m * s + m
  BY <1>3, <1>4, <1>5, <1>6, <1>7
<1>9. n \div m \in Int /\ m * (n \div m) <= n /\ n < m * (n \div m) + m
  BY <1>4, DivisionIs
<1>10. n \div m = s
  BY <1>2, <1>4, <1>8, <1>9, DivisionIsUnique
<1> QED BY <1>10 DEF m, s, q

\* Division keeps the order.
LEMMA DivisionAscends ==
  ASSUME NEW n \in Nat, NEW k \in Nat, NEW m \in Nat \ {0}, n <= k
  PROVE  n \div m <= k \div m
<1> DEFINE q == n \div m
           s == k \div m
<1>1. q \in Int /\ m * q <= n /\ n < m * q + m
  BY DivisionIs
<1>2. s \in Int /\ m * s <= k /\ k < m * s + m
  BY DivisionIs
<1> HIDE DEF q, s
<1>3. SUFFICES ASSUME s < q PROVE FALSE
  BY <1>1, <1>2 DEF q, s
<1>4. PICK e \in Nat : q = s + 1 + e
  BY <1>1, <1>2, <1>3
<1>5. m * q = m * s + m + m * e
  BY <1>2, <1>4
<1>6. m * e >= 0 /\ m * e \in Int /\ m * s \in Int /\ m * q \in Int
  BY <1>1, <1>2
<1> QED BY <1>1, <1>2, <1>5, <1>6

\* Two digits make one number only.
LEMMA DigitsAreUnique ==
  ASSUME NEW m \in Nat \ {0}, NEW q \in Int, NEW s \in Int,
         NEW x \in 0 .. m - 1, NEW y \in 0 .. m - 1
  PROVE  m * q + x = m * s + y <=> q = s /\ x = y
<1>1. m * q \in Int /\ m * s \in Int
  OBVIOUS
<1>2. ASSUME m * q + x = m * s + y
      PROVE  q = s
  <2> DEFINE n == m * q + x
  <2>1. n \in Int /\ m * q <= n /\ n < m * q + m
    BY <1>1
  <2>2. m * s <= n /\ n < m * s + m
    BY <1>1, <1>2
  <2> HIDE DEF n
  <2> QED BY <2>1, <2>2, DivisionIsUnique
<1> QED BY <1>1, <1>2

\* The quotient of a number whose upper digit is known.
LEMMA DivisionOfSum ==
  ASSUME NEW m \in Nat \ {0}, NEW q \in Nat, NEW x \in Nat
  PROVE  (m * q + x) \div m = q + (x \div m)
<1> DEFINE n == m * q + x
           e == x \div m
<1>1. e \in Int /\ m * e <= x /\ x < m * e + m
  BY DivisionIs
<1>2. n \in Int /\ m * q \in Int
  OBVIOUS
<1> HIDE DEF e
<1>3. m * (q + e) = m * q + m * e /\ m * e \in Int
  BY <1>1
<1>4. m * (q + e) <= n /\ n < m * (q + e) + m
  BY <1>1, <1>2, <1>3
<1> HIDE DEF n
<1>5. n \div m \in Int /\ m * (n \div m) <= n /\ n < m * (n \div m) + m
  BY <1>2, DivisionIs
<1>6. q + e \in Int
  BY <1>1
<1>7. n \div m = q + e
  BY <1>2, <1>4, <1>5, <1>6, DivisionIsUnique
<1> QED BY <1>7 DEF n, e

----------------------------------------------------------------------------
(* Powers of two.                                                          *)

\* The powers of two: the number of subsets of a set doubles with an element.
LEMMA PowersOfTwo ==
  2^0 = 1 /\ \A k \in Nat : 2^k \in Nat \ {0} /\ 2^(k + 1) = 2 * 2^k
<1>1. ASSUME NEW k \in Nat
      PROVE  2^k \in Nat \ {0} /\ 2^(k + 1) = 2 * 2^k
  <2> DEFINE S == 1 .. k
             T == 1 .. k + 1
             With(B) == B \cup {k + 1}
             X == {With(B) : B \in SUBSET S}
             f == [B \in SUBSET S |-> With(B)]
  <2>1. /\ IsFiniteSet(S) /\ Cardinality(S) = k
        /\ IsFiniteSet(T) /\ Cardinality(T) = k + 1
    <3>1. /\ 1 \in Int /\ k \in Int /\ k + 1 \in Int
          /\ ~(1 > k + 1) /\ (k + 1) - 1 + 1 = k + 1
          /\ 1 > k => k = 0
          /\ k - 1 + 1 = k
      OBVIOUS
    <3> QED BY ONLY <3>1, FS_Interval
  <2>2. /\ IsFiniteSet(SUBSET S) /\ Cardinality(SUBSET S) = 2^k
        /\ Cardinality(SUBSET T) = 2^(k + 1)
    BY ONLY <2>1, FS_SUBSET
  <2>3. SUBSET T = (SUBSET S) \cup X
    <3>1. ASSUME NEW B \in SUBSET T PROVE B \in (SUBSET S) \cup X
      <4>1. CASE k + 1 \in B
        <5>1. B \ {k + 1} \in SUBSET S /\ B = With(B \ {k + 1})
          BY <4>1
        <5> QED BY <5>1
      <4>2. CASE k + 1 \notin B
        BY <4>2
      <4> QED BY <4>1, <4>2
    <3>2. SUBSET S \subseteq SUBSET T
      OBVIOUS
    <3>3. ASSUME NEW B \in X PROVE B \in SUBSET T
      <4>1. PICK C \in SUBSET S : B = With(C)
        OBVIOUS
      <4>2. k + 1 \in T /\ C \subseteq T
        OBVIOUS
      <4> HIDE DEF T
      <4> QED BY <4>1, <4>2
    <3> HIDE DEF S, T, X
    <3> QED BY <3>1, <3>2, <3>3
  <2>4. (SUBSET S) \cap X = {}
    OBVIOUS
  <2>5. f \in Bijection(SUBSET S, X)
    <3>1. f \in Surjection(SUBSET S, X)
      BY DEF Surjection
    <3>2. f \in Injection(SUBSET S, X)
      <4>1. \A B, C \in SUBSET S : With(B) = With(C) => B = C
        <5>1. \A B \in SUBSET S : B = With(B) \ {k + 1}
          OBVIOUS
        <5> QED BY <5>1
      <4> QED BY <4>1, <3>1 DEF Injection, IsInjective, Surjection
    <3> QED BY <3>1, <3>2 DEF Bijection
  <2>6. IsFiniteSet(X) /\ Cardinality(X) = 2^k
    <3> HIDE DEF S, X, f
    <3> QED BY <2>2, <2>5, FS_Bijection DEF ExistsBijection
  <2>7. 2^(k + 1) = 2^k + 2^k - Cardinality({})
    <3> HIDE DEF S, X, T
    <3> QED BY <2>2, <2>3, <2>4, <2>6, FS_Union
  <2>8. Cardinality({}) = 0
    BY FS_EmptySet
  <2>9. 2^k \in Nat /\ 2^k # 0
    <3>1. Cardinality(SUBSET S) \in Nat
      <4> HIDE DEF S
      <4> QED BY <2>2, FS_CardinalityType
    <3>2. SUBSET S # {}
      OBVIOUS
    <3> HIDE DEF S
    <3> QED BY <2>2, <3>1, <3>2, FS_EmptySet
  <2> QED BY <2>7, <2>8, <2>9
<1> QED BY <1>1
LEMMA Shape ==
  /\ ByteBits \in Nat \ {0} /\ AddrLen \in Nat \ {0}
  /\ KeyBits \in Nat /\ KeyBits = ByteBits * AddrLen
  /\ ByteBits <= KeyBits
<1>1. ByteBits \in Nat \ {0} /\ AddrLen \in Nat \ {0}
  BY ShapeAssumption
<1>2. PICK n \in Nat : AddrLen = n + 1
  <2>1. AddrLen - 1 \in Nat /\ AddrLen = (AddrLen - 1) + 1
    BY <1>1
  <2> QED BY <2>1
<1>3. ByteBits * AddrLen = ByteBits * n + ByteBits /\ ByteBits * n \in Nat
  BY <1>1, <1>2
<1> QED BY <1>1, <1>3 DEF KeyBits

LEMMA PowersAdd ==
  ASSUME NEW j \in Nat, NEW k \in Nat
  PROVE  2^(j + k) = 2^j * 2^k
<1> DEFINE S == {n \in Nat : 2^(j + n) = 2^j * 2^n}
<1>1. 0 \in S
  <2>1. 2^j \in Nat /\ j + 0 = j
    BY PowersOfTwo
  <2>2. 2^j * 1 = 2^j
    BY <2>1
  <2> QED BY <2>1, <2>2, PowersOfTwo
<1>2. ASSUME NEW n \in Nat, n \in S
      PROVE  n + 1 \in S
  <2>1. 2^j \in Nat /\ 2^n \in Nat /\ 2^(n + 1) = 2 * 2^n
    BY PowersOfTwo
  <2>2. 2^(j + n) = 2^j * 2^n
    BY <1>2
  <2>3. j + (n + 1) = (j + n) + 1 /\ j + n \in Nat
    OBVIOUS
  <2>4. 2^(j + (n + 1)) = 2 * 2^(j + n)
    BY <2>3, PowersOfTwo
  <2>5. \A x, y \in Nat : 2 * (x * y) = x * (2 * y)
    OBVIOUS
  <2> QED BY <2>1, <2>2, <2>4, <2>5
<1>3. Nat \subseteq S
  <2> HIDE DEF S
  <2> QED BY <1>1, <1>2, SetInduction
<1> QED BY <1>3

LEMMA PowerIsPositive ==
  ASSUME NEW k \in 0 .. KeyBits
  PROVE  2^k \in Nat \ {0}
BY PowersOfTwo

LEMMA ByteIsPower ==
  /\ ByteSize \in Nat \ {0}
  /\ \A r \in 0 .. ByteBits : /\ 2^r \in Nat \ {0} /\ 2^(ByteBits - r) \in Nat \ {0}
                              /\ ByteSize = 2^(ByteBits - r) * 2^r
<1>1. \A r \in 0 .. ByteBits : /\ r \in 0 .. KeyBits /\ ByteBits - r \in 0 .. KeyBits
                               /\ (ByteBits - r) + r = ByteBits
  BY Shape
<1>2. \A r \in 0 .. ByteBits : ByteSize = 2^(ByteBits - r) * 2^r
  <2> TAKE r \in 0 .. ByteBits
  <2>1. 2^((ByteBits - r) + r) = 2^(ByteBits - r) * 2^r
    <3>1. ByteBits - r \in Nat /\ r \in Nat /\ (ByteBits - r) + r <= KeyBits
      BY <1>1, Shape
    <3> QED BY <3>1, PowersAdd
  <2> QED BY <1>1, <2>1 DEF ByteSize
<1>3. ByteSize \in Nat \ {0}
  BY Shape, PowerIsPositive DEF ByteSize
<1> QED BY <1>1, <1>2, <1>3, PowerIsPositive

----------------------------------------------------------------------------
(* An address as a number.                                                 *)

\* The numbers its leading bytes make.
IsLeading(f, addr) ==
  f = [n \in 0 .. AddrLen |-> IF n = 0 THEN 0 ELSE f[n - 1] * ByteSize + addr[n - 1]]
LeadingBytes(addr) == CHOOSE f : IsLeading(f, addr)

LEMMA LeadingBytesExist ==
  ASSUME NEW addr \in Address
  PROVE  \E f : IsLeading(f, addr)
<1> DEFINE Good(f, m) == \A n \in 0 .. m : f[n] = IF n = 0 THEN 0
                                                  ELSE f[n - 1] * ByteSize + addr[n - 1]
           S == {m \in Nat : \E f : Good(f, m)}
<1>1. 0 \in S
  <2>1. Good([n \in {0} |-> 0], 0)
    OBVIOUS
  <2> QED BY <2>1
<1>2. ASSUME NEW m \in Nat, m \in S
      PROVE  m + 1 \in S
  <2>1. PICK f : Good(f, m)
    BY <1>2
  <2> DEFINE g == [n \in 0 .. m + 1 |-> IF n <= m THEN f[n] ELSE f[m] * ByteSize + addr[m]]
  <2>2. ASSUME NEW n \in 0 .. m + 1
        PROVE  g[n] = IF n = 0 THEN 0 ELSE g[n - 1] * ByteSize + addr[n - 1]
    <3>1. CASE n <= m
      BY <2>1, <3>1
    <3>2. CASE n = m + 1
      <4>1. n # 0 /\ n - 1 = m /\ ~(n <= m) /\ m \in 0 .. m + 1
        BY <3>2
      <4> QED BY <4>1
    <3> QED BY <3>1, <3>2
  <2>3. Good(g, m + 1)
    <3> HIDE DEF g
    <3> QED BY <2>2
  <2>4. \E e : Good(e, m + 1)
    <3> HIDE DEF g, Good
    <3> QED BY <2>3
  <2>5. m + 1 \in Nat
    OBVIOUS
  <2> HIDE DEF Good
  <2> QED BY <2>4, <2>5
<1>3. AddrLen \in S
  <2>1. Nat \subseteq S
    <3> HIDE DEF S
    <3> QED BY <1>1, <1>2, SetInduction
  <2> QED BY <2>1, Shape
<1>4. PICK f : Good(f, AddrLen)
  BY <1>3
<1> DEFINE h == [n \in 0 .. AddrLen |-> f[n]]
<1>5. ASSUME NEW n \in 0 .. AddrLen
      PROVE  h[n] = IF n = 0 THEN 0 ELSE h[n - 1] * ByteSize + addr[n - 1]
  <2>1. n # 0 => n - 1 \in 0 .. AddrLen
    BY Shape
  <2> QED BY <1>4, <2>1
<1>6. IsLeading(h, addr)
  <2>1. h = [n \in 0 .. AddrLen |-> h[n]]
    OBVIOUS
  <2> HIDE DEF h
  <2> QED BY <1>5, <2>1 DEF IsLeading
<1> QED BY <1>6

LEMMA LeadingBytesAre ==
  ASSUME NEW addr \in Address
  PROVE  /\ Value(addr) = LeadingBytes(addr)[AddrLen]
         /\ LeadingBytes(addr)[0] = 0
         /\ \A n \in 0 .. AddrLen : LeadingBytes(addr)[n] \in Nat
         /\ \A n \in 0 .. AddrLen - 1 :
              /\ addr[n] \in 0 .. ByteSize - 1
              /\ LeadingBytes(addr)[n + 1] = ByteSize * LeadingBytes(addr)[n] + addr[n]
<1> DEFINE f == LeadingBytes(addr)
<1>1. IsLeading(f, addr)
  BY LeadingBytesExist DEF LeadingBytes
<1>2. Value(addr) = f[AddrLen]
  BY DEF Value, LeadingBytes, IsLeading
<1> HIDE DEF f
<1>3. f[0] = 0
  BY <1>1, Shape DEF IsLeading
<1>4. \A n \in 0 .. AddrLen - 1 : /\ f[n + 1] = f[n] * ByteSize + addr[n]
                                  /\ addr[n] \in 0 .. ByteSize - 1
  <2> TAKE n \in 0 .. AddrLen - 1
  <2>1. n + 1 \in 0 .. AddrLen /\ n + 1 # 0 /\ (n + 1) - 1 = n
    BY Shape
  <2>2. f[n + 1] = f[n] * ByteSize + addr[n]
    BY <1>1, <2>1 DEF IsLeading
  <2> QED BY <2>2 DEF Address, BytePos, Byte
<1> DEFINE S == {n \in Nat : n <= AddrLen => f[n] \in Nat}
<1>5. ASSUME NEW n \in Nat, n \in S
      PROVE  n + 1 \in S
  <2> SUFFICES ASSUME n + 1 <= AddrLen PROVE f[n + 1] \in Nat
    OBVIOUS
  <2>1. f[n] \in Nat /\ n \in 0 .. AddrLen - 1
    BY <1>5, Shape
  <2>2. addr[n] \in Nat /\ ByteSize \in Nat
    BY <1>4, <2>1, ByteIsPower
  <2>3. f[n] * ByteSize + addr[n] \in Nat
    BY <2>1, <2>2
  <2> QED BY <1>4, <2>1, <2>3
<1>6. Nat \subseteq S
  <2>1. 0 \in S
    BY <1>3
  <2> HIDE DEF S
  <2> QED BY <1>5, <2>1, SetInduction
<1>7. \A n \in 0 .. AddrLen : f[n] \in Nat
  BY <1>6, Shape
<1>8. \A n \in 0 .. AddrLen - 1 : f[n] * ByteSize = ByteSize * f[n]
  BY <1>7, Shape, ByteIsPower
<1> QED BY <1>2, <1>3, <1>4, <1>7, <1>8 DEF f

\* The weight of the last bit of the n-th byte.
Weight(n) == 2^(ByteBits * (AddrLen - n))

LEMMA Weights ==
  /\ Weight(AddrLen) = 1
  /\ \A n \in 0 .. AddrLen : /\ Weight(n) \in Nat \ {0}
                             /\ ByteBits * n \in 0 .. KeyBits
                             /\ ByteBits * (AddrLen - n) = KeyBits - ByteBits * n
  /\ \A n \in 0 .. AddrLen - 1 :
       /\ Weight(n) = ByteSize * Weight(n + 1)
       /\ \A r \in 0 .. ByteBits :
            /\ ByteBits * n + r \in 0 .. KeyBits
            /\ 2^(KeyBits - (ByteBits * n + r)) = 2^(ByteBits - r) * Weight(n + 1)
<1>1. ASSUME NEW n \in 0 .. AddrLen
      PROVE  /\ ByteBits * n \in 0 .. KeyBits
             /\ ByteBits * (AddrLen - n) = KeyBits - ByteBits * n
             /\ ByteBits * (AddrLen - n) \in 0 .. KeyBits
  <2>1. PICK e \in Nat : AddrLen = n + e
    <3>1. AddrLen - n \in Nat /\ AddrLen = n + (AddrLen - n)
      BY Shape
    <3> QED BY <3>1
  <2>2. KeyBits = ByteBits * n + ByteBits * e /\ AddrLen - n = e
    BY <2>1, Shape
  <2>3. ByteBits * n \in Nat /\ ByteBits * e \in Nat
    BY Shape
  <2> QED BY <2>2, <2>3
<1>2. Weight(AddrLen) = 1
  <2>1. ByteBits * (AddrLen - AddrLen) = 0
    BY Shape
  <2> QED BY <2>1, PowersOfTwo DEF Weight
<1>3. \A n \in 0 .. AddrLen : Weight(n) \in Nat \ {0}
  BY <1>1, PowerIsPositive DEF Weight
<1>4. ASSUME NEW n \in 0 .. AddrLen - 1, NEW r \in 0 .. ByteBits
      PROVE  /\ ByteBits * n + r \in 0 .. KeyBits
             /\ 2^(KeyBits - (ByteBits * n + r)) = 2^(ByteBits - r) * Weight(n + 1)
  <2> DEFINE a == ByteBits * n
             e == ByteBits * (AddrLen - (n + 1))
  <2>1. n \in 0 .. AddrLen /\ n + 1 \in 0 .. AddrLen
    BY Shape
  <2>2. a \in 0 .. KeyBits /\ e \in 0 .. KeyBits /\ e = KeyBits - ByteBits * (n + 1)
    BY <1>1, <2>1
  <2>3. ByteBits * (n + 1) = a + ByteBits
    BY Shape
  <2> HIDE DEF a, e
  <2>4. e = KeyBits - a - ByteBits
    BY <2>2, <2>3, Shape
  <2>5. a + r \in 0 .. KeyBits /\ ByteBits - r \in Nat /\ e \in Nat
    BY <2>2, <2>4, Shape
  <2>6. KeyBits - (a + r) = (ByteBits - r) + e /\ (ByteBits - r) + e <= KeyBits
    BY <2>2, <2>4, Shape
  <2>7. 2^(KeyBits - (a + r)) = 2^(ByteBits - r) * 2^e
    BY <2>5, <2>6, PowersAdd
  <2> QED BY <2>5, <2>7 DEF a, e, Weight
<1>5. ASSUME NEW n \in 0 .. AddrLen - 1
      PROVE  Weight(n) = ByteSize * Weight(n + 1)
  <2>1. n \in 0 .. AddrLen
    BY Shape
  <2>2. 0 \in 0 .. ByteBits /\ ByteBits - 0 = ByteBits
    BY Shape
  <2>3. 2^(KeyBits - (ByteBits * n + 0)) = 2^ByteBits * Weight(n + 1)
    BY <1>4, <2>2
  <2>4. ByteBits * n + 0 = ByteBits * n
    BY <1>1, <2>1
  <2> QED BY <1>1, <2>1, <2>3, <2>4 DEF Weight, ByteSize
<1> QED BY <1>1, <1>2, <1>3, <1>4, <1>5

\* The leading bytes are what remains when the others are divided away.
LEMMA LeadingIsQuotient ==
  ASSUME NEW addr \in Address, NEW n \in 0 .. AddrLen
  PROVE  LeadingBytes(addr)[n] = Value(addr) \div Weight(n)
<1> DEFINE f == LeadingBytes(addr)
           S == {k \in Nat : k <= AddrLen => f[AddrLen - k] = Value(addr) \div Weight(AddrLen - k)}
<1>1. /\ Value(addr) = f[AddrLen]
      /\ \A k \in 0 .. AddrLen : f[k] \in Nat
      /\ \A k \in 0 .. AddrLen - 1 : /\ addr[k] \in 0 .. ByteSize - 1
                                     /\ f[k + 1] = ByteSize * f[k] + addr[k]
  BY LeadingBytesAre
<1>2. AddrLen \in 0 .. AddrLen /\ Value(addr) \in Nat
  BY <1>1, Shape
<1> HIDE DEF f
<1>3. 0 \in S
  <2>1. \A x \in Nat : x \div 1 = x
    OBVIOUS
  <2>2. AddrLen - 0 = AddrLen
    BY Shape
  <2> QED BY <1>1, <1>2, <2>1, <2>2, Weights
<1>4. ASSUME NEW k \in Nat, k \in S
      PROVE  k + 1 \in S
  <2> DEFINE m == AddrLen - (k + 1)
  <2> SUFFICES ASSUME k + 1 <= AddrLen
               PROVE  f[m] = Value(addr) \div Weight(m)
    OBVIOUS
  <2>1. m \in 0 .. AddrLen - 1 /\ m + 1 = AddrLen - k /\ m \in 0 .. AddrLen /\ m + 1 \in 0 .. AddrLen
    BY Shape
  <2> HIDE DEF m
  <2>2. f[m + 1] = Value(addr) \div Weight(m + 1)
    BY <1>4, <2>1, Shape
  <2>3. /\ Weight(m + 1) \in Nat \ {0} /\ ByteSize \in Nat \ {0}
        /\ Weight(m) = ByteSize * Weight(m + 1)
    BY <2>1, Weights, ByteIsPower
  <2>4. Value(addr) \div Weight(m) = f[m + 1] \div ByteSize
    BY <1>2, <2>2, <2>3, DivideTwice
  <2>5. f[m + 1] = ByteSize * f[m] + addr[m] /\ addr[m] \in 0 .. ByteSize - 1 /\ f[m] \in Nat
    BY <1>1, <2>1
  <2>6. (ByteSize * f[m] + addr[m]) \div ByteSize = f[m] + (addr[m] \div ByteSize)
    <3> DEFINE q == f[m]
               x == addr[m]
    <3>1. q \in Nat /\ x \in Nat
      BY <2>5
    <3> HIDE DEF q, x
    <3>2. (ByteSize * q + x) \div ByteSize = q + (x \div ByteSize)
      BY <2>3, <3>1, DivisionOfSum
    <3> QED BY <3>2 DEF q, x
  <2>7. addr[m] \div ByteSize = 0
    <3>1. ByteSize * 0 <= addr[m] /\ addr[m] < ByteSize * 0 + ByteSize /\ addr[m] \in Int
      BY <2>3, <2>5
    <3> QED BY <2>3, <3>1, DivisionIs, DivisionIsUnique, SMTT(30)
  <2> QED BY <2>4, <2>5, <2>6, <2>7
<1>5. Nat \subseteq S
  <2> HIDE DEF S
  <2> QED BY <1>3, <1>4, SetInduction
<1>6. AddrLen - n \in S /\ AddrLen - n <= AddrLen /\ AddrLen - (AddrLen - n) = n
  <2>1. AddrLen - n \in Nat /\ AddrLen - n <= AddrLen /\ AddrLen - (AddrLen - n) = n
    BY Shape
  <2> HIDE DEF S
  <2> QED BY <1>5, <2>1
<1> QED BY <1>6 DEF f

\* The number the first n bits of an address make.
LeadingBits(addr, n) == Value(addr) \div 2^(KeyBits - n)

LEMMA LeadingBitsAre ==
  ASSUME NEW addr \in Address, NEW n \in 0 .. AddrLen - 1, NEW r \in 0 .. ByteBits
  PROVE  LeadingBits(addr, ByteBits * n + r) =
           2^r * LeadingBytes(addr)[n] + (addr[n] \div 2^(ByteBits - r))
<1> DEFINE f == LeadingBytes(addr)
           m == 2^(ByteBits - r)
           u == 2^r
<1>1. n \in 0 .. AddrLen /\ n + 1 \in 0 .. AddrLen
  BY Shape
<1>2. /\ f[n] \in Nat /\ addr[n] \in 0 .. ByteSize - 1
      /\ f[n + 1] = ByteSize * f[n] + addr[n]
      /\ Value(addr) \in Nat
  <2>1. AddrLen \in 0 .. AddrLen
    BY Shape
  <2> QED BY <1>1, <2>1, LeadingBytesAre
<1>3. m \in Nat \ {0} /\ u \in Nat \ {0} /\ ByteSize = m * u /\ ByteSize \in Nat
  BY ByteIsPower
<1>4. 2^(KeyBits - (ByteBits * n + r)) = m * Weight(n + 1) /\ Weight(n + 1) \in Nat \ {0}
  BY <1>1, Weights
<1> HIDE DEF m, u
<1>5. Value(addr) \div (m * Weight(n + 1)) = f[n + 1] \div m
  <2>1. f[n + 1] = Value(addr) \div Weight(n + 1)
    BY <1>1, LeadingIsQuotient
  <2> QED BY <1>2, <1>3, <1>4, <2>1, DivideTwice
<1> HIDE DEF f
<1>6. f[n + 1] = m * (u * f[n]) + addr[n]
  <2>1. \A x, y, z \in Nat : (x * y) * z = x * (y * z)
    OBVIOUS
  <2> QED BY <1>2, <1>3, <2>1
<1>7. u * f[n] \in Nat /\ addr[n] \in Nat
  BY <1>2, <1>3
<1>8. f[n + 1] \div m = u * f[n] + (addr[n] \div m)
  <2> DEFINE q == u * f[n]
             x == addr[n]
  <2>1. q \in Nat /\ x \in Nat /\ f[n + 1] = m * q + x
    BY <1>6, <1>7
  <2> HIDE DEF q, x
  <2>2. (m * q + x) \div m = q + (x \div m)
    BY <1>3, <2>1, DivisionOfSum
  <2> QED BY <2>1, <2>2 DEF q, x
<1> QED BY <1>4, <1>5, <1>8 DEF LeadingBits, f, m, u

----------------------------------------------------------------------------
(* Comparing addresses is comparing numbers.                               *)

LEMMA FullBytesAgree ==
  ASSUME NEW a \in Address, NEW c \in Address, NEW n \in 0 .. AddrLen
  PROVE  (\A k \in BytePos : k < n => a[k] = c[k]) <=> LeadingBytes(a)[n] = LeadingBytes(c)[n]
<1> DEFINE f == LeadingBytes(a)
           g == LeadingBytes(c)
           same(m) == \A k \in BytePos : k < m => a[k] = c[k]
           S == {m \in Nat : m <= AddrLen => (same(m) <=> f[m] = g[m])}
<1>1. /\ f[0] = 0 /\ g[0] = 0
      /\ \A k \in 0 .. AddrLen : f[k] \in Nat /\ g[k] \in Nat
      /\ \A k \in 0 .. AddrLen - 1 :
           /\ a[k] \in 0 .. ByteSize - 1 /\ c[k] \in 0 .. ByteSize - 1
           /\ f[k + 1] = ByteSize * f[k] + a[k] /\ g[k + 1] = ByteSize * g[k] + c[k]
  BY LeadingBytesAre
<1> HIDE DEF f, g
<1>2. 0 \in S
  BY <1>1, Shape DEF BytePos
<1>3. ASSUME NEW m \in Nat, m \in S
      PROVE  m + 1 \in S
  <2> SUFFICES ASSUME m + 1 <= AddrLen
               PROVE  same(m + 1) <=> f[m + 1] = g[m + 1]
    OBVIOUS
  <2>1. m \in 0 .. AddrLen - 1 /\ m \in 0 .. AddrLen /\ m \in BytePos
    BY Shape DEF BytePos
  <2>2. same(m) <=> f[m] = g[m]
    BY <1>3, <2>1
  <2>3. same(m + 1) <=> same(m) /\ a[m] = c[m]
    BY <2>1 DEF BytePos
  <2>4. f[m + 1] = g[m + 1] <=> f[m] = g[m] /\ a[m] = c[m]
    <3> DEFINE q == f[m]
               s == g[m]
               x == a[m]
               y == c[m]
    <3>1. /\ q \in Int /\ s \in Int
          /\ x \in 0 .. ByteSize - 1 /\ y \in 0 .. ByteSize - 1
          /\ f[m + 1] = ByteSize * q + x /\ g[m + 1] = ByteSize * s + y
      BY <1>1, <2>1
    <3> HIDE DEF q, s, x, y
    <3>2. ByteSize * q + x = ByteSize * s + y <=> q = s /\ x = y
      BY <3>1, ByteIsPower, DigitsAreUnique
    <3> QED BY <3>1, <3>2 DEF q, s, x, y
  <2> HIDE DEF same
  <2> QED BY <2>2, <2>3, <2>4
<1>4. Nat \subseteq S
  <2> HIDE DEF S
  <2> QED BY <1>2, <1>3, SetInduction
<1>5. n \in S
  <2> HIDE DEF S
  <2> QED BY <1>4
<1> QED BY <1>5 DEF f, g

\* Masking a byte keeps the quotient by the weight of its last kept bit.
LEMMA KeepTopIsQuotient ==
  ASSUME NEW x \in 0 .. ByteSize - 1, NEW r \in 0 .. ByteBits
  PROVE  /\ KeepTop(x, r) = 2^(ByteBits - r) * (x \div 2^(ByteBits - r))
         /\ x \div 2^(ByteBits - r) \in 0 .. 2^r - 1
<1> DEFINE m == 2^(ByteBits - r)
           u == 2^r
           q == x \div m
<1>1. m \in Nat \ {0} /\ u \in Nat \ {0} /\ ByteSize = m * u /\ ByteSize \in Nat
  BY ByteIsPower
<1> HIDE DEF m, u
<1>2. q \in Int /\ m * q <= x /\ x < m * q + m /\ m * q \in Int /\ x \in Nat
  BY <1>1, DivisionIs
<1>3. x - (x % m) = m * q
  BY <1>1, <1>2
<1> HIDE DEF q
<1>4. 0 <= q
  <2> SUFFICES ASSUME q < 0 PROVE FALSE
    BY <1>2
  <2>1. PICK e \in Nat : q = -1 - e
    <3>1. -1 - q \in Nat /\ q = -1 - (-1 - q)
      BY <1>2
    <3> QED BY <3>1
  <2>2. m * q = -m - m * e /\ m * e \in Nat
    BY <1>1, <2>1
  <2> QED BY <1>1, <1>2, <2>2
<1>5. q < u
  <2> SUFFICES ASSUME u <= q PROVE FALSE
    BY <1>1, <1>2
  <2>1. PICK e \in Nat : q = u + e
    <3>1. q - u \in Nat /\ q = u + (q - u)
      BY <1>1, <1>2
    <3> QED BY <3>1
  <2>2. m * q = m * u + m * e /\ m * e \in Nat
    BY <1>1, <2>1
  <2> QED BY <1>1, <1>2, <2>2
<1> QED BY <1>1, <1>2, <1>3, <1>4, <1>5 DEF KeepTop, m, u, q

\* A prefix length counts full bytes and the bits of a partial one.
LEMMA LengthInBytes ==
  ASSUME NEW n \in 0 .. KeyBits
  PROVE  /\ n = ByteBits * (n \div ByteBits) + (n % ByteBits)
         /\ n % ByteBits \in 0 .. ByteBits - 1
         /\ n \div ByteBits \in 0 .. AddrLen
         /\ n \div ByteBits = AddrLen => n % ByteBits = 0 /\ n = KeyBits
<1> DEFINE q == n \div ByteBits
           r == n % ByteBits
<1>1. ByteBits \in Nat \ {0} /\ AddrLen \in Nat \ {0} /\ KeyBits = ByteBits * AddrLen /\ n \in Nat
  BY Shape
<1>2. q \in Nat /\ r \in 0 .. ByteBits - 1 /\ n = ByteBits * q + r
  BY <1>1
<1> HIDE DEF q, r
<1>3. ByteBits * q \in Nat /\ ByteBits * AddrLen \in Nat
  BY <1>1, <1>2
<1>4. q <= AddrLen
  <2> SUFFICES ASSUME AddrLen < q PROVE FALSE
    BY <1>1, <1>2
  <2>1. PICK e \in Nat : q = AddrLen + 1 + e
    <3>1. q - AddrLen - 1 \in Nat /\ q = AddrLen + 1 + (q - AddrLen - 1)
      BY <1>1, <1>2
    <3> QED BY <3>1
  <2>2. ByteBits * q = KeyBits + ByteBits + ByteBits * e /\ ByteBits * e \in Nat
    BY <1>1, <2>1
  <2> QED BY <1>1, <1>2, <1>3, <2>2
<1> QED BY <1>1, <1>2, <1>3, <1>4 DEF q, r

\* The compare loops of the library, memcmp and a masked byte, decide whether
\* the leading bits of two addresses are the same number.
LEMMA AgreeIsEqualBits ==
  ASSUME NEW a \in Address, NEW c \in Address, NEW n \in 0 .. KeyBits
  PROVE  AgreeOnTop(a, c, n) <=> LeadingBits(a, n) = LeadingBits(c, n)
<1> DEFINE full == n \div ByteBits
           rem == n % ByteBits
           m == 2^(ByteBits - rem)
           u == 2^rem
<1>1. /\ n = ByteBits * full + rem /\ rem \in 0 .. ByteBits - 1 /\ full \in 0 .. AddrLen
      /\ full = AddrLen => rem = 0 /\ n = KeyBits
  BY LengthInBytes
<1>2. AgreeOnTop(a, c, n) <=> /\ \A k \in BytePos : k < full => a[k] = c[k]
                              /\ rem > 0 => KeepTop(a[full], rem) = KeepTop(c[full], rem)
  BY DEF AgreeOnTop
<1> HIDE DEF full, rem
<1>3. (\A k \in BytePos : k < full => a[k] = c[k])
        <=> LeadingBytes(a)[full] = LeadingBytes(c)[full]
  BY <1>1, FullBytesAgree
<1>4. CASE full = AddrLen
  <2>1. 2^(KeyBits - n) = 1
    <3>1. KeyBits - n = 0
      <4>1. n = KeyBits
        BY <1>1, <1>4
      <4>2. KeyBits \in Nat
        BY Shape
      <4> QED BY <4>1, <4>2
    <3> QED BY <3>1, PowersOfTwo
  <2>2. \A x \in Address : LeadingBits(x, n) = LeadingBytes(x)[full]
    <3> TAKE x \in Address
    <3>1. Value(x) \in Nat /\ Value(x) = LeadingBytes(x)[full]
      BY <1>1, <1>4, LeadingBytesAre
    <3>2. Value(x) \div 1 = Value(x)
      BY <3>1
    <3> QED BY <2>1, <3>1, <3>2 DEF LeadingBits
  <2> QED BY <1>1, <1>2, <1>3, <1>4, <2>2
<1>5. CASE full # AddrLen
  <2>1. full \in 0 .. AddrLen - 1 /\ rem \in 0 .. ByteBits /\ full \in BytePos
    BY <1>1, <1>5, Shape DEF BytePos
  <2>2. \A x \in Address : /\ LeadingBytes(x)[full] \in Int
                           /\ x[full] \in 0 .. ByteSize - 1
                           /\ x[full] \div m \in 0 .. u - 1
                           /\ KeepTop(x[full], rem) = m * (x[full] \div m)
                           /\ LeadingBits(x, n) = u * LeadingBytes(x)[full] + (x[full] \div m)
    <3> TAKE x \in Address
    <3>1. LeadingBytes(x)[full] \in Int /\ x[full] \in 0 .. ByteSize - 1
      BY <1>1, <2>1, LeadingBytesAre
    <3>2. /\ x[full] \div m \in 0 .. u - 1
          /\ KeepTop(x[full], rem) = m * (x[full] \div m)
      BY <2>1, <3>1, KeepTopIsQuotient
    <3>3. LeadingBits(x, n) = u * LeadingBytes(x)[full] + (x[full] \div m)
      <4>1. LeadingBits(x, ByteBits * full + rem) = u * LeadingBytes(x)[full] + (x[full] \div m)
        BY <2>1, LeadingBitsAre
      <4> QED BY <1>1, <4>1
    <3> QED BY <3>1, <3>2, <3>3
  <2>3. m \in Nat \ {0} /\ u \in Nat \ {0}
    BY <2>1, ByteIsPower
  <2>4. rem = 0 => u = 1
    BY PowersOfTwo
  <2> DEFINE q == LeadingBytes(a)[full]
             s == LeadingBytes(c)[full]
             x == a[full] \div m
             y == c[full] \div m
  <2>5. /\ q \in Int /\ s \in Int /\ x \in 0 .. u - 1 /\ y \in 0 .. u - 1
        /\ LeadingBits(a, n) = u * q + x /\ LeadingBits(c, n) = u * s + y
        /\ KeepTop(a[full], rem) = m * x /\ KeepTop(c[full], rem) = m * y
        /\ (\A k \in BytePos : k < full => a[k] = c[k]) <=> q = s
    BY <1>3, <2>2
  <2> HIDE DEF q, s, x, y, m, u
  <2>6. u * q + x = u * s + y <=> q = s /\ x = y
    BY <2>3, <2>5, DigitsAreUnique
  <2>7. m * x = m * y <=> x = y
    <3>1. 0 \in 0 .. m - 1 /\ x \in Int /\ y \in Int
      BY <2>3, <2>5
    <3>2. m * x + 0 = m * y + 0 <=> x = y /\ 0 = 0
      BY <2>3, <3>1, DigitsAreUnique
    <3>3. m * x \in Int /\ m * y \in Int
      BY <2>3, <3>1
    <3> QED BY <3>2, <3>3
  <2>8. ~(rem > 0) => x = y
    BY <1>1, <2>4, <2>5
  <2> QED BY <1>2, <2>5, <2>6, <2>7, <2>8
<1> QED BY <1>4, <1>5

\* bulk_prefix_contains and trie_prefix_matches decide membership in the
\* interval of the prefix.
LEMMA MatchIsMembership ==
  ASSUME NEW p, p.addr \in Address, p.pfxlen \in Pfxlen, NEW a \in Address
  PROVE  PrefixMatches(p, a) <=> Value(a) \in Span(p)
<1> DEFINE m == 2^(KeyBits - p.pfxlen)
           q == Value(p.addr) \div m
           n == Value(a)
<1>1. p.pfxlen \in 0 .. KeyBits /\ KeyBits - p.pfxlen \in 0 .. KeyBits
  BY Shape DEF Pfxlen, MaxPfxlen
<1>2. m \in Nat \ {0}
  BY <1>1, PowerIsPositive
<1>3. PrefixMatches(p, a) <=> q = n \div m
  BY <1>1, AgreeIsEqualBits DEF PrefixMatches, LeadingBits
<1>4. Span(p) = q * m .. q * m + m - 1
  BY DEF Span
<1>5. n \in Nat /\ Value(p.addr) \in Nat
  <2>1. AddrLen \in 0 .. AddrLen
    BY Shape
  <2> QED BY <2>1, LeadingBytesAre
<1> HIDE DEF m, n
<1>6. q \in Int
  BY <1>2, <1>5, DivisionIs
<1> HIDE DEF q
<1>7. q * m = m * q /\ q * m \in Int
  BY <1>2, <1>6
<1>8. n \div m \in Int /\ m * (n \div m) <= n /\ n < m * (n \div m) + m
  BY <1>2, <1>5, DivisionIs
<1>9. q = n \div m <=> m * q <= n /\ n < m * q + m
  <2>1. ASSUME m * q <= n, n < m * q + m PROVE q = n \div m
    BY <1>2, <1>5, <1>6, <1>8, <2>1, DivisionIsUnique
  <2> QED BY <1>8, <2>1
<1> QED BY <1>2, <1>3, <1>4, <1>5, <1>7, <1>9 DEF n

----------------------------------------------------------------------------
(* Blocks: the intervals of 2^(KeyBits - n) addresses, by their number.    *)

Size(n) == 2^(KeyBits - n)
BlockOf(v, n) == v \div Size(n)

LEMMA Sizes ==
  ASSUME NEW n \in Pfxlen
  PROVE  /\ n \in 0 .. KeyBits /\ KeyBits - n \in 0 .. KeyBits
         /\ Size(n) \in Nat \ {0}
         /\ \A v \in Int : /\ BlockOf(v, n) \in Int
                           /\ Size(n) * BlockOf(v, n) <= v
                           /\ v < Size(n) * BlockOf(v, n) + Size(n)
<1>1. n \in 0 .. KeyBits /\ KeyBits - n \in 0 .. KeyBits
  BY Shape DEF Pfxlen, MaxPfxlen
<1>2. Size(n) \in Nat \ {0}
  BY <1>1, PowerIsPositive DEF Size
<1> QED BY <1>1, <1>2, DivisionIs DEF BlockOf

\* A longer prefix length makes smaller blocks, and each is in one larger one.
LEMMA SizeOfShorter ==
  ASSUME NEW k \in Pfxlen, NEW n \in Pfxlen, k <= n
  PROVE  /\ 2^(n - k) \in Nat \ {0}
         /\ Size(k) = 2^(n - k) * Size(n)
<1>1. /\ k \in 0 .. KeyBits /\ n \in 0 .. KeyBits /\ KeyBits \in Nat
  BY Shape DEF Pfxlen, MaxPfxlen
<1>2. /\ n - k \in 0 .. KeyBits /\ KeyBits - n \in 0 .. KeyBits
      /\ n - k \in Nat /\ KeyBits - n \in Nat
      /\ (n - k) + (KeyBits - n) = KeyBits - k /\ KeyBits - k <= KeyBits
  BY <1>1
<1>3. 2^((n - k) + (KeyBits - n)) = 2^(n - k) * 2^(KeyBits - n)
  BY <1>2, PowersAdd
<1> QED BY <1>2, <1>3, PowerIsPositive DEF Size

LEMMA SizeDescends ==
  ASSUME NEW k \in Pfxlen, NEW n \in Pfxlen, k < n
  PROVE  Size(n) < Size(k)
<1> DEFINE d == n - k - 1
           m == Size(n)
           s == 2^d
<1>1. /\ k \in 0 .. KeyBits /\ n \in 0 .. KeyBits /\ KeyBits \in Nat
  BY Shape DEF Pfxlen, MaxPfxlen
<1>2. d \in 0 .. KeyBits /\ n - k = d + 1
  BY <1>1
<1>3. s \in Nat \ {0} /\ 2^(n - k) = 2 * s
  BY <1>2, PowersOfTwo
<1>4. m \in Nat \ {0} /\ Size(k) = (2 * s) * m
  <2>1. k <= n
    BY <1>1
  <2>2. Size(k) = 2^(n - k) * m
    BY <2>1, SizeOfShorter
  <2> QED BY <1>3, <2>2, Sizes
<1> HIDE DEF s, m
<1>5. m < (2 * s) * m
  <2>1. PICK e \in Nat : s = 1 + e
    <3>1. s - 1 \in Nat /\ s = 1 + (s - 1)
      BY <1>3
    <3> QED BY <3>1
  <2>2. (2 * s) * m = m + m + 2 * (e * m) /\ e * m \in Nat
    BY <1>4, <2>1
  <2> QED BY <1>4, <2>2
<1> QED BY <1>4, <1>5 DEF m

LEMMA Coarser ==
  ASSUME NEW k \in Pfxlen, NEW n \in Pfxlen, k <= n, NEW v \in Nat
  PROVE  BlockOf(v, k) = BlockOf(v, n) \div 2^(n - k)
<1>1. Size(n) \in Nat \ {0}
  BY Sizes
<1>2. 2^(n - k) \in Nat \ {0} /\ Size(k) = 2^(n - k) * Size(n)
  BY SizeOfShorter
<1> QED BY <1>1, <1>2, DivideTwice DEF BlockOf

\* A prefix as its numbers: the part of Prefix that needs no clear host bits.
IsEntry(p) == p.addr \in Address /\ p.pfxlen \in Pfxlen

LEMMA ValueIsNat ==
  ASSUME NEW a \in Address
  PROVE  Value(a) \in Nat
<1>1. AddrLen \in 0 .. AddrLen
  BY Shape
<1> QED BY <1>1, LeadingBytesAre

\* The numbers of a span are those of one block.
LEMMA InSpan ==
  ASSUME NEW p, IsEntry(p)
  PROVE  /\ Span(p) \subseteq Nat
         /\ \A v \in Int : v \in Span(p) <=> BlockOf(v, p.pfxlen) = BlockOf(Value(p.addr), p.pfxlen)
         /\ Value(p.addr) \in Span(p)
<1> DEFINE m == Size(p.pfxlen)
           n == Value(p.addr)
           q == BlockOf(n, p.pfxlen)
<1>1. n \in Nat /\ m \in Nat \ {0} /\ q \in Int /\ m * q <= n /\ n < m * q + m
  BY ValueIsNat, Sizes DEF IsEntry
<1>2. Span(p) = q * m .. q * m + m - 1
  BY DEF Span, BlockOf, Size
<1>3. \A v \in Int : /\ BlockOf(v, p.pfxlen) \in Int
                     /\ m * BlockOf(v, p.pfxlen) <= v
                     /\ v < m * BlockOf(v, p.pfxlen) + m
  BY Sizes DEF IsEntry
<1> HIDE DEF m, n, q
<1>4. q * m = m * q /\ m * q \in Int
  BY <1>1
<1>5. q \in Nat
  <2> SUFFICES ASSUME q < 0 PROVE FALSE
    BY <1>1
  <2>1. PICK e \in Nat : q = -1 - e
    <3>1. -1 - q \in Nat /\ q = -1 - (-1 - q)
      BY <1>1
    <3> QED BY <3>1
  <2>2. m * q = -m - m * e /\ m * e \in Nat
    BY <1>1, <2>1
  <2> QED BY <1>1, <2>2
<1>6. m * q \in Nat
  BY <1>1, <1>5
<1>7. ASSUME NEW v \in Int
      PROVE  v \in Span(p) <=> BlockOf(v, p.pfxlen) = q
  <2>1. v \in Span(p) <=> m * q <= v /\ v < m * q + m
    BY <1>1, <1>2, <1>4
  <2>2. ASSUME m * q <= v, v < m * q + m PROVE BlockOf(v, p.pfxlen) = q
    <3> DEFINE s == BlockOf(v, p.pfxlen)
    <3>1. s \in Int /\ m * s <= v /\ v < m * s + m
      BY <1>3
    <3> HIDE DEF s
    <3>2. q = s
      BY <1>1, <2>2, <3>1, DivisionIsUnique
    <3> QED BY <3>2 DEF s
  <2> QED BY <1>3, <2>1, <2>2
<1>8. Span(p) \subseteq Nat
  BY <1>1, <1>2, <1>4, <1>6
<1>9. n \in Span(p)
  BY <1>1, <1>2, <1>4
<1> QED BY <1>7, <1>8, <1>9 DEF n, q

\* Two prefixes that share an address are nested, the longer in the shorter.
LEMMA SpansNest ==
  ASSUME NEW p, NEW q, IsEntry(p), IsEntry(q), p.pfxlen <= q.pfxlen,
         NEW v, v \in Span(p), v \in Span(q)
  PROVE  Span(q) \subseteq Span(p)
<1> DEFINE k == p.pfxlen
           n == q.pfxlen
<1>1. k \in Pfxlen /\ n \in Pfxlen /\ v \in Nat
  BY InSpan DEF IsEntry
<1>2. SUFFICES ASSUME NEW w \in Span(q) PROVE w \in Span(p)
  OBVIOUS
<1>3. w \in Nat
  BY InSpan
<1>4. BlockOf(w, n) = BlockOf(v, n)
  BY <1>1, <1>3, InSpan
<1>5. BlockOf(w, k) = BlockOf(v, k)
  BY <1>1, <1>3, <1>4, Coarser
<1> QED BY <1>1, <1>3, <1>5, InSpan

----------------------------------------------------------------------------
(* The order of addresses, and what masking does to their numbers.         *)

LEMMA ValueInSpace ==
  ASSUME NEW a \in Address
  PROVE  /\ Value(a) \in 0 .. 2^KeyBits - 1
         /\ 2^KeyBits \in Nat \ {0}
<1>1. 0 \in 0 .. AddrLen /\ 0 \in 0 .. KeyBits /\ KeyBits - 0 = KeyBits /\ KeyBits \in 0 .. KeyBits
  BY Shape
<1>2. Weight(0) = 2^KeyBits /\ Weight(0) \in Nat \ {0}
  <2>1. ByteBits * (AddrLen - 0) = KeyBits
    BY Shape
  <2> QED BY <1>1, <2>1, Weights DEF Weight
<1>3. Value(a) \div Weight(0) = 0
  BY <1>1, LeadingIsQuotient, LeadingBytesAre
<1>4. Value(a) < Weight(0) * 0 + Weight(0)
  <2> DEFINE w == Weight(0)
             v == Value(a)
  <2>1. w \in Nat \ {0} /\ v \in Int /\ v \div w = 0
    BY <1>2, <1>3, ValueIsNat
  <2> HIDE DEF w, v
  <2>2. v < w * (v \div w) + w
    BY <2>1, DivisionIs
  <2> QED BY <2>1, <2>2 DEF w, v
<1> QED BY <1>2, <1>4, ValueIsNat

LEMMA ValueIsInjective ==
  ASSUME NEW a \in Address, NEW c \in Address, Value(a) = Value(c)
  PROVE  a = c
<1>1. AddrLen \in 0 .. AddrLen /\ \A k \in BytePos : k < AddrLen
  BY Shape DEF BytePos
<1>2. LeadingBytes(a)[AddrLen] = LeadingBytes(c)[AddrLen]
  BY LeadingBytesAre
<1>3. \A k \in BytePos : a[k] = c[k]
  BY <1>1, <1>2, FullBytesAgree
<1> QED BY <1>3 DEF Address

\* memcmp of network order compares the numbers.
LEMMA LessIsLess ==
  ASSUME NEW a \in Address, NEW c \in Address
  PROVE  AddrLess(a, c) <=> Value(a) < Value(c)
<1>1. ASSUME NEW x \in Address, NEW y \in Address, AddrLess(x, y)
      PROVE  Value(x) < Value(y)
  <2>1. PICK k \in BytePos : x[k] < y[k] /\ \A j \in BytePos : j < k => x[j] = y[j]
    BY <1>1 DEF AddrLess
  <2>2. k \in 0 .. AddrLen - 1 /\ k \in 0 .. AddrLen /\ k + 1 \in 0 .. AddrLen
    BY Shape DEF BytePos
  <2>3. LeadingBytes(x)[k] = LeadingBytes(y)[k]
    BY <2>1, <2>2, FullBytesAgree
  <2>4. /\ LeadingBytes(x)[k + 1] = ByteSize * LeadingBytes(x)[k] + x[k]
        /\ LeadingBytes(y)[k + 1] = ByteSize * LeadingBytes(y)[k] + y[k]
        /\ LeadingBytes(x)[k] \in Nat /\ LeadingBytes(y)[k] \in Nat
        /\ x[k] \in 0 .. ByteSize - 1 /\ y[k] \in 0 .. ByteSize - 1
    BY <2>2, LeadingBytesAre
  <2>5. ByteSize * LeadingBytes(x)[k] \in Nat
    BY <2>4, ByteIsPower
  <2>6. LeadingBytes(x)[k + 1] < LeadingBytes(y)[k + 1]
    BY <2>1, <2>3, <2>4, <2>5, ByteIsPower
  <2>7. /\ LeadingBytes(x)[k + 1] = Value(x) \div Weight(k + 1)
        /\ LeadingBytes(y)[k + 1] = Value(y) \div Weight(k + 1)
        /\ Weight(k + 1) \in Nat \ {0}
    BY <2>2, LeadingIsQuotient, Weights
  <2>8. Value(x) \in Nat /\ Value(y) \in Nat
    BY ValueIsNat
  <2>9. ASSUME Value(y) <= Value(x) PROVE FALSE
    <3>1. Value(y) \div Weight(k + 1) <= Value(x) \div Weight(k + 1)
      BY <2>7, <2>8, <2>9, DivisionAscends
    <3>2. LeadingBytes(y)[k + 1] \in Nat /\ LeadingBytes(x)[k + 1] \in Nat
      BY <2>2, LeadingBytesAre
    <3> QED BY <2>6, <2>7, <3>1, <3>2
  <2> QED BY <2>8, <2>9
<1>2. ASSUME Value(a) < Value(c) PROVE AddrLess(a, c)
  <2> DEFINE T == {k \in BytePos : a[k] # c[k]}
  <2>1. Value(a) \in Nat /\ Value(c) \in Nat
    BY ValueIsNat
  <2>2. T # {}
    <3>1. a # c
      BY <1>2, <2>1
    <3> QED BY <3>1 DEF Address
  <2>3. T \subseteq Nat
    BY Shape DEF BytePos
  <2>4. PICK k \in T : \A j \in T : k <= j
    BY <2>2, <2>3, LeastElement
  <2>5. k \in BytePos /\ a[k] \in Int /\ c[k] \in Int /\ a[k] # c[k]
    <3>1. \A x \in Byte : x \in Int
      BY ByteIsPower DEF Byte
    <3> QED BY <3>1 DEF Address
  <2>6. \A j \in BytePos : j < k => a[j] = c[j]
    BY <2>4, Shape DEF BytePos
  <2>7. CASE a[k] < c[k]
    BY <2>5, <2>6, <2>7 DEF AddrLess
  <2>8. CASE c[k] < a[k]
    <3>1. AddrLess(c, a)
      BY <2>5, <2>6, <2>8 DEF AddrLess
    <3>2. Value(c) < Value(a)
      BY <1>1, <3>1
    <3> QED BY <1>2, <2>1, <3>2
  <2> QED BY <2>5, <2>7, <2>8
<1> QED BY <1>1, <1>2

\* The number of an address whose bytes from j on are all zero, or all ones.
LEMMA TailsEqual ==
  ASSUME NEW c \in Address, NEW j \in 0 .. AddrLen, NEW e \in 0 .. 1,
         \A k \in BytePos : j <= k => c[k] = e * (ByteSize - 1)
  PROVE  Value(c) + e = Weight(j) * (LeadingBytes(c)[j] + e)
<1> DEFINE f == LeadingBytes(c)
           S == {k \in Nat : j + k <= AddrLen =>
                   Weight(j + k) * (f[j + k] + e) = Weight(j) * (f[j] + e)}
<1>1. /\ Value(c) = f[AddrLen]
      /\ \A k \in 0 .. AddrLen : f[k] \in Nat
      /\ \A k \in 0 .. AddrLen - 1 : f[k + 1] = ByteSize * f[k] + c[k]
  BY LeadingBytesAre
<1> HIDE DEF f
<1>2. 0 \in S
  <2>1. j + 0 = j
    OBVIOUS
  <2> QED BY <2>1
<1>3. ASSUME NEW k \in Nat, k \in S
      PROVE  k + 1 \in S
  <2> DEFINE i == j + k
  <2> SUFFICES ASSUME i + 1 <= AddrLen
               PROVE  Weight(i + 1) * (f[i + 1] + e) = Weight(j) * (f[j] + e)
    <3>1. j + (k + 1) = i + 1
      OBVIOUS
    <3> QED BY <3>1
  <2>1. /\ i \in 0 .. AddrLen - 1 /\ i \in 0 .. AddrLen /\ i + 1 \in 0 .. AddrLen
        /\ i \in BytePos /\ j <= i
    BY Shape DEF BytePos
  <2>2. Weight(i) * (f[i] + e) = Weight(j) * (f[j] + e)
    BY <1>3, <2>1
  <2> HIDE DEF i
  <2>3. f[i + 1] + e = ByteSize * (f[i] + e)
    <3> DEFINE x == f[i]
               b == ByteSize
    <3>1. f[i + 1] = b * x + e * (b - 1) /\ x \in Nat /\ b \in Nat \ {0}
      BY <1>1, <2>1, ByteIsPower
    <3> HIDE DEF x, b
    <3>2. e = 0 \/ e = 1
      OBVIOUS
    <3>3. b * (x + 1) = b * x + b /\ b * (x + 0) = b * x /\ b * x \in Nat
      BY <3>1
    <3>4. 0 * (b - 1) = 0 /\ 1 * (b - 1) = b - 1
      BY <3>1
    <3>5. CASE e = 0
      BY <3>1, <3>3, <3>4, <3>5 DEF x, b
    <3>6. CASE e = 1
      BY <3>1, <3>3, <3>4, <3>6 DEF x, b
    <3> QED BY <3>2, <3>5, <3>6
  <2>4. Weight(i) = ByteSize * Weight(i + 1) /\ Weight(i + 1) \in Nat
    BY <2>1, Weights
  <2>5. \A x, y, z \in Nat : x * (y * z) = (y * x) * z
    OBVIOUS
  <2>6. f[i] + e \in Nat /\ ByteSize \in Nat
    BY <1>1, <2>1, ByteIsPower
  <2> QED BY <2>2, <2>3, <2>4, <2>5, <2>6
<1>4. AddrLen - j \in Nat /\ j + (AddrLen - j) = AddrLen
  BY Shape
<1>5. AddrLen - j \in S
  <2>1. Nat \subseteq S
    <3> HIDE DEF S
    <3> QED BY <1>2, <1>3, SetInduction
  <2> HIDE DEF S
  <2> QED BY <1>4, <2>1
<1>6. Weight(AddrLen) * (f[AddrLen] + e) = Weight(j) * (f[j] + e)
  <2>1. AddrLen <= AddrLen
    BY Shape
  <2> QED BY <1>4, <1>5, <2>1
<1>7. Weight(AddrLen) = 1 /\ f[AddrLen] + e \in Nat
  <2>1. AddrLen \in 0 .. AddrLen
    BY Shape
  <2> QED BY <1>1, <2>1, Weights
<1>8. \A x \in Nat : 1 * x = x
  OBVIOUS
<1> QED BY <1>1, <1>6, <1>7, <1>8 DEF f

\* The first and the last address of a block: those whose bytes behind the
\* prefix are all zero (e = 0) or all ones (e = 1).
EndByte(a, n, e, k) ==
  IF k < n \div ByteBits THEN a[k]
  ELSE IF k = n \div ByteBits
       THEN KeepTop(a[k], n % ByteBits) + e * (2^(ByteBits - (n % ByteBits)) - 1)
  ELSE e * (ByteSize - 1)

LEMMA EndOfBlock ==
  ASSUME NEW a \in Address, NEW c \in Address, NEW n \in Pfxlen, NEW e \in 0 .. 1,
         \A k \in BytePos : c[k] = EndByte(a, n, e, k)
  PROVE  /\ Value(c) + e = Size(n) * (BlockOf(Value(a), n) + e)
         /\ BlockOf(Value(c), n) = BlockOf(Value(a), n)
<1> DEFINE full == n \div ByteBits
           rem == n % ByteBits
           m == 2^(ByteBits - rem)
           u == 2^rem
           b == BlockOf(Value(a), n)
<1>1. /\ n \in 0 .. KeyBits
      /\ n = ByteBits * full + rem /\ rem \in 0 .. ByteBits - 1 /\ full \in 0 .. AddrLen
      /\ full = AddrLen => rem = 0 /\ n = KeyBits
  BY LengthInBytes, Shape DEF Pfxlen, MaxPfxlen
<1>2. /\ \A k \in BytePos : k < full => c[k] = a[k]
      /\ \A k \in BytePos : k = full => c[k] = KeepTop(a[k], rem) + e * (m - 1)
      /\ \A k \in BytePos : full + 1 <= k => c[k] = e * (ByteSize - 1)
  BY <1>1, Shape DEF EndByte, BytePos
<1>3. Value(a) \in Nat /\ Value(c) \in Nat /\ Size(n) \in Nat \ {0} /\ b \in Int
  BY ValueIsNat, Sizes
<1> HIDE DEF full, rem
<1>4. Value(c) + e = Size(n) * (b + e)
  <2>1. CASE full = AddrLen
    <3>1. KeyBits - n = 0
      <4>1. n = KeyBits /\ KeyBits \in Nat
        BY <1>1, <2>1, Shape
      <4> QED BY <4>1
    <3>2. Size(n) = 1
      BY <3>1, PowersOfTwo DEF Size
    <3>3. c = a
      BY <1>2, <2>1, Shape DEF Address, BytePos
    <3>4. \A x \in Nat : x \div 1 = x /\ 1 * x = x
      OBVIOUS
    <3> QED BY <1>3, <3>2, <3>3, <3>4 DEF BlockOf
  <2>2. CASE full # AddrLen
    <3> DEFINE l == LeadingBytes(a)[full]
               q == a[full] \div m
               w == Weight(full + 1)
    <3>1. /\ full \in 0 .. AddrLen - 1 /\ full \in 0 .. AddrLen /\ full + 1 \in 0 .. AddrLen
          /\ full \in BytePos /\ rem \in 0 .. ByteBits
      BY <1>1, <2>2, Shape DEF BytePos
    <3>2. LeadingBytes(c)[full] = l /\ l \in Nat
      BY <1>2, <3>1, FullBytesAgree, LeadingBytesAre
    <3>3. /\ m \in Nat \ {0} /\ u \in Nat \ {0} /\ ByteSize = m * u
          /\ a[full] \in 0 .. ByteSize - 1
          /\ KeepTop(a[full], rem) = m * q /\ q \in Nat
      <4>1. a[full] \in 0 .. ByteSize - 1
        BY <3>1 DEF Address, Byte
      <4>2. u \in Int
        BY <3>1, ByteIsPower
      <4> QED BY <3>1, <4>1, <4>2, KeepTopIsQuotient, ByteIsPower
    <3>4. b = u * l + q
      <4>1. LeadingBits(a, ByteBits * full + rem) = u * l + q
        BY <3>1, LeadingBitsAre
      <4> QED BY <1>1, <4>1 DEF LeadingBits, BlockOf, Size
    <3>5. LeadingBytes(c)[full + 1] = ByteSize * l + (m * q + e * (m - 1))
      BY <1>2, <3>1, <3>2, <3>3, LeadingBytesAre
    <3>6. Value(c) + e = w * (LeadingBytes(c)[full + 1] + e)
      BY <1>2, <3>1, TailsEqual
    <3>7. Size(n) = m * w /\ w \in Nat
      <4>1. 2^(KeyBits - (ByteBits * full + rem)) = m * w
        BY <3>1, Weights
      <4> QED BY <1>1, <3>1, <4>1, Weights DEF Size
    <3> HIDE DEF l, q, w, m, u, b
    <3>8. LeadingBytes(c)[full + 1] + e = m * (b + e)
      <4>1. /\ (m * u) * l = m * (u * l)
            /\ m * ((u * l + q) + e) = m * (u * l) + m * q + m * e
            /\ e * (m - 1) = m * e - e
            /\ m * (u * l) \in Int /\ m * q \in Int /\ m * e \in Int
        BY <3>2, <3>3
      <4> QED BY <3>3, <3>4, <3>5, <4>1
    <3>9. w * (m * (b + e)) = (m * w) * (b + e)
      BY <1>3, <3>3, <3>7 DEF b
    <3> QED BY <3>6, <3>7, <3>8, <3>9 DEF b
  <2> QED BY <2>1, <2>2
<1>5. BlockOf(Value(c), n) = b
  <2> DEFINE s == Size(n)
             v == Value(c)
  <2>1. s \in Nat \ {0} /\ v \in Int /\ b \in Int /\ v + e = s * (b + e)
    BY <1>3, <1>4
  <2> HIDE DEF s, v, b
  <2>2. s * (b + e) = s * b + s * e /\ s * b \in Int /\ s * 0 = 0 /\ s * 1 = s
    BY <2>1
  <2>3. e = 0 \/ e = 1
    OBVIOUS
  <2>4. s * b <= v /\ v < s * b + s
    BY <2>1, <2>2, <2>3
  <2>5. v \div s \in Int /\ s * (v \div s) <= v /\ v < s * (v \div s) + s
    BY <2>1, DivisionIs
  <2>6. v \div s = b
    BY <2>1, <2>4, <2>5, DivisionIsUnique
  <2> QED BY <2>6 DEF s, v, BlockOf
<1> QED BY <1>4, <1>5 DEF b

\* What the mask of a length does to a byte, and what it leaves out.
LEMMA MaskBytes ==
  ASSUME NEW n \in Pfxlen, NEW k \in BytePos, NEW a \in Address
  PROVE  /\ EndByte(a, n, 0, k) \in Byte /\ EndByte(a, n, 1, k) \in Byte
         /\ MaskApply(a, n)[k] = EndByte(a, n, 0, k)
         /\ AndMask(a[k], MaskCompute(n)[k]) = EndByte(a, n, 0, k)
         /\ FillHost(a, n)[k] = EndByte(a, n, 1, k)
<1> DEFINE full == n \div ByteBits
           rem == n % ByteBits
           m == 2^(ByteBits - rem)
           u == 2^rem
           x == a[k]
           b == ByteSize
           mask == MaskCompute(n)[k]
<1>1. n \in 0 .. KeyBits /\ rem \in 0 .. ByteBits - 1 /\ rem \in 0 .. ByteBits /\ rem \in Nat
  <2>1. n \in 0 .. KeyBits
    BY Shape DEF Pfxlen, MaxPfxlen
  <2> QED BY <2>1, LengthInBytes, Shape
<1>2. /\ m \in Nat \ {0} /\ u \in Nat \ {0} /\ b = m * u /\ b \in Nat \ {0}
      /\ x \in 0 .. b - 1
  BY <1>1, ByteIsPower DEF Address, Byte
<1>3. KeepTop(x, rem) = m * (x \div m) /\ x \div m \in 0 .. u - 1
  BY <1>1, <1>2, KeepTopIsQuotient
<1>4. KeepTop(x, rem) = x - (x % m)
  BY DEF KeepTop
<1>5. ~(rem > 0) => m = b /\ KeepTop(x, rem) = 0 /\ KeepTop(b - 1, rem) = 0
  <2> SUFFICES ASSUME rem = 0 PROVE m = b /\ KeepTop(x, rem) = 0 /\ KeepTop(b - 1, rem) = 0
    BY <1>1
  <2>1. m = b
    <3>1. ByteBits - 0 = ByteBits
      BY Shape
    <3> QED BY <3>1 DEF ByteSize
  <2>2. ASSUME NEW y \in 0 .. b - 1 PROVE y - (y % b) = 0
    <3> HIDE DEF b
    <3> QED BY <1>2, SmallRemainder
  <2>3. b - 1 \in 0 .. b - 1
    BY <1>2
  <2> QED BY <1>2, <2>1, <2>2, <2>3 DEF KeepTop
<1>6. KeepTop(b - 1, rem) = b - m
  <2>1. b - 1 \in 0 .. b - 1
    BY <1>2
  <2>2. KeepTop(b - 1, rem) = m * ((b - 1) \div m)
    BY <1>1, <2>1, KeepTopIsQuotient
  <2> HIDE DEF m, u, b
  <2>3. m * (u - 1) = m * u - m /\ m * u \in Int
    BY <1>2
  <2>4. (b - 1) \div m = u - 1
    <3>1. b - 1 \in Int /\ u - 1 \in Int /\ m * (u - 1) <= b - 1 /\ b - 1 < m * (u - 1) + m
      BY <1>2, <2>3
    <3>2. /\ (b - 1) \div m \in Int /\ m * ((b - 1) \div m) <= b - 1
          /\ b - 1 < m * ((b - 1) \div m) + m
      BY <1>2, <3>1, DivisionIs
    <3> QED BY <1>2, <3>1, <3>2, DivisionIsUnique
  <2> QED BY <1>2, <2>2, <2>3, <2>4
<1>7. /\ k < full => mask = b - 1
      /\ k = full => mask = b - m
      /\ full < k => mask = 0
      /\ MaskApply(a, n)[k] = IF k < full THEN x ELSE IF k = full THEN KeepTop(x, rem) ELSE 0
      /\ FillHost(a, n)[k] = AndMask(x, mask) + (b - 1 - mask)
  <2>1. full \in Int
    BY <1>1, LengthInBytes
  <2>2. k \in Int
    BY Shape DEF BytePos
  <2>3. b - b = 0
    BY <1>2
  <2> HIDE DEF full, rem, m, b
  <2> QED BY <1>5, <1>6, <2>1, <2>2, <2>3 DEF MaskCompute, MaskApply, FillHost, full, rem, b
<1>8. KeepTop(x, rem) \in 0 .. b - m
  <2> DEFINE q == x \div m
  <2> HIDE DEF m, u, b, q
  <2>1. PICK d \in Nat : u = q + 1 + d
    <3>1. u - q - 1 \in Nat /\ u = q + 1 + (u - q - 1)
      BY <1>2, <1>3 DEF q
    <3> QED BY <3>1
  <2>2. q \in Nat
    BY <1>2, <1>3 DEF q
  <2>3. m * u = m * q + m + m * d /\ m * q \in Nat /\ m * d \in Nat
    BY <1>2, <2>1, <2>2
  <2> QED BY <1>2, <1>3, <2>3 DEF q
<1>9. CASE k < full
  <2>1. EndByte(a, n, 0, k) = x /\ EndByte(a, n, 1, k) = x
    BY <1>9 DEF EndByte
  <2>2. AndMask(x, b - 1) = x
    <3>1. b - (b - 1) = 1 /\ x % 1 = 0 /\ x - 0 = x
      BY <1>2
    <3> QED BY <3>1 DEF AndMask
  <2>3. x + (b - 1 - (b - 1)) = x
    BY <1>2
  <2> HIDE DEF b, mask
  <2> QED BY <1>2, <1>7, <1>9, <2>1, <2>2, <2>3 DEF Byte, b, mask
<1>10. CASE k = full
  <2>1. /\ EndByte(a, n, 0, k) = KeepTop(x, rem) + 0 * (m - 1)
        /\ EndByte(a, n, 1, k) = KeepTop(x, rem) + 1 * (m - 1)
    BY <1>10 DEF EndByte
  <2> HIDE DEF m, b, rem, mask
  <2>2. 0 * (m - 1) = 0 /\ 1 * (m - 1) = m - 1 /\ b - 1 - (b - m) = m - 1 /\ b - (b - m) = m
    BY <1>2
  <2>3. AndMask(x, b - m) = KeepTop(x, rem)
    BY <1>4, <2>2 DEF AndMask, b
  <2>4. mask = b - m
    BY <1>7, <1>10
  <2>5. KeepTop(x, rem) + 0 = KeepTop(x, rem) /\ KeepTop(x, rem) + (m - 1) \in 0 .. b - 1
    BY <1>2, <1>8
  <2> QED BY <1>2, <1>7, <1>8, <1>10, <2>1, <2>2, <2>3, <2>4, <2>5 DEF Byte, b, mask
<1>11. CASE full < k
  <2>1. full \in Int /\ k \in Int
    BY <1>1, LengthInBytes, Shape DEF BytePos
  <2>2. /\ EndByte(a, n, 0, k) = 0 * (b - 1) /\ EndByte(a, n, 1, k) = 1 * (b - 1)
    BY <1>11, <2>1 DEF EndByte
  <2>3. 0 * (b - 1) = 0 /\ 1 * (b - 1) = b - 1 /\ b - 1 - 0 = b - 1 /\ b - 0 = b
    BY <1>2
  <2>4. AndMask(x, 0) = 0
    <3> HIDE DEF b, x
    <3>1. x - (x % b) = 0
      BY <1>2, SmallRemainder
    <3> QED BY <2>3, <3>1 DEF AndMask, b
  <2>5. ~(k < full) /\ k # full /\ mask = 0
    BY <1>7, <1>11, <2>1
  <2>6. MaskApply(a, n)[k] = 0
    BY <1>7, <2>5
  <2>7. FillHost(a, n)[k] = 0 + (b - 1 - 0)
    BY <1>7, <2>4, <2>5
  <2> HIDE DEF b, x
  <2>8. 0 + (b - 1 - 0) = b - 1 /\ 0 \in 0 .. b - 1 /\ b - 1 \in 0 .. b - 1
    BY <1>2
  <2> QED BY <2>2, <2>3, <2>4, <2>5, <2>6, <2>7, <2>8 DEF Byte, b, x
<1>12. full \in Int /\ k \in Int
  BY <1>1, LengthInBytes, Shape DEF BytePos
<1> QED BY <1>9, <1>10, <1>11, <1>12

\* A prefix with clear host bits is what is left of any address it holds.
LEMMA MatchGivesAddress ==
  ASSUME NEW p, p.addr \in Address, p.pfxlen \in Pfxlen,
         MaskApply(p.addr, p.pfxlen) = p.addr,
         NEW a \in Address, PrefixMatches(p, a)
  PROVE  p.addr = MaskApply(a, p.pfxlen)
<1> DEFINE full == p.pfxlen \div ByteBits
           rem  == p.pfxlen % ByteBits
<1>1. /\ \A k \in BytePos : k < full => p.addr[k] = a[k]
      /\ rem > 0 => KeepTop(p.addr[full], rem) = KeepTop(a[full], rem)
  BY DEF PrefixMatches, AgreeOnTop
<1> DEFINE masked(x) == [k \in BytePos |-> IF k < full THEN x[k]
                                          ELSE IF k = full /\ rem > 0 THEN KeepTop(x[k], rem)
                                          ELSE 0]
<1>2. /\ masked(p.addr) = MaskApply(p.addr, p.pfxlen)
      /\ masked(a) = MaskApply(a, p.pfxlen)
  BY DEF MaskApply
<1> HIDE DEF full, rem
<1>3. masked(p.addr) = masked(a)
  BY <1>1
<1> QED BY <1>2, <1>3

\* A prefix as the constructors return it, with whatever other fields.
IsPrefix(p) == IsEntry(p) /\ MaskApply(p.addr, p.pfxlen) = p.addr

LEMMA MaskedAddress ==
  ASSUME NEW a \in Address, NEW n \in Pfxlen
  PROVE  /\ MaskApply(a, n) \in Address
         /\ Value(MaskApply(a, n)) = Size(n) * BlockOf(Value(a), n)
         /\ BlockOf(Value(MaskApply(a, n)), n) = BlockOf(Value(a), n)
         /\ MaskApply(MaskApply(a, n), n) = MaskApply(a, n)
<1>1. ASSUME NEW x \in Address
      PROVE  /\ MaskApply(x, n) \in Address
             /\ Value(MaskApply(x, n)) = Size(n) * BlockOf(Value(x), n)
             /\ BlockOf(Value(MaskApply(x, n)), n) = BlockOf(Value(x), n)
  <2> DEFINE c == MaskApply(x, n)
  <2>1. c = [k \in BytePos |-> c[k]]
    BY DEF MaskApply
  <2>2. \A k \in BytePos : c[k] \in Byte /\ c[k] = EndByte(x, n, 0, k)
    BY MaskBytes
  <2> HIDE DEF c
  <2>3. c \in Address
    BY <2>1, <2>2 DEF Address
  <2>4. 0 \in 0 .. 1
    OBVIOUS
  <2>5. /\ Value(c) + 0 = Size(n) * (BlockOf(Value(x), n) + 0)
        /\ BlockOf(Value(c), n) = BlockOf(Value(x), n)
    BY <2>2, <2>3, <2>4, EndOfBlock
  <2>6. Value(c) + 0 = Value(c) /\ BlockOf(Value(x), n) + 0 = BlockOf(Value(x), n)
    BY <2>3, ValueIsNat, Sizes
  <2> QED BY <2>3, <2>5, <2>6 DEF c
<1>2. MaskApply(MaskApply(a, n), n) = MaskApply(a, n)
  BY <1>1, ValueIsInjective
<1> QED BY <1>1, <1>2

LEMMA FilledAddress ==
  ASSUME NEW a \in Address, NEW n \in Pfxlen
  PROVE  /\ FillHost(a, n) \in Address
         /\ Value(FillHost(a, n)) = Size(n) * BlockOf(Value(a), n) + Size(n) - 1
<1> DEFINE c == FillHost(a, n)
           b == BlockOf(Value(a), n)
           s == Size(n)
<1>1. c = [k \in BytePos |-> c[k]]
  BY DEF FillHost
<1>2. \A k \in BytePos : c[k] \in Byte /\ c[k] = EndByte(a, n, 1, k)
  BY MaskBytes
<1>3. s \in Nat /\ b \in Int
  BY ValueIsNat, Sizes
<1> HIDE DEF c
<1>4. c \in Address
  BY <1>1, <1>2 DEF Address
<1>5. 1 \in 0 .. 1
  OBVIOUS
<1>6. Value(c) + 1 = s * (b + 1) /\ Value(c) \in Nat
  BY <1>2, <1>4, <1>5, EndOfBlock, ValueIsNat
<1> HIDE DEF b, s
<1>7. s * (b + 1) = s * b + s /\ s * b \in Int
  BY <1>3
<1> QED BY <1>3, <1>4, <1>6, <1>7 DEF c, b, s

\* The span of a prefix begins at its network address.
LEMMA SpanOfPrefix ==
  ASSUME NEW p, IsPrefix(p)
  PROVE  /\ Value(p.addr) = Size(p.pfxlen) * BlockOf(Value(p.addr), p.pfxlen)
         /\ Span(p) = Value(p.addr) .. Value(p.addr) + Size(p.pfxlen) - 1
         /\ Value(p.addr) \in Nat /\ Size(p.pfxlen) \in Nat \ {0}
<1> DEFINE m == Size(p.pfxlen)
           n == Value(p.addr)
           q == BlockOf(n, p.pfxlen)
<1>1. n = m * q
  BY MaskedAddress DEF IsPrefix, IsEntry
<1>2. n \in Nat /\ m \in Nat \ {0} /\ q \in Int
  BY ValueIsNat, Sizes DEF IsPrefix, IsEntry
<1>3. Span(p) = q * m .. q * m + m - 1
  BY DEF Span, BlockOf, Size
<1> HIDE DEF m, n, q
<1>4. q * m = n
  BY <1>1, <1>2
<1> QED BY <1>1, <1>2, <1>3, <1>4 DEF m, n, q

\* Prefixes of one block are one prefix.
LEMMA BlockIsPrefix ==
  ASSUME NEW p, NEW q, IsPrefix(p), IsPrefix(q), p.pfxlen = q.pfxlen,
         BlockOf(Value(p.addr), p.pfxlen) = BlockOf(Value(q.addr), q.pfxlen)
  PROVE  p.addr = q.addr
<1>1. Value(p.addr) = Value(q.addr)
  BY SpanOfPrefix
<1> QED BY <1>1, ValueIsInjective DEF IsPrefix, IsEntry

----------------------------------------------------------------------------
(* Containment, overlap and siblings.                                      *)

\* cidr_prefix_contains decides membership, over all the bytes.
LEMMA ContainsIsMembership ==
  ASSUME NEW p, IsPrefix(p), NEW a \in Address
  PROVE  Contains(p, a) <=> Value(a) \in Span(p)
<1> DEFINE n == p.pfxlen
<1>1. p.addr \in Address /\ n \in Pfxlen /\ MaskApply(p.addr, n) = p.addr
  BY DEF IsPrefix, IsEntry
<1>2. Contains(p, a) <=> \A k \in BytePos : MaskApply(a, n)[k] = p.addr[k]
  BY <1>1, MaskBytes DEF Contains
<1>3. MaskApply(a, n) \in Address
  BY <1>1, MaskedAddress
<1>4. Contains(p, a) <=> MaskApply(a, n) = p.addr
  BY <1>1, <1>2, <1>3 DEF Address
<1>5. Value(a) \in Span(p) <=> BlockOf(Value(a), n) = BlockOf(Value(p.addr), n)
  BY <1>1, ValueIsNat, InSpan DEF IsEntry
<1>6. MaskApply(a, n) = p.addr <=> Value(MaskApply(a, n)) = Value(p.addr)
  BY <1>1, <1>3, ValueIsInjective
<1>7. /\ Value(MaskApply(a, n)) = Size(n) * BlockOf(Value(a), n)
      /\ Value(p.addr) = Size(n) * BlockOf(Value(p.addr), n)
      /\ BlockOf(Value(MaskApply(a, n)), n) = BlockOf(Value(a), n)
  BY <1>1, MaskedAddress, SpanOfPrefix
<1> QED BY <1>4, <1>5, <1>6, <1>7

\* What the host bits are cleared of is contained in the result.
LEMMA MaskedContains ==
  ASSUME NEW a \in Address, NEW n \in Pfxlen
  PROVE  Contains([addr |-> MaskApply(a, n), pfxlen |-> n], a)
BY MaskBytes DEF Contains

LEMMA EndsOfSpan ==
  ASSUME NEW p, IsPrefix(p)
  PROVE  Value(First(p)) .. Value(Last(p)) = Span(p)
<1>1. p.addr \in Address /\ p.pfxlen \in Pfxlen
  BY DEF IsPrefix, IsEntry
<1>2. Value(Last(p)) = Size(p.pfxlen) * BlockOf(Value(p.addr), p.pfxlen) + Size(p.pfxlen) - 1
  BY <1>1, FilledAddress DEF Last
<1> QED BY <1>2, SpanOfPrefix DEF First

LEMMA OverlapsIsShared ==
  ASSUME NEW p, NEW q, IsPrefix(p), IsPrefix(q)
  PROVE  Overlaps(p, q) <=> Span(p) \cap Span(q) # {}
<1>1. p.addr \in Address /\ q.addr \in Address /\ p.pfxlen \in Int /\ q.pfxlen \in Int
  BY Shape DEF IsPrefix, IsEntry, Pfxlen, MaxPfxlen
<1>2. Value(p.addr) \in Span(p) /\ Value(q.addr) \in Span(q)
  BY InSpan DEF IsPrefix
<1>3. Overlaps(p, q) <=> Value(q.addr) \in Span(p) \/ Value(p.addr) \in Span(q)
  BY <1>1, ContainsIsMembership DEF Overlaps
<1>4. ASSUME NEW v \in Span(p) \cap Span(q)
      PROVE  Value(q.addr) \in Span(p) \/ Value(p.addr) \in Span(q)
  <2>1. CASE p.pfxlen <= q.pfxlen
    BY <1>2, <2>1, SpansNest DEF IsPrefix
  <2>2. CASE q.pfxlen <= p.pfxlen
    BY <1>2, <2>2, SpansNest DEF IsPrefix
  <2> QED BY <1>1, <2>1, <2>2
<1> QED BY <1>2, <1>3, <1>4

\* The parent's block, as a half of which a block is one.
LEMMA ParentBlock ==
  ASSUME NEW n \in Pfxlen, n > 0, NEW v \in Nat
  PROVE  /\ n - 1 \in Pfxlen
         /\ BlockOf(v, n - 1) = BlockOf(v, n) \div 2
         /\ BlockOf(v, n) \in Int
<1>1. n \in Int /\ n - 1 \in Pfxlen /\ n - 1 <= n /\ n - (n - 1) = 1
  BY Shape DEF Pfxlen, MaxPfxlen
<1>2. BlockOf(v, n - 1) = BlockOf(v, n) \div 2^(n - (n - 1))
  BY <1>1, Coarser
<1>3. 2^1 = 2
  <2>1. 0 \in 0 .. KeyBits
    BY Shape
  <2>2. 2^(0 + 1) = 2 * 2^0 /\ 2^0 = 1
    BY <2>1, PowersOfTwo
  <2> QED BY <2>2
<1> QED BY <1>1, <1>2, <1>3, Sizes

LEMMA SupernetIs ==
  ASSUME NEW p, IsEntry(p), p.pfxlen > 0
  PROVE  /\ Supernet(p) \in Prefix
         /\ Supernet(p).pfxlen = p.pfxlen - 1
         /\ \A v \in Int : v \in Span(Supernet(p))
                             <=> BlockOf(v, p.pfxlen - 1) = BlockOf(Value(p.addr), p.pfxlen - 1)
<1> DEFINE n == p.pfxlen - 1
           s == Supernet(p)
<1>1. p.addr \in Address /\ n \in Pfxlen
  BY ParentBlock, ValueIsNat DEF IsEntry
<1>2. s = [addr |-> MaskApply(p.addr, n), pfxlen |-> n]
  BY DEF Supernet, FromHost
<1>3. /\ MaskApply(p.addr, n) \in Address
      /\ BlockOf(Value(MaskApply(p.addr, n)), n) = BlockOf(Value(p.addr), n)
      /\ MaskApply(MaskApply(p.addr, n), n) = MaskApply(p.addr, n)
  BY <1>1, MaskedAddress
<1> HIDE DEF s, n
<1>4. s.addr = MaskApply(p.addr, n) /\ s.pfxlen = n
  BY <1>2
<1>5. IsEntry(s)
  BY <1>1, <1>3, <1>4 DEF IsEntry
<1>6. s \in Prefix
  BY <1>1, <1>2, <1>3, <1>4 DEF Prefix
<1>7. \A v \in Int : v \in Span(s) <=> BlockOf(v, n) = BlockOf(Value(p.addr), n)
  BY <1>3, <1>4, <1>5, InSpan
<1> QED BY <1>4, <1>6, <1>7 DEF s, n

\* prefixes_are_siblings compares the parents' blocks.
LEMMA SiblingsAre ==
  ASSUME NEW p, NEW q, IsEntry(p), IsEntry(q)
  PROVE  AreSiblings(p, q) <=>
           /\ p.pfxlen = q.pfxlen /\ p.pfxlen > 0
           /\ BlockOf(Value(p.addr), p.pfxlen - 1) = BlockOf(Value(q.addr), p.pfxlen - 1)
<1> SUFFICES ASSUME p.pfxlen > 0
             PROVE  AgreeOnTop(p.addr, q.addr, p.pfxlen - 1) <=>
               BlockOf(Value(p.addr), p.pfxlen - 1) = BlockOf(Value(q.addr), p.pfxlen - 1)
  BY DEF AreSiblings
<1>1. p.addr \in Address /\ q.addr \in Address /\ p.pfxlen - 1 \in 0 .. KeyBits
  BY Shape DEF IsEntry, Pfxlen, MaxPfxlen
<1> QED BY <1>1, AgreeIsEqualBits DEF LeadingBits, BlockOf, Size

\* Two different siblings are the halves of their parent.
LEMMA SiblingsAreHalves ==
  ASSUME NEW p, NEW q, IsPrefix(p), IsPrefix(q), p.addr # q.addr, AreSiblings(p, q)
  PROVE  /\ Span(p) \cap Span(q) = {}
         /\ Span(Supernet(p)) = Span(p) \cup Span(q)
<1> DEFINE n == p.pfxlen
           x == BlockOf(Value(p.addr), n)
           y == BlockOf(Value(q.addr), n)
<1>1. /\ n = q.pfxlen /\ n > 0 /\ n \in Pfxlen
      /\ BlockOf(Value(p.addr), n - 1) = BlockOf(Value(q.addr), n - 1)
      /\ Value(p.addr) \in Nat /\ Value(q.addr) \in Nat
  BY SiblingsAre, ValueIsNat DEF IsPrefix, IsEntry
<1>2. x \in Int /\ y \in Int /\ x # y /\ x \div 2 = y \div 2
  BY <1>1, ParentBlock, BlockIsPrefix
<1>3. \A v \in Nat : /\ v \in Span(p) <=> BlockOf(v, n) = x
                     /\ v \in Span(q) <=> BlockOf(v, n) = y
                     /\ v \in Span(Supernet(p)) <=> BlockOf(v, n) \div 2 = x \div 2
                     /\ BlockOf(v, n) \in Int
  BY <1>1, InSpan, SupernetIs, ParentBlock DEF IsPrefix
<1> HIDE DEF x, y, n
<1>4. \A b \in Int : b \div 2 = x \div 2 <=> b = x \/ b = y
  BY <1>2
<1>5. Span(p) \subseteq Nat /\ Span(q) \subseteq Nat /\ Span(Supernet(p)) \subseteq Nat
  <2>1. IsEntry(Supernet(p))
    BY <1>1, SupernetIs DEF IsPrefix, IsEntry, Prefix, n
  <2> QED BY <2>1, InSpan DEF IsPrefix
<1> QED BY <1>2, <1>3, <1>4, <1>5

\* Whatever fills the rest of a parent is the sibling.
LEMMA HalvesAreSiblings ==
  ASSUME NEW p, NEW q, IsPrefix(p), IsPrefix(q), p.pfxlen > 0,
         Span(p) \cap Span(q) = {}, Span(Supernet(p)) = Span(p) \cup Span(q)
  PROVE  AreSiblings(p, q)
<1> DEFINE n == p.pfxlen
           super == Supernet(p)
           x == BlockOf(Value(p.addr), n)
           b == x \div 2
           h == IF x = 2 * b THEN 2 * b + 1 ELSE 2 * b
           m == Size(n)
           v == m * h
<1>1. /\ IsEntry(super) /\ super.pfxlen = n - 1 /\ n \in Pfxlen /\ n \in Int /\ n > 0
      /\ q.pfxlen \in Pfxlen /\ q.pfxlen \in Int /\ n - 1 \in Pfxlen
      /\ Value(p.addr) \in Nat /\ Value(q.addr) \in Nat
  BY SupernetIs, ValueIsNat, ParentBlock, Shape
     DEF IsPrefix, IsEntry, Prefix, Pfxlen, MaxPfxlen
<1>2. Value(p.addr) \in Span(p) /\ Value(q.addr) \in Span(q)
  BY InSpan DEF IsPrefix
<1>3. BlockOf(Value(q.addr), n - 1) = BlockOf(Value(p.addr), n - 1)
  <2>1. Value(q.addr) \in Span(super)
    BY <1>2
  <2> QED BY <1>1, <2>1, SupernetIs DEF IsPrefix
<1>4. ~(q.pfxlen <= n - 1)
  <2> SUFFICES ASSUME q.pfxlen <= n - 1 PROVE FALSE
    OBVIOUS
  <2>1. Value(q.addr) \in Span(super)
    BY <1>2
  <2>2. Span(super) \subseteq Span(q)
    BY <1>1, <1>2, <2>1, SpansNest DEF IsPrefix
  <2> QED BY <1>2, <2>2
<1>5. x \in Int /\ m \in Nat \ {0} /\ BlockOf(Value(p.addr), n - 1) = b
  BY <1>1, ParentBlock, Sizes
<1> HIDE DEF x
<1>6. b \in Int /\ h \in Int /\ h \div 2 = b /\ h # x
  BY <1>5
<1> HIDE DEF b, h, m
<1>7. m * h \in Int
  BY <1>5, <1>6
<1>8. ASSUME NEW w \in Int, m * h <= w, w < m * h + m
      PROVE  BlockOf(w, n) = h
  <2> DEFINE s == BlockOf(w, n)
  <2>1. s \in Int /\ m * s <= w /\ w < m * s + m
    BY <1>1, Sizes DEF m
  <2> HIDE DEF s
  <2>2. h = s
    BY <1>5, <1>6, <1>8, <2>1, DivisionIsUnique
  <2> QED BY <2>2 DEF s
<1>9. h \in Nat
  <2>1. x \in Nat
    <3>1. m * x <= Value(p.addr) /\ Value(p.addr) < m * x + m
      BY <1>1, Sizes DEF m, x
    <3>2. ASSUME x < 0 PROVE FALSE
      <4>1. PICK e \in Nat : x = -1 - e
        <5>1. -1 - x \in Nat /\ x = -1 - (-1 - x)
          BY <1>5, <3>2
        <5> QED BY <5>1
      <4>2. m * x = -m - m * e /\ m * e \in Nat
        BY <1>5, <4>1
      <4> QED BY <1>1, <1>5, <3>1, <4>2
    <3> QED BY <1>5, <3>2
  <2> QED BY <1>5, <2>1 DEF h, b
<1>10. v \in Nat
  BY <1>5, <1>9
<1>11. ASSUME NEW w \in Nat, BlockOf(w, n) = h
       PROVE  w \in Span(q)
  <2>1. BlockOf(w, n - 1) = b
    BY <1>1, <1>6, <1>11, ParentBlock
  <2>2. w \in Span(super)
    BY <1>1, <1>5, <2>1, SupernetIs DEF IsPrefix
  <2>3. w \notin Span(p)
    BY <1>1, <1>6, <1>11, InSpan DEF IsPrefix, x
  <2> QED BY <2>2, <2>3
<1>12. v \in Span(q) /\ v + m - 1 \in Span(q)
  <2>1. v + m - 1 \in Nat
    BY <1>5, <1>10
  <2>2. BlockOf(v, n) = h /\ BlockOf(v + m - 1, n) = h
    <3>1. m * h <= v /\ v < m * h + m /\ m * h <= v + m - 1 /\ v + m - 1 < m * h + m
      BY <1>5, <1>7
    <3> HIDE DEF v
    <3> QED BY <1>8, <1>10, <2>1, <3>1
  <2> HIDE DEF v
  <2> QED BY <1>10, <1>11, <2>1, <2>2
<1>13. m <= Size(q.pfxlen)
  <2>1. Span(q) = Value(q.addr) .. Value(q.addr) + Size(q.pfxlen) - 1 /\ Size(q.pfxlen) \in Nat
    BY SpanOfPrefix
  <2> HIDE DEF v
  <2> QED BY <1>1, <1>5, <1>10, <1>12, <2>1
<1>14. ~(n < q.pfxlen)
  <2> SUFFICES ASSUME n < q.pfxlen PROVE FALSE
    OBVIOUS
  <2>1. Size(q.pfxlen) < m /\ Size(q.pfxlen) \in Nat
    BY <1>1, SizeDescends, Sizes DEF m
  <2> QED BY <1>5, <1>13, <2>1
<1>15. n = q.pfxlen
  BY <1>1, <1>4, <1>14
<1> QED BY <1>1, <1>3, <1>15, SiblingsAre DEF IsPrefix

\* cidr_prefix_cmp compares the numbers, and then the lengths.
LEMMA CmpIs ==
  ASSUME NEW p, NEW q, IsEntry(p), IsEntry(q)
  PROVE  /\ PrefixCmp(p, q) = -1 <=> \/ Value(p.addr) < Value(q.addr)
                                     \/ p.addr = q.addr /\ p.pfxlen < q.pfxlen
         /\ PrefixCmp(p, q) = 0 <=> p.addr = q.addr /\ p.pfxlen = q.pfxlen
<1>1. /\ p.addr \in Address /\ q.addr \in Address
      /\ p.pfxlen \in Int /\ q.pfxlen \in Int
      /\ Value(p.addr) \in Nat /\ Value(q.addr) \in Nat
  BY ValueIsNat, Shape DEF IsEntry, Pfxlen, MaxPfxlen
<1>2. AddrLess(p.addr, q.addr) <=> Value(p.addr) < Value(q.addr)
  BY <1>1, LessIsLess
<1>3. p.addr = q.addr <=> Value(p.addr) = Value(q.addr)
  BY <1>1, ValueIsInjective
<1>4. CASE p.addr = q.addr
  BY <1>1, <1>4 DEF PrefixCmp
<1>5. CASE p.addr # q.addr
  BY <1>1, <1>2, <1>3, <1>5 DEF PrefixCmp, AddrCmp
<1> QED BY <1>4, <1>5

\* A prefix never sorts after one that it covers.
LEMMA CoveringSortsFirst ==
  ASSUME NEW p, NEW q, IsPrefix(p), IsPrefix(q), Span(q) \subseteq Span(p)
  PROVE  PrefixCmp(p, q) \in {-1, 0}
<1>1. IsEntry(p) /\ IsEntry(q) /\ p.addr \in Address /\ q.addr \in Address
  BY DEF IsPrefix, IsEntry
<1>2. /\ Span(p) = Value(p.addr) .. Value(p.addr) + Size(p.pfxlen) - 1
      /\ Span(q) = Value(q.addr) .. Value(q.addr) + Size(q.pfxlen) - 1
      /\ Value(p.addr) \in Nat /\ Size(p.pfxlen) \in Nat \ {0}
      /\ Value(q.addr) \in Nat /\ Size(q.pfxlen) \in Nat \ {0}
  BY SpanOfPrefix
<1>3. Value(p.addr) <= Value(q.addr)
  <2>1. Value(q.addr) \in Span(q)
    BY <1>2
  <2> QED BY <1>2, <2>1
<1>4. CASE Value(p.addr) < Value(q.addr)
  BY <1>1, <1>4, CmpIs
<1>5. CASE Value(p.addr) = Value(q.addr)
  <2>1. p.addr = q.addr
    BY <1>1, <1>5, ValueIsInjective
  <2>2. ~(q.pfxlen < p.pfxlen)
    <3> SUFFICES ASSUME q.pfxlen < p.pfxlen PROVE FALSE
      OBVIOUS
    <3>1. Size(p.pfxlen) < Size(q.pfxlen)
      BY <1>1, SizeDescends DEF IsEntry
    <3>2. Value(q.addr) + Size(q.pfxlen) - 1 \in Span(q)
      BY <1>2
    <3> QED BY <1>2, <1>5, <3>1, <3>2
  <2>3. p.pfxlen \in Int /\ q.pfxlen \in Int
    BY <1>1, Shape DEF IsEntry, Pfxlen, MaxPfxlen
  <2> QED BY <1>1, <2>1, <2>2, <2>3, CmpIs
<1> QED BY <1>2, <1>3, <1>4, <1>5

\* Between the first and the last address of a prefix.
IsBetween(p, a) == ~AddrLess(a, First(p)) /\ ~AddrLess(Last(p), a)

LEMMA ContainsIsBetween ==
  ASSUME NEW p, IsPrefix(p), NEW a \in Address
  PROVE  /\ Contains(p, a) <=> IsBetween(p, a)
         /\ MaskApply(a, p.pfxlen) = p.addr <=> IsBetween(p, a)
<1>1. p.addr \in Address /\ p.pfxlen \in Pfxlen
  BY DEF IsPrefix, IsEntry
<1>2. First(p) \in Address /\ Last(p) \in Address
  BY <1>1, FilledAddress DEF First, Last
<1>3. Value(a) \in Nat /\ Value(First(p)) \in Nat /\ Value(Last(p)) \in Nat
  BY <1>2, ValueIsNat
<1>4. Value(a) \in Value(First(p)) .. Value(Last(p)) <=> Contains(p, a)
  BY EndsOfSpan, ContainsIsMembership
<1>5. /\ AddrLess(a, First(p)) <=> Value(a) < Value(First(p))
      /\ AddrLess(Last(p), a) <=> Value(Last(p)) < Value(a)
  BY <1>2, LessIsLess
<1>6. IsBetween(p, a) <=> Value(a) \in Value(First(p)) .. Value(Last(p))
  BY <1>3, <1>5 DEF IsBetween
<1>7. \A k \in BytePos : AndMask(a[k], MaskCompute(p.pfxlen)[k]) = MaskApply(a, p.pfxlen)[k]
  BY <1>1, MaskBytes
<1>8. Contains(p, a) <=> \A k \in BytePos : MaskApply(a, p.pfxlen)[k] = p.addr[k]
  BY <1>7 DEF Contains
<1>9. MaskApply(a, p.pfxlen) \in Address
  BY <1>1, MaskedAddress
<1>10. Contains(p, a) <=> MaskApply(a, p.pfxlen) = p.addr
  BY <1>1, <1>8, <1>9 DEF Address
<1> QED BY <1>4, <1>6, <1>10

\* A prefix comes before every other one that lies inside it.
LEMMA WithinSortsFirst ==
  ASSUME NEW p, NEW q, IsPrefix(p), IsPrefix(q), ~(p.addr = q.addr /\ p.pfxlen = q.pfxlen),
         IsBetween(p, First(q)), IsBetween(p, Last(q))
  PROVE  PrefixCmp(p, q) = -1
<1>1. /\ First(p) \in Address /\ Last(p) \in Address
      /\ First(q) \in Address /\ Last(q) \in Address
  BY FilledAddress DEF First, Last, IsPrefix, IsEntry
<1>2. /\ Value(First(p)) \in Nat /\ Value(Last(p)) \in Nat
      /\ Value(First(q)) \in Nat /\ Value(Last(q)) \in Nat
  BY <1>1, ValueIsNat
<1>3. ~(Value(First(q)) < Value(First(p))) /\ ~(Value(Last(p)) < Value(Last(q)))
  BY <1>1, LessIsLess DEF IsBetween
<1>4. /\ Span(p) = Value(First(p)) .. Value(Last(p))
      /\ Span(q) = Value(First(q)) .. Value(Last(q))
  BY EndsOfSpan
<1>5. Span(q) \subseteq Span(p)
  BY <1>2, <1>3, <1>4
<1>6. PrefixCmp(p, q) \in {-1, 0}
  BY <1>5, CoveringSortsFirst
<1>7. PrefixCmp(p, q) # 0
  BY CmpIs DEF IsPrefix
<1> QED BY <1>6, <1>7

\* The comparisons are total orders.
LEMMA AddrOrder ==
  ASSUME NEW a \in Address, NEW c \in Address
  PROVE  /\ AddrCmp(a, c) \in {-1, 0, 1}
         /\ AddrCmp(a, c) = 0 <=> a = c
         /\ AddrCmp(c, a) = -AddrCmp(a, c)
<1>1. Value(a) \in Nat /\ Value(c) \in Nat
  BY ValueIsNat
<1>2. /\ AddrLess(a, c) <=> Value(a) < Value(c)
      /\ AddrLess(c, a) <=> Value(c) < Value(a)
  BY LessIsLess
<1>3. a = c <=> Value(a) = Value(c)
  BY ValueIsInjective
<1> QED BY <1>1, <1>2, <1>3 DEF AddrCmp

LEMMA PrefixOrder ==
  ASSUME NEW p, NEW q, IsEntry(p), IsEntry(q)
  PROVE  /\ PrefixCmp(p, q) \in {-1, 0, 1}
         /\ PrefixCmp(p, q) = 0 <=> p.addr = q.addr /\ p.pfxlen = q.pfxlen
         /\ PrefixCmp(q, p) = -PrefixCmp(p, q)
<1>1. p.addr \in Address /\ q.addr \in Address /\ p.pfxlen \in Int /\ q.pfxlen \in Int
  BY Shape DEF IsEntry, Pfxlen, MaxPfxlen
<1>2. CASE p.addr = q.addr
  BY <1>1, <1>2 DEF PrefixCmp
<1>3. CASE p.addr # q.addr
  <2>1. PrefixCmp(p, q) = AddrCmp(p.addr, q.addr) /\ PrefixCmp(q, p) = AddrCmp(q.addr, p.addr)
    BY <1>3 DEF PrefixCmp
  <2> QED BY <1>1, <1>3, <2>1, AddrOrder
<1> QED BY <1>2, <1>3

----------------------------------------------------------------------------
(* The addition of a power of two.                                         *)

\* The remainder of a sum that runs over once at most.
LEMMA RunOver ==
  ASSUME NEW m \in Nat \ {0}, NEW x \in 0 .. m - 1, NEW e \in 0 .. 1, NEW n \in Int,
         x + e * m = n
  PROVE  n % m = x
<1>1. m * e \in Int /\ e * m = m * e
  OBVIOUS
<1>2. m * e <= n /\ n < m * e + m
  BY <1>1
<1>3. n \div m \in Int /\ m * (n \div m) <= n /\ n < m * (n \div m) + m
  BY DivisionIs
<1>4. n \div m = e
  BY <1>2, <1>3, DivisionIsUnique
<1>5. n = m * (n \div m) + (n % m) /\ n % m \in Int
  OBVIOUS
<1> QED BY <1>1, <1>4, <1>5

\* The number of combinations of n bytes.
BytePower(n) == 2^(ByteBits * n)

LEMMA BytePowers ==
  /\ BytePower(0) = 1
  /\ BytePower(AddrLen) = 2^KeyBits
  /\ \A n \in 0 .. AddrLen : BytePower(n) \in Nat \ {0}
  /\ \A n \in 0 .. AddrLen - 1 : BytePower(n + 1) = ByteSize * BytePower(n)
<1>1. ByteBits * 0 = 0 /\ ByteBits * AddrLen = KeyBits
  BY Shape
<1>2. \A n \in 0 .. AddrLen : BytePower(n) \in Nat \ {0}
  BY Weights, PowerIsPositive DEF BytePower
<1>3. ASSUME NEW n \in 0 .. AddrLen - 1
      PROVE  BytePower(n + 1) = ByteSize * BytePower(n)
  <2>1. n \in 0 .. AddrLen /\ n + 1 \in 0 .. AddrLen
    BY Shape
  <2>2. ByteBits * n \in 0 .. KeyBits /\ ByteBits * (n + 1) \in 0 .. KeyBits
    BY <2>1, Weights
  <2>3. ByteBits * (n + 1) = ByteBits + ByteBits * n
    BY Shape
  <2>4. 2^(ByteBits + ByteBits * n) = 2^ByteBits * 2^(ByteBits * n)
    <3> DEFINE j == ByteBits
               k == ByteBits * n
    <3>1. j \in Nat /\ k \in Nat /\ j + k <= KeyBits
      BY <2>2, <2>3, Shape
    <3> HIDE DEF j, k
    <3>2. 2^(j + k) = 2^j * 2^k
      BY <3>1, PowersAdd
    <3> QED BY <3>2 DEF j, k
  <2> QED BY <2>3, <2>4 DEF BytePower, ByteSize
<1> QED BY <1>1, <1>2, <1>3, PowersOfTwo DEF BytePower

\* addr_big_endian_inc adds modulo the address space: the byte that starts the
\* carry, the bytes it runs through and the ones behind it make one number.
LEMMA IncAdds ==
  ASSUME NEW a \in Address, NEW bit \in 0 .. KeyBits - 1
  PROVE  /\ BigEndianInc(a, bit) \in Address
         /\ Value(BigEndianInc(a, bit)) = (Value(a) + 2^bit) % 2^KeyBits
<1> DEFINE b == ByteSize
           h == bit \div ByteBits
           i == AddrLen - 1 - h
           s == bit % ByteBits
           val == a[i] + 2^s
           carry(n) == val >= b /\ \A j \in n .. i - 1 : a[j] = b - 1
           out(n) == IF carry(n) THEN 1 ELSE 0
           c == BigEndianInc(a, bit)
           f == LeadingBytes(a)
           g == LeadingBytes(c)
           t == out(0)
<1>1. /\ bit \in 0 .. KeyBits /\ bit = ByteBits * h + s /\ s \in 0 .. ByteBits - 1
      /\ h \in 0 .. AddrLen - 1 /\ ~(bit >= KeyBits)
  <2>1. bit \in 0 .. KeyBits /\ bit # KeyBits /\ ~(bit >= KeyBits)
    BY Shape
  <2>2. h \in 0 .. AddrLen /\ h # AddrLen
    BY <2>1, LengthInBytes
  <2> QED BY <2>1, <2>2, LengthInBytes, Shape
<1>2. i \in 0 .. AddrLen - 1 /\ i + 1 + h = AddrLen /\ i \in BytePos
  BY <1>1, Shape DEF BytePos
<1>3. b \in Nat \ {0} /\ 2^s \in Nat \ {0} /\ 2^s <= b
  <2>1. s \in 0 .. ByteBits
    BY <1>1, Shape
  <2> DEFINE x == 2^(ByteBits - s)
             y == 2^s
  <2>2. b \in Nat \ {0} /\ x \in Nat \ {0} /\ y \in Nat \ {0} /\ b = x * y
    BY <2>1, ByteIsPower
  <2> HIDE DEF b, x, y
  <2>3. y <= x * y
    <3>1. PICK d \in Nat : x = 1 + d
      <4>1. x - 1 \in Nat /\ x = 1 + (x - 1)
        BY <2>2
      <4> QED BY <4>1
    <3>2. x * y = y + d * y /\ d * y \in Nat
      BY <2>2, <3>1
    <3> QED BY <2>2, <3>2
  <2> QED BY <2>2, <2>3 DEF y
<1>4. \A k \in BytePos : a[k] \in 0 .. b - 1 /\ k \in Int
  BY Shape DEF Address, Byte, BytePos
<1>5. val \in Nat /\ val < b + b
  BY <1>2, <1>3, <1>4
<1>6. c = [k \in BytePos |-> IF k = i THEN val % b
                             ELSE IF k < i /\ carry(k + 1) THEN (a[k] + 1) % b
                             ELSE a[k]]
  BY <1>1 DEF BigEndianInc
<1> HIDE DEF c, val, b, f, g, i, h, s
<1>7. c \in [BytePos -> 0 .. b - 1]
  <2>1. \A x \in Nat : x % b \in 0 .. b - 1
    BY <1>3
  <2>2. \A k \in BytePos : a[k] + 1 \in Nat
    BY <1>3, <1>4
  <2> HIDE DEF carry
  <2> QED BY <1>4, <1>5, <1>6, <2>1, <2>2
<1>8. c \in Address
  BY <1>7 DEF Address, Byte, b
<1>9. c[i] + b * out(i) = val
  <2>1. carry(i) <=> val >= b
    BY <1>2
  <2>2. c[i] = val % b
    BY <1>2, <1>6
  <2>3. CASE val >= b
    <3>1. val - b \in 0 .. b - 1 /\ 1 \in 0 .. 1 /\ (val - b) + 1 * b = val
      BY <1>3, <1>5, <2>3
    <3>2. val % b = val - b
      BY <1>3, <1>5, <3>1, RunOver
    <3>3. out(i) = 1 /\ b * 1 = b
      BY <1>3, <2>1, <2>3
    <3> HIDE DEF out
    <3> QED BY <1>3, <1>5, <2>2, <3>2, <3>3
  <2>4. CASE ~(val >= b)
    <3>1. val \in 0 .. b - 1 /\ 0 \in 0 .. 1 /\ val + 0 * b = val
      BY <1>3, <1>5, <2>4
    <3>2. val % b = val
      BY <1>3, <1>5, <3>1, RunOver
    <3>3. out(i) = 0 /\ b * 0 = 0
      BY <1>3, <2>1, <2>4
    <3> HIDE DEF out
    <3> QED BY <1>3, <1>5, <2>2, <3>2, <3>3
  <2> QED BY <2>3, <2>4
<1>10. \A n : out(n) \in 0 .. 1
  OBVIOUS
<1>11. ASSUME NEW n \in 0 .. i - 1
       PROVE  c[n] + b * out(n) = a[n] + out(n + 1)
  <2>1. n \in BytePos /\ n \in Nat /\ n < i /\ n # i /\ a[n] \in 0 .. b - 1
    BY <1>2, <1>4, Shape DEF BytePos
  <2>2. carry(n) <=> carry(n + 1) /\ a[n] = b - 1
    <3>1. n .. i - 1 = {n} \cup n + 1 .. i - 1
      BY <1>2, <2>1
    <3> QED BY <3>1
  <2>3. c[n] = IF carry(n + 1) THEN (a[n] + 1) % b ELSE a[n]
    BY <1>6, <2>1
  <2>4. b * 0 = 0 /\ b * 1 = b
    BY <1>3
  <2> HIDE DEF carry
  <2>5. CASE carry(n + 1) /\ a[n] = b - 1
    <3>1. 0 \in 0 .. b - 1 /\ 1 \in 0 .. 1 /\ 0 + 1 * b = a[n] + 1 /\ a[n] + 1 \in Int
      BY <1>3, <2>5
    <3>2. (a[n] + 1) % b = 0
      BY <1>3, <3>1, RunOver
    <3>3. out(n) = 1 /\ out(n + 1) = 1
      BY <2>2, <2>5
    <3> HIDE DEF out
    <3> QED BY <1>3, <2>1, <2>3, <2>4, <2>5, <3>2, <3>3
  <2>6. CASE carry(n + 1) /\ a[n] # b - 1
    <3>1. a[n] + 1 \in 0 .. b - 1 /\ 0 \in 0 .. 1 /\ (a[n] + 1) + 0 * b = a[n] + 1
          /\ a[n] + 1 \in Int
      BY <1>3, <2>1, <2>6
    <3>2. (a[n] + 1) % b = a[n] + 1
      BY <1>3, <3>1, RunOver
    <3>3. out(n) = 0 /\ out(n + 1) = 1
      BY <2>2, <2>6
    <3> HIDE DEF out
    <3> QED BY <1>3, <2>1, <2>3, <2>4, <2>6, <3>2, <3>3
  <2>7. CASE ~carry(n + 1)
    <3>1. out(n) = 0 /\ out(n + 1) = 0
      BY <2>2, <2>7
    <3> HIDE DEF out
    <3> QED BY <1>3, <2>1, <2>3, <2>4, <2>7, <3>1
  <2> QED BY <2>5, <2>6, <2>7
<1> HIDE DEF out, t
<1>12. /\ f[0] = 0 /\ g[0] = 0 /\ Value(a) = f[AddrLen] /\ Value(c) = g[AddrLen]
       /\ \A k \in 0 .. AddrLen : f[k] \in Nat /\ g[k] \in Nat
       /\ \A k \in 0 .. AddrLen - 1 : f[k + 1] = b * f[k] + a[k] /\ g[k + 1] = b * g[k] + c[k]
  BY <1>8, LeadingBytesAre DEF f, g, b
<1>13. t = out(0) /\ t \in 0 .. 1
  BY <1>10 DEF t
<1>14. \A n \in 0 .. AddrLen : BytePower(n) \in Nat
  BY BytePowers
\* One more byte on both sides.
<1>15. ASSUME NEW n \in 0 .. AddrLen - 1, NEW d \in Int, NEW e \in Int,
              g[n] + t * BytePower(n) = f[n] + d,
              c[n] + b * d = a[n] + e
       PROVE  g[n + 1] + t * BytePower(n + 1) = f[n + 1] + e
  <2> DEFINE x == g[n]
             y == f[n]
             w == BytePower(n)
  <2>1. n \in 0 .. AddrLen /\ n \in BytePos
    BY Shape DEF BytePos
  <2>2. /\ x \in Nat /\ y \in Nat /\ w \in Nat /\ b \in Nat /\ t \in Int
        /\ a[n] \in Int /\ c[n] \in Int
        /\ x + t * w = y + d
        /\ g[n + 1] = b * x + c[n] /\ f[n + 1] = b * y + a[n]
        /\ BytePower(n + 1) = b * w
    BY <1>3, <1>4, <1>7, <1>12, <1>13, <1>14, <1>15, <2>1, BytePowers DEF b
  <2> HIDE DEF x, y, w
  <2>3. t * (b * w) = b * (t * w) /\ t * w \in Int
    BY <2>2
  <2>4. b * x + b * (t * w) = b * (x + t * w) /\ b * (y + d) = b * y + b * d
    BY <2>2, <2>3
  <2> DEFINE bx == b * x
             by == b * y
             bd == b * d
             bw == b * (t * w)
  <2>5. bx \in Int /\ bw \in Int /\ by \in Int /\ bd \in Int
    BY <2>2, <2>3
  <2>6. bx + bw = by + bd /\ c[n] + bd = a[n] + e
    BY <1>15, <2>2, <2>4
  <2>7. g[n + 1] = bx + c[n] /\ f[n + 1] = by + a[n] /\ t * BytePower(n + 1) = bw
    BY <2>2, <2>3
  <2> HIDE DEF bx, by, bd, bw
  <2> QED BY <2>2, <2>5, <2>6, <2>7
<1>16. g[i] + t * BytePower(i) = f[i] + out(i)
  <2> DEFINE S == {n \in Nat : n <= i => g[n] + t * BytePower(n) = f[n] + out(n)}
  <2>1. 0 \in S
    BY <1>12, <1>13, BytePowers
  <2>2. ASSUME NEW n \in Nat, n \in S
        PROVE  n + 1 \in S
    <3> SUFFICES ASSUME n + 1 <= i
                 PROVE  g[n + 1] + t * BytePower(n + 1) = f[n + 1] + out(n + 1)
      OBVIOUS
    <3>1. n \in 0 .. i - 1 /\ n \in 0 .. AddrLen - 1 /\ n <= i
      BY <1>2, Shape
    <3>2. g[n] + t * BytePower(n) = f[n] + out(n)
      BY <2>2, <3>1
    <3>3. out(n) \in Int /\ out(n + 1) \in Int
      BY <1>10
    <3> QED BY <1>11, <1>15, <3>1, <3>2, <3>3
  <2>3. Nat \subseteq S
    <3> HIDE DEF S
    <3> QED BY <2>1, <2>2, SetInduction
  <2>4. i \in S /\ i <= i
    <3> HIDE DEF S
    <3> QED BY <1>2, <2>3
  <2> QED BY <2>4
<1>17. g[i + 1] + t * BytePower(i + 1) = f[i + 1] + 2^s
  <2>1. c[i] + b * out(i) = a[i] + 2^s
    BY <1>9 DEF val
  <2>2. out(i) \in Int /\ 2^s \in Int
    BY <1>3, <1>10
  <2> QED BY <1>2, <1>15, <1>16, <2>1, <2>2
<1>18. g[i + 1 + h] + t * BytePower(i + 1 + h) = f[i + 1 + h] + 2^s * BytePower(h)
  <2> DEFINE S == {k \in Nat : i + 1 + k <= AddrLen =>
                     g[i + 1 + k] + t * BytePower(i + 1 + k) = f[i + 1 + k] + 2^s * BytePower(k)}
  <2>1. 0 \in S
    <3>1. 2^s * 1 = 2^s /\ i + 1 + 0 = i + 1
      BY <1>2, <1>3
    <3> QED BY <1>17, <3>1, BytePowers
  <2>2. ASSUME NEW k \in Nat, k \in S
        PROVE  k + 1 \in S
    <3> DEFINE n == i + 1 + k
               d == 2^s * BytePower(k)
    <3> SUFFICES ASSUME n + 1 <= AddrLen
                 PROVE  g[n + 1] + t * BytePower(n + 1) = f[n + 1] + 2^s * BytePower(k + 1)
      <4>1. i + 1 + (k + 1) = n + 1
        BY <1>2
      <4> QED BY <4>1
    <3>1. /\ n \in 0 .. AddrLen - 1 /\ n <= AddrLen /\ k \in 0 .. AddrLen - 1
          /\ k \in 0 .. AddrLen /\ n \in BytePos /\ i < n
      BY <1>2, Shape DEF BytePos
    <3>2. g[n] + t * BytePower(n) = f[n] + d
      BY <2>2, <3>1
    <3>3. 2^s * BytePower(k + 1) = b * d /\ d \in Int
      <4>1. BytePower(k + 1) = b * BytePower(k) /\ BytePower(k) \in Nat
        BY <3>1, BytePowers DEF b
      <4>2. \A x, y, z \in Nat : x * (y * z) = y * (x * z)
        OBVIOUS
      <4> QED BY <1>3, <4>1, <4>2
    <3> HIDE DEF n, d
    <3>4. c[n] = a[n]
      BY <1>2, <1>6, <3>1, Shape DEF BytePos
    <3>5. c[n] + b * d = a[n] + b * d /\ b * d \in Int
      BY <1>3, <3>3, <3>4
    <3> QED BY <1>15, <3>1, <3>2, <3>3, <3>5
  <2>3. Nat \subseteq S
    <3> HIDE DEF S
    <3> QED BY <2>1, <2>2, SetInduction
  <2>4. h \in S /\ i + 1 + h <= AddrLen
    <3> HIDE DEF S
    <3> QED BY <1>1, <1>2, <2>3, Shape
  <2> QED BY <2>4
<1>19. 2^s * BytePower(h) = 2^bit
  <2> DEFINE k == ByteBits * h
  <2>1. k \in 0 .. KeyBits /\ s \in Nat /\ k \in Nat /\ s + k = bit /\ s + k <= KeyBits
    <3>1. h \in 0 .. AddrLen
      BY <1>1, Shape
    <3> QED BY <1>1, <3>1, Weights, Shape
  <2> HIDE DEF k
  <2>2. 2^(s + k) = 2^s * 2^k
    BY <2>1, PowersAdd
  <2> QED BY <2>1, <2>2 DEF k, BytePower
<1>20. Value(c) + t * 2^KeyBits = Value(a) + 2^bit
  BY <1>2, <1>12, <1>18, <1>19, BytePowers
<1>21. /\ 2^KeyBits \in Nat \ {0} /\ Value(c) \in 0 .. 2^KeyBits - 1
       /\ Value(a) + 2^bit \in Int
  <2>1. Value(a) \in Nat /\ 2^bit \in Nat
    BY <1>1, ValueIsNat, PowerIsPositive
  <2> QED BY <1>8, <2>1, ValueInSpace
<1>22. (Value(a) + 2^bit) % 2^KeyBits = Value(c)
  BY <1>13, <1>20, <1>21, RunOver
<1> QED BY <1>8, <1>22 DEF c

----------------------------------------------------------------------------
(* The bits of an address, one after the other.                            *)

LEMMA Doubling ==
  ASSUME NEW r \in 0 .. KeyBits
  PROVE  2^r \in Nat \ {0} /\ 2^(r + 1) = 2 * 2^r
BY PowersOfTwo

\* trie_addr_bit returns the bit that makes n leading bits n + 1.
LEMMA NextBit ==
  ASSUME NEW a \in Address, NEW n \in 0 .. KeyBits - 1
  PROVE  /\ AddrBit(a, n) \in 0 .. 1
         /\ LeadingBits(a, n) \in Nat
         /\ LeadingBits(a, n + 1) = 2 * LeadingBits(a, n) + AddrBit(a, n)
<1> DEFINE full == n \div ByteBits
           r == n % ByteBits
           m == 2^(ByteBits - (r + 1))
           x == a[full]
           l == LeadingBytes(a)[full]
           v == LeadingBits(a, n + 1)
<1>1. /\ n \in 0 .. KeyBits /\ n = ByteBits * full + r /\ r \in 0 .. ByteBits - 1
      /\ full \in 0 .. AddrLen /\ full # AddrLen
  <2>1. n \in 0 .. KeyBits /\ n # KeyBits
    BY Shape
  <2> QED BY <2>1, LengthInBytes
<1>2. /\ full \in 0 .. AddrLen - 1 /\ r + 1 \in 0 .. ByteBits /\ r \in 0 .. KeyBits
      /\ ByteBits * full + (r + 1) = n + 1 /\ ByteBits - (r + 1) = ByteBits - 1 - r
  <2> HIDE DEF full, r
  <2>1. ByteBits * full \in Int
    BY <1>1, Shape
  <2> QED BY <1>1, <2>1, Shape
<1>3. v = 2^(r + 1) * l + (x \div m)
  <2> HIDE DEF full, r
  <2> QED BY <1>2, LeadingBitsAre
<1>4. AddrBit(a, n) = (x \div m) % 2
  <2>1. ~(full >= AddrLen)
    BY <1>2, Shape
  <2> QED BY <1>2, <2>1 DEF AddrBit
<1>5. /\ 2^(r + 1) = 2 * 2^r /\ 2^r \in Nat \ {0} /\ m \in Nat \ {0}
      /\ x \in Nat /\ l \in Nat
  <2>1. full \in 0 .. AddrLen /\ ByteBits - (r + 1) \in 0 .. KeyBits
    BY <1>2, Shape
  <2> HIDE DEF full, r
  <2> QED BY <1>2, <2>1, Doubling, LeadingBytesAre, PowerIsPositive, ByteIsPower
<1>6. LeadingBits(a, n) = v \div 2 /\ v \in Nat
  <2>1. n + 1 \in Pfxlen /\ n + 1 > 0 /\ (n + 1) - 1 = n
    BY Shape DEF Pfxlen, MaxPfxlen
  <2>2. Value(a) \in Nat
    BY ValueIsNat
  <2>3. BlockOf(Value(a), n) = BlockOf(Value(a), n + 1) \div 2
    BY <2>1, <2>2, ParentBlock
  <2>4. v \in Nat
    <3> DEFINE s == x \div m
               p == 2^r * l
    <3>1. s \in Nat /\ p \in Nat /\ 2^(r + 1) * l = 2 * p
      BY <1>5
    <3> HIDE DEF s, p
    <3> QED BY <1>3, <3>1 DEF s
  <2> QED BY <2>3, <2>4 DEF LeadingBits, BlockOf, Size
<1>7. v = 2 * (2^r * l) + (x \div m) /\ 2^r * l \in Nat /\ x \div m \in Nat
  <2> HIDE DEF full, r, m, x, l, v
  <2> QED BY <1>3, <1>5
<1> DEFINE s == x \div m
           p == 2^r * l
<1>8. v = 2 * p + s /\ p \in Nat /\ s \in Nat /\ AddrBit(a, n) = s % 2
  BY <1>4, <1>7
<1> HIDE DEF full, r, m, x, l, v, s, p
<1>9. s % 2 \in 0 .. 1 /\ v \div 2 \in Nat /\ v = 2 * (v \div 2) + (s % 2)
  BY <1>8
<1> QED BY <1>6, <1>8, <1>9 DEF v

\* No bits make no number.
LEMMA NoBits ==
  ASSUME NEW a \in Address
  PROVE  LeadingBits(a, 0) = 0
<1>1. KeyBits - 0 = KeyBits
  BY Shape
<1>2. Value(a) \in 0 .. 2^KeyBits - 1 /\ 2^KeyBits \in Nat \ {0}
  BY ValueInSpace
<1>3. PICK m, v : m = 2^KeyBits /\ v = Value(a)
  OBVIOUS
<1>4. v \div m = 0
  <2>1. m \in Nat \ {0} /\ v \in Int /\ v \in 0 .. m - 1
    BY <1>2, <1>3
  <2> QED BY ONLY <2>1
<1> QED BY <1>1, <1>3, <1>4 DEF LeadingBits

\* Addresses that agree on n bits agree on fewer, and bit by bit.
LEMMA FewerBits ==
  ASSUME NEW a \in Address, NEW c \in Address, NEW n \in 0 .. KeyBits, NEW k \in 0 .. n,
         LeadingBits(a, n) = LeadingBits(c, n)
  PROVE  /\ LeadingBits(a, k) = LeadingBits(c, k)
         /\ k < n => AddrBit(a, k) = AddrBit(c, k)
<1> DEFINE S == {d \in Nat : d <= n => LeadingBits(a, n - d) = LeadingBits(c, n - d)}
<1>1. 0 \in S
  <2>1. n - 0 = n
    OBVIOUS
  <2> QED BY <2>1
<1>2. ASSUME NEW d \in Nat, d \in S
      PROVE  d + 1 \in S
  <2> SUFFICES ASSUME d + 1 <= n
               PROVE  LeadingBits(a, n - (d + 1)) = LeadingBits(c, n - (d + 1))
    OBVIOUS
  <2> DEFINE j == n - (d + 1)
  <2>1. j \in 0 .. KeyBits - 1 /\ j + 1 = n - d /\ d <= n
    BY Shape
  <2>2. LeadingBits(a, j + 1) = LeadingBits(c, j + 1)
    BY <1>2, <2>1
  <2> HIDE DEF j
  <2>3. \A y \in {a, c} : /\ AddrBit(y, j) \in 0 .. 1 /\ LeadingBits(y, j) \in Nat
                          /\ LeadingBits(y, j + 1) = 2 * LeadingBits(y, j) + AddrBit(y, j)
    BY <2>1, NextBit
  <2>4. LeadingBits(a, j) = LeadingBits(c, j)
    BY <2>2, <2>3
  <2> QED BY <2>4 DEF j
<1>3. Nat \subseteq S
  <2> HIDE DEF S
  <2> QED BY <1>1, <1>2, SetInduction
<1>4. \A j \in 0 .. n : LeadingBits(a, j) = LeadingBits(c, j)
  <2> TAKE j \in 0 .. n
  <2>1. n - j \in S /\ n - j <= n /\ n - (n - j) = j
    BY <1>3
  <2> QED BY <2>1
<1>5. ASSUME k < n PROVE AddrBit(a, k) = AddrBit(c, k)
  <2>1. k \in 0 .. KeyBits - 1 /\ k + 1 \in 0 .. n
    BY <1>5, Shape
  <2>2. \A y \in {a, c} : /\ AddrBit(y, k) \in 0 .. 1 /\ LeadingBits(y, k) \in Nat
                          /\ LeadingBits(y, k + 1) = 2 * LeadingBits(y, k) + AddrBit(y, k)
    BY <2>1, NextBit
  <2>3. LeadingBits(a, k) = LeadingBits(c, k) /\ LeadingBits(a, k + 1) = LeadingBits(c, k + 1)
    BY <1>4, <2>1
  <2> QED BY <2>2, <2>3
<1> QED BY <1>4, <1>5

\* One more equal bit makes one more leading bit equal, and only that.
LEMMA OneMoreBit ==
  ASSUME NEW a \in Address, NEW c \in Address, NEW n \in 0 .. KeyBits - 1
  PROVE  LeadingBits(a, n + 1) = LeadingBits(c, n + 1)
           <=> LeadingBits(a, n) = LeadingBits(c, n) /\ AddrBit(a, n) = AddrBit(c, n)
<1>1. \A y \in {a, c} : /\ AddrBit(y, n) \in 0 .. 1 /\ LeadingBits(y, n) \in Nat
                        /\ LeadingBits(y, n + 1) = 2 * LeadingBits(y, n) + AddrBit(y, n)
  BY NextBit
<1> QED BY <1>1
=============================================================================
