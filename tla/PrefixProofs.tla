--------------------------- MODULE PrefixProofs ---------------------------
(***************************************************************************)
(* The pure functions of cidr_prefix.c and its subnet iterator, for        *)
(* addresses and bytes of any width: whatever a caller does, they compute  *)
(* with the intervals that CIDR notation stands for.                       *)
(***************************************************************************)
EXTENDS PrefixOps, SubnetIter, SpanProofs

\* What a caller holds came out of the library.
HeldInv == p \in Prefix /\ q \in Prefix /\ a \in Address

LEMMA PrefixIs ==
  ASSUME NEW x \in Prefix, NEW y \in Prefix
  PROVE  /\ IsPrefix(x)
         /\ x.addr = y.addr /\ x.pfxlen = y.pfxlen => x = y
BY DEF Prefix, IsPrefix, IsEntry

LEMMA ConstructorReturns ==
  ASSUME NEW x \in Address, NEW n \in Pfxlen
  PROVE  FromHost(x, n) \in Prefix
BY MaskedAddress DEF Prefix, FromHost

LEMMA HeldInit == OpsInit => HeldInv
<1>1. Zeros \in Address /\ 0 \in Pfxlen
  BY ByteIsPower, Shape DEF Zeros, Address, Byte, Pfxlen, MaxPfxlen
<1> QED BY <1>1, ConstructorReturns DEF OpsInit, HeldInv

LEMMA HeldStep == HeldInv /\ [OpsNext]_opsVars => HeldInv'
<1> SUFFICES ASSUME HeldInv, [OpsNext]_opsVars PROVE HeldInv'
  OBVIOUS
<1> USE DEF HeldInv
<1>1. ASSUME NEW len \in Pfxlen, CallFromHost(len) PROVE HeldInv'
  BY <1>1, ConstructorReturns DEF CallFromHost
<1>2. CASE CallSupernet
  BY <1>2, PrefixIs, SupernetIs DEF CallSupernet, IsPrefix
<1>3. CASE CallBounds
  BY <1>3, PrefixIs, FilledAddress DEF CallBounds, First, Last, IsPrefix, IsEntry
<1>4. ASSUME NEW bit \in 0 .. KeyBits, CallInc(bit) PROVE HeldInv'
  <2>1. CASE bit = KeyBits
    BY <1>4, <2>1, Shape DEF CallInc, BigEndianInc
  <2>2. CASE bit # KeyBits
    <3>1. bit \in 0 .. KeyBits - 1
      BY <2>2, Shape
    <3> QED BY <1>4, <3>1, IncAdds DEF CallInc
  <2> QED BY <2>1, <2>2
<1>5. CASE Exchange
  BY <1>5 DEF Exchange
<1>6. CASE UNCHANGED opsVars
  BY <1>6 DEF opsVars
<1> QED BY <1>1, <1>2, <1>3, <1>4, <1>5, <1>6 DEF OpsNext

\* Whatever a caller does with the library, its prefixes have clear host bits
\* and its addresses are addresses.
THEOREM HeldAlways == OpsSpec => []HeldInv
BY HeldInit, HeldStep, PTL DEF OpsSpec

\* cidr_prefix_contains, the early-exit comparison of the bulk functions and
\* the pair of cidr_prefix_first and cidr_prefix_last all speak of one interval.
THEOREM ContainmentIsExact == OpsSpec => []ContainmentIsInterval
<1>1. ASSUME HeldInv PROVE ContainmentIsInterval
  <2>1. Contains(p, a) <=> Value(a) \in Span(p)
    BY <1>1, PrefixIs, ContainsIsMembership DEF HeldInv
  <2>2. PrefixMatches(p, a) <=> Value(a) \in Span(p)
    BY <1>1, PrefixIs, MatchIsMembership DEF HeldInv, IsPrefix, IsEntry
  <2>3. Value(First(p)) .. Value(Last(p)) = Span(p)
    BY <1>1, PrefixIs, EndsOfSpan DEF HeldInv
  <2> QED BY <2>1, <2>2, <2>3 DEF ContainmentIsInterval
<1> QED BY <1>1, HeldAlways, PTL

\* cidr_prefix_overlaps finds every shared address by testing two network
\* addresses, because two prefixes that share one are nested; and the covering
\* one sorts first.
THEOREM OverlapsAreNested == OpsSpec => []OverlapIsNesting
<1>1. ASSUME HeldInv PROVE OverlapIsNesting
  <2>1. Overlaps(p, q) <=> Span(p) \cap Span(q) # {}
    BY <1>1, PrefixIs, OverlapsIsShared DEF HeldInv
  <2>2. ASSUME NEW v \in Span(p) \cap Span(q)
        PROVE  Span(p) \subseteq Span(q) \/ Span(q) \subseteq Span(p)
    <3>1. p.pfxlen \in Int /\ q.pfxlen \in Int
      BY <1>1, PrefixIs, Shape DEF HeldInv, IsPrefix, IsEntry, Pfxlen, MaxPfxlen
    <3>2. CASE p.pfxlen <= q.pfxlen
      BY <1>1, PrefixIs, <3>2, SpansNest DEF HeldInv, IsPrefix
    <3>3. CASE q.pfxlen <= p.pfxlen
      BY <1>1, PrefixIs, <3>3, SpansNest DEF HeldInv, IsPrefix
    <3> QED BY <3>1, <3>2, <3>3
  <2>3. Span(q) \subseteq Span(p) => PrefixCmp(p, q) \in {-1, 0}
    BY <1>1, PrefixIs, CoveringSortsFirst DEF HeldInv
  <2> QED BY <2>1, <2>2, <2>3 DEF OverlapIsNesting
<1> QED BY <1>1, HeldAlways, PTL

\* prefixes_are_siblings holds of two different prefixes exactly when they are
\* the halves of one parent.
THEOREM SiblingsAreExact == OpsSpec => []SiblingsFillParent
<1>1. ASSUME HeldInv PROVE SiblingsFillParent
  <2> SUFFICES ASSUME p # q
               PROVE  AreSiblings(p, q) <=> /\ p.pfxlen > 0
                                            /\ q.pfxlen > 0
                                            /\ Span(p) \cap Span(q) = {}
                                            /\ Span(Supernet(p)) = Span(p) \cup Span(q)
    BY DEF SiblingsFillParent
  <2>1. ASSUME AreSiblings(p, q), p.addr # q.addr
        PROVE  /\ p.pfxlen > 0 /\ q.pfxlen > 0
               /\ Span(p) \cap Span(q) = {}
               /\ Span(Supernet(p)) = Span(p) \cup Span(q)
    BY <1>1, PrefixIs, <2>1, SiblingsAreHalves DEF HeldInv, AreSiblings
  <2>2. ASSUME p.pfxlen > 0, Span(p) \cap Span(q) = {},
               Span(Supernet(p)) = Span(p) \cup Span(q)
        PROVE  AreSiblings(p, q)
    BY <1>1, PrefixIs, <2>2, HalvesAreSiblings DEF HeldInv
  <2>3. p.addr = q.addr => p.pfxlen # q.pfxlen
    BY <1>1, PrefixIs DEF HeldInv
  <2> QED BY <2>1, <2>2, <2>3 DEF AreSiblings
<1> QED BY <1>1, HeldAlways, PTL

\* addr_big_endian_inc adds 2^bit modulo the address space, whatever byte it
\* starts in and however far the carry runs.
THEOREM IncIsExact == OpsSpec => []IncIsAddition
<1>1. HeldInv => IncIsAddition
  BY IncAdds DEF HeldInv, IncIsAddition
<1> QED BY <1>1, HeldAlways, PTL

----------------------------------------------------------------------------
(* The subnet iterator.  `Step` addresses make a subnet; the first address  *)
(* after the parent may be 2^KeyBits, which no address represents.          *)

Step == Size(target)
Lowest == Value(parent.addr)

\* The parent is a whole number of subnets, and ends inside the space.
LEMMA SubnetsFill ==
  ASSUME parent \in Prefix, target \in Pfxlen, parent.pfxlen < target
  PROVE  /\ Subnets \in Nat \ {0} /\ Step \in Nat \ {0} /\ Lowest \in Nat
         /\ Subnets * Step = Size(parent.pfxlen)
         /\ Lowest + Subnets * Step <= 2^KeyBits
         /\ Span(parent) = Lowest .. Lowest + Subnets * Step - 1
         /\ \E b \in Nat : Lowest = Step * b
         /\ parent.pfxlen = 0 => Lowest = 0 /\ Subnets * Step = 2^KeyBits
<1>1. IsPrefix(parent) /\ parent.pfxlen \in Pfxlen
  BY PrefixIs DEF IsPrefix, IsEntry
<1>2. /\ Subnets \in Nat \ {0}
      /\ Size(parent.pfxlen) = Subnets * Step
      /\ parent.pfxlen \in Int /\ target \in Int
  BY <1>1, SizeOfShorter, Shape DEF Subnets, Step, Pfxlen, MaxPfxlen
<1>3. /\ Lowest = Size(parent.pfxlen) * BlockOf(Lowest, parent.pfxlen)
      /\ Span(parent) = Lowest .. Lowest + Size(parent.pfxlen) - 1
      /\ Lowest \in Nat /\ Size(parent.pfxlen) \in Nat \ {0}
  BY <1>1, SpanOfPrefix DEF Lowest
<1>4. Step \in Nat \ {0}
  BY Sizes DEF Step
<1>5. Lowest + Size(parent.pfxlen) <= 2^KeyBits
  <2>1. /\ FillHost(parent.addr, parent.pfxlen) \in Address
        /\ Value(FillHost(parent.addr, parent.pfxlen)) = Lowest + Size(parent.pfxlen) - 1
    BY <1>1, <1>3, FilledAddress DEF IsPrefix, IsEntry, Lowest
  <2> QED BY <2>1, <1>3, ValueInSpace
<1>6. \E b \in Nat : Lowest = Step * b
  <2>1. PICK c : c = BlockOf(Lowest, parent.pfxlen)
    OBVIOUS
  <2>2. c \in Nat
    <3>1. c \in Int
      <4>1. \A v \in Int : BlockOf(v, parent.pfxlen) \in Int
        BY <1>1, Sizes
      <4> QED BY <4>1, <1>3, <2>1
    <3>2. Size(parent.pfxlen) * c >= 0
      BY <1>3, <2>1
    <3> QED BY <3>1, <3>2, <1>3
  <2>3. PICK m : m = Subnets
    OBVIOUS
  <2>4. PICK s : s = Step
    OBVIOUS
  <2>5. Lowest = (m * s) * c
    BY <1>2, <1>3, <2>1, <2>3, <2>4
  <2>6. m \in Nat /\ s \in Nat
    BY <1>2, <1>4, <2>3, <2>4
  <2>7. (m * s) * c = s * (m * c) /\ m * c \in Nat
    BY <2>2, <2>6
  <2> QED BY <2>4, <2>5, <2>7
<1>7. ASSUME parent.pfxlen = 0 PROVE Lowest = 0 /\ Subnets * Step = 2^KeyBits
  <2>1. Size(parent.pfxlen) = 2^KeyBits
    BY <1>7, Shape DEF Size
  <2> QED BY <2>1, <1>2, <1>3, <1>5
<1> QED BY <1>2, <1>3, <1>4, <1>5, <1>6, <1>7

\* A position of the iterator is a block, of the parent's.
LEMMA SubnetIsBlock ==
  ASSUME parent \in Prefix, target \in Pfxlen, parent.pfxlen < target,
         NEW x \in Address, NEW n \in Nat, n < Subnets, Value(x) = Lowest + n * Step
  PROVE  LET s == [addr |-> x, pfxlen |-> target]
         IN  /\ Span(s) = Lowest + n * Step .. Lowest + n * Step + Step - 1
             /\ Span(s) \subseteq Span(parent)
<1> DEFINE s == [addr |-> x, pfxlen |-> target]
<1>1. PICK b \in Nat : Lowest = Step * b
  BY SubnetsFill
<1>2. Step \in Nat \ {0} /\ Lowest \in Nat /\ Subnets \in Nat
  BY SubnetsFill
<1>3. Value(x) = Step * (b + n)
  <2>1. PICK t : t = Step
    OBVIOUS
  <2>2. t \in Nat
    BY <2>1, <1>2
  <2>3. t * b + n * t = t * (b + n)
    BY <2>2
  <2> QED BY <2>1, <2>3, <1>1
<1>4. Value(x) \in Nat
  BY ValueIsNat
<1>5. Value(x) \div Step = b + n
  <2>1. PICK t : t = Step
    OBVIOUS
  <2>2. t \in Nat \ {0}
    BY <2>1, <1>2
  <2>3. (t * (b + n) + 0) \div t = (b + n) + (0 \div t)
    BY <2>2, DivisionOfSum
  <2>4. 0 \div t = 0
    BY <2>2
  <2> QED BY <2>1, <2>2, <2>3, <2>4, <1>3
<1>6. Span(s) = Value(x) .. Value(x) + Step - 1
  <2>1. (Value(x) \div Step) * Step = Value(x)
    BY <1>3, <1>5, <1>2
  <2> QED BY <2>1 DEF Span, Step, Size
<1>7. Span(s) \subseteq Span(parent)
  <2>1. IsEntry(s) /\ IsEntry(parent) /\ parent.pfxlen <= s.pfxlen
    BY PrefixIs, Shape DEF IsPrefix, IsEntry, Pfxlen, MaxPfxlen
  <2>2. Value(x) \in Span(s)
    BY <1>6, <1>4, <1>2
  <2>3. Value(x) \in Span(parent)
    <3>1. PICK t, m, v : t = Step /\ m = Subnets /\ v = n * t
      OBVIOUS
    <3>2. t \in Nat \ {0} /\ m \in Nat /\ n + 1 <= m /\ n \in Nat
      BY <3>1, <1>2
    <3>3. n * t >= 0 /\ (n + 1) * t <= m * t /\ (n + 1) * t = n * t + t
      BY <3>2
    <3> HIDE DEF s
    <3>4. n * t \in Nat /\ m * t \in Nat
      BY <3>2
    <3>5. Span(parent) = Lowest .. Lowest + m * t - 1
      BY SubnetsFill, <3>1
    <3>6. Value(x) = Lowest + n * t
      BY <3>1
    <3> QED BY <3>2, <3>3, <3>4, <3>5, <3>6, <1>2
  <2> HIDE DEF s
  <2> QED BY <2>1, <2>2, <2>3, SpansNest
<1> QED BY <1>6, <1>7

\* The empty sequence of an enumeration that has not begun.
LEMMA NothingYielded ==
  /\ DOMAIN Nothing = {}
  /\ Cardinality(DOMAIN Nothing) = 0
<1>1. DOMAIN Nothing = {}
  BY DEF Nothing
<1> QED BY <1>1, FS_EmptySet

LEMMA ZerosAre == Zeros \in Address /\ Value(Zeros) = 0
<1>1. Zeros \in Address
  BY ByteIsPower, Shape DEF Zeros, Address, Byte
<1>2. Value(Zeros) + 0 = Weight(0) * (LeadingBytes(Zeros)[0] + 0)
  <2>1. \A k \in BytePos : 0 <= k => Zeros[k] = 0 * (ByteSize - 1)
    BY ByteIsPower DEF Zeros
  <2> QED BY <1>1, <2>1, TailsEqual, Shape
<1>3. LeadingBytes(Zeros)[0] = 0 /\ Weight(0) \in Nat
  BY <1>1, LeadingBytesAre, Weights, Shape
<1> QED BY <1>1, <1>2, <1>3, ValueIsNat

LEMMA IterInit == Init => IterInv
<1> SUFFICES ASSUME Init PROVE IterInv
  OBVIOUS
<1>1. 0 \in Pfxlen /\ 2^KeyBits \in Nat
  BY Shape, PowerIsPositive DEF Pfxlen, MaxPfxlen
<1>2. parent \in Prefix
  BY <1>1, ZerosAre, ConstructorReturns DEF Init
<1>3. Yielded = 0 /\ DOMAIN yielded = {}
  BY NothingYielded DEF Init, Yielded
<1>4. yielded = [k \in 0 .. Yielded - 1 |-> yielded[k]]
  <2>1. 0 .. Yielded - 1 = {}
    BY <1>3
  <2>2. yielded = [k \in {} |-> yielded[k]]
    BY DEF Init, Nothing
  <2> QED BY <2>1, <2>2
<1>5. IterTypeOK
  <2>1. limit \in [addr : Address, pfxlen : Pfxlen]
    BY <1>2 DEF Init, Prefix
  <2> QED BY <1>1, <1>2, <1>3, <1>4, <2>1, ZerosAre DEF Init, IterTypeOK
<1>6. InOrder
  BY <1>3 DEF InOrder
<1> QED BY <1>1, <1>3, <1>5, <1>6 DEF IterInv, Init

\* Where the enumeration stands: its position and the next one, both within
\* the parent or at its end.
LEMMA PositionIs ==
  ASSUME IterInv, phase = "loop", ~done
  PROVE  /\ Yielded \in Nat /\ Yielded + 1 <= Subnets
         /\ Value(current) = Lowest + Yielded * Step
         /\ Lowest + (Yielded + 1) * Step = Value(current) + Step
         /\ (Yielded + 1) * Step <= Subnets * Step
         /\ (Yielded + 1) * Step = Subnets * Step <=> Yielded + 1 = Subnets
         /\ (Yielded + 1) * Step \in Nat \ {0} /\ Subnets * Step \in Nat
<1>1. parent \in Prefix /\ target \in Pfxlen /\ parent.pfxlen < target
  BY DEF IterInv, IterTypeOK
<1>2. Subnets \in Nat \ {0} /\ Step \in Nat \ {0} /\ Lowest \in Nat
  BY <1>1, SubnetsFill
<1>3. Yielded \in Nat /\ Yielded < Subnets /\ Value(current) = Lowest + Yielded * Step
  <2>1. 2^KeyBits \in Nat
    BY PowerIsPositive, Shape
  <2> QED BY <2>1 DEF IterInv, Lowest, Step, Size
<1>4. PICK n, s, m : n = Yielded /\ s = Step /\ m = Subnets
  OBVIOUS
<1>5. n \in Nat /\ s \in Nat \ {0} /\ m \in Nat /\ n + 1 <= m
  BY <1>2, <1>3, <1>4
<1>6. /\ (n + 1) * s = n * s + s
      /\ (n + 1) * s <= m * s
      /\ (n + 1) * s = m * s <=> n + 1 = m
      /\ (n + 1) * s \in Nat \ {0} /\ n * s \in Nat /\ m * s \in Nat
  <2>1. (n + 1) * s = n * s + s /\ n * s \in Nat /\ m * s \in Nat
    BY <1>5
  <2>2. n * s >= 0
    BY <2>1
  <2>3. PICK d \in Nat : m = n + 1 + d
    <3>1. m - (n + 1) \in Nat /\ m = n + 1 + (m - (n + 1))
      BY <1>5
    <3> QED BY <3>1
  <2>4. m * s = (n + 1) * s + d * s /\ d * s \in Nat /\ (d * s = 0 <=> d = 0)
    BY <1>5, <2>3
  <2> QED BY <1>5, <2>1, <2>2, <2>3, <2>4
<1> QED BY <1>2, <1>3, <1>4, <1>5, <1>6

LEMMA AdvanceIs ==
  ASSUME IterInv, phase = "loop", ~done, NEW x, x = BigEndianInc(current, KeyBits - target)
  PROVE  /\ x \in Address
         /\ ~Exhausted(x) => /\ Yielded + 1 < Subnets
                             /\ Value(x) = Lowest + (Yielded + 1) * Step
         /\ Exhausted(x) /\ EndRepresentable => Yielded + 1 = Subnets
<1>1. /\ parent \in Prefix /\ target \in Pfxlen /\ parent.pfxlen < target
      /\ IsPrefix(parent) /\ current \in Address
      /\ limit.addr = BigEndianInc(parent.addr, KeyBits - parent.pfxlen)
      /\ limit.pfxlen = parent.pfxlen
  BY PrefixIs DEF IterInv, IterTypeOK
<1>2. parent.pfxlen \in 0 .. KeyBits /\ target \in 1 .. KeyBits /\ KeyBits \in Nat
  BY <1>1, Shape DEF IsPrefix, IsEntry, Pfxlen, MaxPfxlen
<1>3. PICK w, n, m, l : /\ w = 2^KeyBits /\ n = (Yielded + 1) * Step
                        /\ m = Subnets * Step /\ l = Lowest
  OBVIOUS
<1>4. /\ w \in Nat \ {0} /\ n \in Nat \ {0} /\ m \in Nat /\ l \in Nat
      /\ n <= m /\ l + m <= w
      /\ n = m <=> Yielded + 1 = Subnets
      /\ Yielded + 1 <= Subnets /\ Yielded \in Nat /\ Subnets \in Nat
  BY <1>1, <1>2, <1>3, PowerIsPositive, PositionIs, SubnetsFill
<1>5. x \in Address /\ Value(x) = (l + n) % w
  <2>1. KeyBits - target \in 0 .. KeyBits - 1
    BY <1>2
  <2>2. x \in Address /\ Value(x) = (Value(current) + 2^(KeyBits - target)) % 2^KeyBits
    BY <1>1, <2>1, IncAdds
  <2>3. 2^(KeyBits - target) = Step
    BY DEF Step, Size
  <2> QED BY <1>3, <2>2, <2>3, PositionIs
<1>6. l + n < w => Value(x) = l + n
  BY <1>4, <1>5
<1>7. l + n = w => Value(x) = 0
  BY <1>4, <1>5
<1>8. CASE parent.pfxlen = 0
  <2>1. l = 0 /\ m = w
    BY <1>1, <1>3, <1>8, SubnetsFill
  <2>2. limit.addr = parent.addr /\ parent.addr \in Address /\ Value(parent.addr) = 0
    <3>1. limit.addr = parent.addr
      BY <1>1, <1>2, <1>8 DEF BigEndianInc
    <3> QED BY <3>1, <2>1, <1>1, <1>3 DEF Lowest, IsPrefix, IsEntry
  <2>3. Exhausted(x) <=> Value(x) = 0
    BY <1>1, <1>5, <1>8, <2>2, ValueIsInjective DEF Exhausted
  <2> QED BY <1>3, <1>4, <1>5, <1>6, <1>7, <2>1, <2>3
<1>9. CASE parent.pfxlen > 0
  <2>1. limit.addr \in Address /\ Value(limit.addr) = (l + m) % w
    <3>1. KeyBits - parent.pfxlen \in 0 .. KeyBits - 1
      BY <1>2, <1>9
    <3>2. /\ limit.addr \in Address
          /\ Value(limit.addr) = (Value(parent.addr) + 2^(KeyBits - parent.pfxlen)) % 2^KeyBits
      BY <1>1, <3>1, IncAdds DEF IsPrefix, IsEntry
    <3>3. 2^(KeyBits - parent.pfxlen) = m /\ Value(parent.addr) = l
      BY <1>1, <1>3, SubnetsFill DEF Size, Lowest
    <3> QED BY <1>3, <3>2, <3>3
  <2>2. Exhausted(x) <=> ~(Value(x) < Value(limit.addr))
    BY <1>1, <1>5, <1>9, <2>1, LessIsLess, <1>2 DEF Exhausted
  <2>3. CASE l + m < w
    <3>1. Value(limit.addr) = l + m
      BY <1>4, <2>1, <2>3
    <3>2. Value(x) = l + n
      BY <1>4, <1>6, <2>3
    <3> QED BY <1>3, <1>4, <1>5, <2>2, <3>1, <3>2
  <2>4. CASE l + m = w
    <3>1. Value(limit.addr) = 0
      BY <1>4, <2>1, <2>4
    <3>2. limit.addr = Zeros
      BY <2>1, <3>1, ZerosAre, ValueIsInjective
    <3>3. ~EndRepresentable
      BY <1>9, <3>2, <1>2 DEF EndRepresentable
    <3>4. Exhausted(x)
      BY <1>5, <2>2, <3>1, ValueIsNat
    <3> QED BY <1>5, <3>3, <3>4
  <2> QED BY <1>4, <2>3, <2>4
<1> QED BY <1>2, <1>8, <1>9

LEMMA BeginKeeps ==
  ASSUME IterInv, NEW pr \in Parents, NEW n \in Requests, Begin(pr, n)
  PROVE  IterInv'
<1>1. /\ pr \in Prefix /\ IsPrefix(pr) /\ parent' = pr
      /\ target' \in Nat /\ pr.pfxlen < target' /\ target' \in Pfxlen
  <2>1. Cast(n) \in Nat
    <3>1. CastSize \in Nat \ {0} /\ n \in Int
      BY IterAssumption, Shape DEF MaxPfxlen
    <3> QED BY <3>1 DEF Cast
  <2>2. pr \in Prefix /\ IsPrefix(pr)
    BY IterAssumption, PrefixIs
  <2> QED BY <2>1, <2>2, Shape DEF Begin, InRange, IsPrefix, IsEntry, Pfxlen, MaxPfxlen
<1>2. Yielded' = 0 /\ DOMAIN yielded' = {}
  BY NothingYielded DEF Begin, Yielded
<1>3. limit'.addr \in Address
  <2>1. CASE pr.pfxlen = 0
    BY <1>1, <2>1, Shape DEF Begin, BigEndianInc, IsPrefix, IsEntry
  <2>2. CASE pr.pfxlen > 0
    <3>1. KeyBits - pr.pfxlen \in 0 .. KeyBits - 1
      BY <1>1, <2>2, Shape DEF IsPrefix, IsEntry, Pfxlen, MaxPfxlen
    <3> QED BY <1>1, <3>1, IncAdds DEF Begin, IsPrefix, IsEntry
  <2> QED BY <1>1, <2>1, <2>2, Shape DEF IsPrefix, IsEntry, Pfxlen, MaxPfxlen
<1>4. yielded' = [k \in 0 .. Yielded' - 1 |-> yielded'[k]]
  <2>1. 0 .. Yielded' - 1 = {}
    BY <1>2
  <2>2. yielded' = [k \in {} |-> yielded'[k]]
    BY DEF Begin, Nothing
  <2> QED BY <2>1, <2>2
<1>5. IterTypeOK'
  <2>1. /\ current' \in Address /\ limit'.pfxlen \in Pfxlen
        /\ limit' = [addr |-> limit'.addr, pfxlen |-> limit'.pfxlen]
    BY <1>1 DEF Begin, IsPrefix, IsEntry
  <2>2. limit' \in [addr : Address, pfxlen : Pfxlen]
    BY <1>3, <2>1
  <2> QED BY <1>1, <1>2, <1>4, <2>1, <2>2 DEF IterTypeOK, Begin
<1>6. InOrder'
  BY <1>2 DEF InOrder
<1>7. 0 < Subnets'
  BY <1>1, SizeOfShorter, Shape DEF Subnets, IsPrefix, IsEntry, Pfxlen, MaxPfxlen
<1>8. Value(current') = Value(parent'.addr) + Yielded' * 2^(KeyBits - target')
  <2>1. Value(pr.addr) \in Nat /\ 2^(KeyBits - target') \in Nat
    BY <1>1, ValueIsNat, Sizes DEF IsPrefix, IsEntry, Size
  <2> QED BY <1>1, <1>2, <2>1 DEF Begin
<1>9. 0 \in 0 .. 2^KeyBits
  BY PowerIsPositive, Shape
<1> QED BY <1>1, <1>2, <1>5, <1>6, <1>7, <1>8, <1>9 DEF IterInv, Begin

LEMMA YieldKeeps ==
  ASSUME IterInv, Yield
  PROVE  IterInv'
<1>1. /\ phase = "loop" /\ ~done /\ phase' = "loop"
      /\ out' = [addr |-> current, pfxlen |-> target]
      /\ limit' = limit /\ target' = target /\ parent' = parent
      /\ current' = BigEndianInc(current, KeyBits - target)
      /\ done' = Exhausted(current') /\ yielded' = Appended(yielded, out')
  BY DEF Yield
<1>2. /\ parent \in Prefix /\ target \in Pfxlen /\ parent.pfxlen < target
      /\ current \in Address /\ limit \in [addr : Address, pfxlen : Pfxlen]
      /\ limit = [addr   |-> BigEndianInc(parent.addr, KeyBits - parent.pfxlen),
                  pfxlen |-> parent.pfxlen]
  BY <1>1 DEF IterInv, IterTypeOK
<1>3. PICK n : n = Yielded
  OBVIOUS
<1>4. n \in Nat /\ n < Subnets /\ n + 1 <= 2^KeyBits /\ Subnets \in Nat /\ 2^KeyBits \in Nat
  <2>1. n \in Nat /\ n + 1 <= Subnets /\ Subnets \in Nat \ {0} /\ Step \in Nat \ {0}
        /\ Lowest + Subnets * Step <= 2^KeyBits /\ Lowest \in Nat
    BY <1>1, <1>2, <1>3, PositionIs, SubnetsFill
  <2>2. 2^KeyBits \in Nat
    BY PowerIsPositive, Shape
  <2>3. PICK m, s : m = Subnets /\ s = Step
    OBVIOUS
  <2>4. m <= m * s /\ m * s \in Nat
    <3>1. m \in Nat /\ s \in Nat \ {0}
      BY <2>1, <2>3
    <3>2. PICK d \in Nat : s = d + 1
      <4>1. s - 1 \in Nat /\ s = (s - 1) + 1
        BY <3>1
      <4> QED BY <4>1
    <3>3. m * s = m * d + m /\ m * d \in Nat
      BY <3>1, <3>2
    <3> QED BY <3>1, <3>3
  <2> QED BY <2>1, <2>2, <2>3, <2>4
<1>5. yielded' = [k \in 0 .. n |-> IF k = n THEN out' ELSE yielded[k]]
  BY <1>1, <1>3, <1>4 DEF Appended, MaxYielded, Yielded
<1>6. DOMAIN yielded = 0 .. n - 1 /\ DOMAIN yielded' = 0 .. n
  BY <1>3, <1>5 DEF IterInv, IterTypeOK
<1>7. Yielded' = n + 1
  BY <1>4, <1>6, FS_Interval DEF Yielded
<1>8. /\ current' \in Address
      /\ ~done' => n + 1 < Subnets /\ Value(current') = Lowest + (n + 1) * Step
      /\ done' /\ EndRepresentable => n + 1 = Subnets
  BY <1>1, <1>3, AdvanceIs
<1>9. IterTypeOK'
  <2>1. yielded' = [k \in 0 .. Yielded' - 1 |-> yielded'[k]]
    <3>1. 0 .. Yielded' - 1 = 0 .. n
      BY <1>4, <1>7
    <3> QED BY <1>5, <3>1
  <2>2. out' \in [addr : Address, pfxlen : Pfxlen]
    BY <1>1, <1>2
  <2>3. \A k \in 0 .. n : yielded'[k] \in [addr : Address, pfxlen : Pfxlen]
    BY <1>4, <1>5, <1>6, <2>2 DEF IterInv, IterTypeOK
  <2>4. done' \in BOOLEAN
    BY <1>1 DEF Exhausted
  <2> QED BY <1>1, <1>2, <1>6, <1>8, <2>1, <2>3, <2>4 DEF IterTypeOK
<1>10. InOrder'
  <2>1. ASSUME NEW k \in 0 .. n
        PROVE  /\ yielded'[k].pfxlen = target
               /\ Value(yielded'[k].addr) = Value(parent.addr) + k * 2^(KeyBits - target)
               /\ Span(yielded'[k]) \subseteq Span(parent)
    <3>1. CASE k = n
      <4>1. yielded'[k] = out'
        BY <1>5, <3>1
      <4>2. Value(current) = Lowest + n * Step
        BY <1>1, <1>3, PositionIs
      <4>3. Span(out') \subseteq Span(parent)
        BY <1>1, <1>2, <1>4, <4>2, SubnetIsBlock
      <4> QED BY <1>1, <3>1, <4>1, <4>2, <4>3 DEF Lowest, Step, Size
    <3>2. CASE k # n
      <4>1. k \in DOMAIN yielded /\ yielded'[k] = yielded[k]
        BY <1>4, <1>5, <1>6, <3>2
      <4> QED BY <4>1 DEF IterInv, InOrder
    <3> QED BY <3>1, <3>2
  <2> QED BY <1>1, <1>6, <2>1 DEF InOrder
<1>11. Subnets' = Subnets /\ EndRepresentable' = EndRepresentable
  BY <1>1 DEF Subnets, EndRepresentable
<1>12. ~done' => Value(current') = Value(parent'.addr) + Yielded' * 2^(KeyBits - target')
  BY <1>1, <1>7, <1>8 DEF Lowest, Step, Size
<1> QED BY <1>1, <1>2, <1>4, <1>7, <1>8, <1>9, <1>10, <1>11, <1>12 DEF IterInv

LEMMA IterStep == IterInv /\ [Next]_vars => IterInv'
<1> SUFFICES ASSUME IterInv, [Next]_vars PROVE IterInv'
  OBVIOUS
<1>1. ASSUME NEW pr \in Parents, NEW n \in Requests, Begin(pr, n) PROVE IterInv'
  BY <1>1, BeginKeeps
<1>2. CASE Yield
  BY <1>2, YieldKeeps
<1>3. ASSUME UNCHANGED <<iterVars, parent, yielded>>, phase' \in {"idle", "refused"}
      PROVE  IterInv'
  BY <1>3 DEF IterInv, IterTypeOK, iterVars, InOrder, Yielded, Subnets, EndRepresentable
<1>4. ASSUME NEW pr \in Parents, NEW n \in Requests, Refuse(pr, n) PROVE IterInv'
  BY <1>3, <1>4 DEF Refuse
<1>5. CASE Stop
  BY <1>5 DEF Stop, IterInv, IterTypeOK, iterVars, InOrder, Yielded, Subnets, EndRepresentable
<1>6. CASE Abandon
  BY <1>3, <1>6 DEF Abandon
<1>7. CASE UNCHANGED vars
  BY <1>7 DEF vars, IterInv, IterTypeOK, iterVars, InOrder, Yielded, Subnets, EndRepresentable
<1> QED BY <1>1, <1>2, <1>4, <1>5, <1>6, <1>7 DEF Next

\* The iterator's position is the number of subnets it has returned, and where
\* it says that it is done there is no other, for every parent and length.
THEOREM IterInvariance == Spec => []IterInv
BY IterInit, IterStep, PTL DEF Spec

\* cidr_subnet_iter_next returns the subnets in ascending order without gaps,
\* each in the parent, also where the limit has wrapped to zero.
THEOREM SubnetsAscend == Spec => []InOrder
<1>1. IterInv => InOrder
  BY DEF IterInv
<1> QED BY <1>1, IterInvariance, PTL

\* CIDR_ERR_DONE never comes too early where the address after the parent has a
\* representation, and for the whole address space.
THEOREM SubnetsComplete == Spec => []Complete
<1>1. ASSUME IterInv PROVE Complete
  <2> SUFFICES ASSUME phase = "end", EndRepresentable
               PROVE  SpanOf({yielded[k] : k \in DOMAIN yielded}) = Span(parent)
    BY DEF Complete
  <2>1. /\ parent \in Prefix /\ target \in Pfxlen /\ parent.pfxlen < target
        /\ Yielded = Subnets /\ DOMAIN yielded = 0 .. Subnets - 1
    BY <1>1 DEF IterInv, IterTypeOK
  <2>2. /\ Subnets \in Nat \ {0} /\ Step \in Nat \ {0} /\ Lowest \in Nat
        /\ Span(parent) = Lowest .. Lowest + Subnets * Step - 1
    BY <2>1, SubnetsFill
  <2>3. \A k \in DOMAIN yielded : Span(yielded[k]) \subseteq Span(parent)
    BY <1>1 DEF IterInv, InOrder
  <2>4. ASSUME NEW v \in Span(parent)
        PROVE  \E k \in DOMAIN yielded : v \in Span(yielded[k])
    <3>1. PICK s, m, l : s = Step /\ m = Subnets /\ l = Lowest
      OBVIOUS
    <3>2. /\ s \in Nat \ {0} /\ m \in Nat \ {0} /\ l \in Nat /\ m * s \in Nat
          /\ v \in Int /\ l <= v /\ v < l + m * s
      BY <2>2, <3>1
    <3>3. PICK k : k = (v - l) \div s
      OBVIOUS
    <3>4. k \in Int /\ s * k <= v - l /\ v - l < s * k + s
      BY <3>2, <3>3, DivisionIs
    <3>5. k \in 0 .. m - 1
      <4>1. k >= 0
        <5>1. k < 0 => s * k + s <= 0
          <6> SUFFICES ASSUME k < 0 PROVE s * k + s <= 0
            OBVIOUS
          <6>1. PICK d \in Nat : k = -(d + 1)
            <7>1. -k - 1 \in Nat /\ k = -((-k - 1) + 1)
              BY <3>4
            <7> QED BY <7>1
          <6>2. s * k + s = -(s * d) /\ s * d \in Nat
            BY <3>2, <6>1
          <6> QED BY <6>2
        <5>2. s * k \in Int
          BY <3>2, <3>4
        <5> QED BY <3>2, <3>4, <5>1, <5>2
      <4>2. k < m
        <5>1. k >= m => s * k >= m * s
          <6> SUFFICES ASSUME k >= m PROVE s * k >= m * s
            OBVIOUS
          <6>1. PICK d \in Nat : k = m + d
            <7>1. k - m \in Nat /\ k = m + (k - m)
              BY <3>2, <3>4
            <7> QED BY <7>1
          <6>2. s * k = m * s + s * d /\ s * d \in Nat
            BY <3>2, <6>1
          <6> QED BY <3>2, <6>2
        <5>2. s * k \in Int
          BY <3>2, <3>4
        <5> QED BY <3>2, <3>4, <5>1, <5>2
      <4> QED BY <3>2, <3>4, <4>1, <4>2
    <3>6. k \in DOMAIN yielded
      BY <2>1, <3>1, <3>5
    <3>7. /\ yielded[k] \in [addr : Address, pfxlen : Pfxlen]
          /\ yielded[k].pfxlen = target
          /\ Value(yielded[k].addr) = l + k * s
      BY <1>1, <3>1, <3>6 DEF IterInv, IterTypeOK, InOrder, Lowest, Step, Size
    <3>8. PICK x \in Address : yielded[k] = [addr |-> x, pfxlen |-> target]
      BY <3>7
    <3>9. Span(yielded[k]) = l + k * s .. l + k * s + s - 1
      <4>1. k \in Nat /\ k < Subnets /\ Value(x) = Lowest + k * Step
        BY <2>2, <3>1, <3>2, <3>5, <3>7, <3>8
      <4> QED BY <2>1, <3>1, <3>8, <4>1, SubnetIsBlock
    <3>10. v \in l + k * s .. l + k * s + s - 1
      <4>1. s * k = k * s /\ k * s \in Int
        BY <3>2, <3>4
      <4> QED BY <3>2, <3>4, <4>1
    <3> QED BY <3>6, <3>9, <3>10
  <2> QED BY <2>3, <2>4 DEF SpanOf
<1> QED BY <1>1, IterInvariance, PTL
=============================================================================
