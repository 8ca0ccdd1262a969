----------------------------- MODULE RadixProofs -----------------------------
(***************************************************************************)
(* The radix sort, for arrays and bytes of any size: the counting argument *)
(* behind the SAFETY comment of radix_sort_segment, what every step of the *)
(* sort preserves, and that what its open calls leave apart is in order.   *)
(* Nothing here knows which caller the sort works for.                     *)
(***************************************************************************)
EXTENDS PrefixArray, SpanProofs, FunctionTheorems

\* The engine's constants, with the size of a byte.
LEMMA EngineShape ==
  TagLen \in Nat \ {0} /\ KeyBits < ByteSize /\ ByteSize \in Nat
BY EngineAssumption, ByteIsPower

\* The weights of the bytes of a tag are the powers of the size of a byte.
LEMMA WeightOfByte ==
  ASSUME NEW n \in Nat
  PROVE  /\ TagWeight(n) \in Nat \ {0}
         /\ TagWeight(n + 1) = ByteSize * TagWeight(n)
<1>1. ByteBits \in Nat
  BY ShapeAssumption
<1>2. ByteBits * n \in Nat /\ ByteBits * (n + 1) = ByteBits + ByteBits * n
  BY <1>1
<1>3. 2^(ByteBits + ByteBits * n) = 2^ByteBits * 2^(ByteBits * n)
  <2> DEFINE m == ByteBits * n
  <2>1. m \in Nat
    BY <1>2
  <2> HIDE DEF m
  <2>2. 2^(ByteBits + m) = 2^ByteBits * 2^m
    BY <1>1, <2>1, PowersAdd
  <2> QED BY <2>2 DEF m
<1> QED BY <1>2, <1>3, PowersOfTwo DEF TagWeight, ByteSize

LEMMA TagWeights ==
  /\ TagWeight(0) = 1
  /\ ByteSize \in Nat \ {0}
  /\ \A n \in 0 .. TagLen : TagWeight(n) \in Nat \ {0}
  /\ \A n \in 0 .. TagLen - 1 : TagWeight(n + 1) = ByteSize * TagWeight(n)
<1>1. ByteBits * 0 = 0
  BY ShapeAssumption
<1>2. \A n \in 0 .. TagLen : n \in Nat
  BY EngineShape
<1>3. \A n \in 0 .. TagLen - 1 : n \in Nat
  BY EngineShape
<1> QED BY <1>1, <1>2, <1>3, WeightOfByte, ByteIsPower, PowersOfTwo DEF TagWeight

\* The positions of an array are 0 .. n-1 for a natural number n.
LEMMA Positions ==
  ASSUME IsPrefixArray(input)
  PROVE  /\ Cardinality(DOMAIN input) \in Nat
         /\ DOMAIN input = 0 .. Cardinality(DOMAIN input) - 1
<1>1. Cardinality(DOMAIN input) \in Nat
  BY FS_CardinalityType DEF IsPrefixArray
<1>2. DOMAIN input = 0 .. Cardinality(DOMAIN input) - 1
  BY DEF IsPrefixArray
<1> QED BY <1>1, <1>2

\* radix_key_byte and radix_u32_byte return a byte, at every key position.
LEMMA KeyByteIsByte ==
  ASSUME IsPrefixArray(input), NEW c \in Cell, NEW key \in Keys,
         NEW pos \in 0 .. KeyLen(key) - 1
  PROVE  KeyByte(c, pos, key) \in Byte
<1>1. KeyLen(key) \in Int /\ pos \in Nat /\ pos < KeyLen(key)
  BY ShapeAssumption, EngineShape DEF KeyLen
<1>2. /\ c.addr \in [BytePos -> Byte]
      /\ c.pfxlen \in 0 .. KeyBits
      /\ c.fam \in Nat
  BY Positions DEF Cell, Address, Pfxlen, MaxPfxlen, Family, Unspec, Inet, Inet6
<1>3. AddrLen \in Nat /\ TagLen \in Nat
  BY ShapeAssumption, EngineShape
<1>4. KeyBits \in Int /\ ByteSize \in Nat /\ KeyBits < ByteSize
  BY ShapeAssumption, EngineShape DEF KeyBits
<1>5. c.pfxlen \in Byte /\ ByteSize - 1 - c.pfxlen \in Byte
  BY <1>2, <1>4 DEF Byte
<1>6. CASE key = "ASC"
  <2>1. pos \in BytePos \/ ~(pos < AddrLen)
    BY <1>1, <1>3 DEF BytePos
  <2>2. AscByte(c, pos) \in Byte
    BY <1>2, <1>5, <2>1 DEF AscByte
  <2> QED BY <1>6, <2>2 DEF KeyByte
<1>7. CASE key = "DESC"
  <2>1. pos = 0 \/ pos - 1 \in BytePos
    BY <1>1, <1>3, <1>7 DEF BytePos, KeyLen
  <2>2. DescByte(c, pos) \in Byte
    BY <1>2, <1>5, <2>1 DEF DescByte
  <2> QED BY <1>7, <2>2 DEF KeyByte
<1>8. CASE key = "tag"
  <2> DEFINE e == TagLen - 1 - pos
             weight == TagWeight(e)
  <2>1. e \in 0 .. TagLen - 1
    BY <1>1, <1>3, <1>8 DEF KeyLen
  <2>2. weight \in Nat \ {0}
    BY <2>1, EngineShape, TagWeights
  <2>3. ByteSize \in Nat \ {0}
    BY <1>2, <1>4
  <2> HIDE DEF weight, e
  <2>4. c.fam \div weight \in Nat
    BY <1>2, <2>2
  <2>5. (c.fam \div weight) % ByteSize \in 0 .. ByteSize - 1
    BY <2>3, <2>4
  <2>6. TagByte(c, pos) = (c.fam \div weight) % ByteSize
    BY DEF TagByte, weight, e
  <2> QED BY <1>8, <2>5, <2>6 DEF KeyByte, Byte
<1> QED BY <1>6, <1>7, <1>8 DEF Keys

\* So is the digit of a frame that has something to sort.
LEMMA DigitIsByte ==
  ASSUME IsPrefixArray(input), NEW c \in Cell, NEW f \in FrameType, ~IsTrivial(f)
  PROVE  Digit(c, f) \in Byte
<1>1. f.pos \in Nat /\ f.key \in Keys
  BY DEF FrameType
<1>2. KeyLen(f.key) \in Int
  BY ShapeAssumption, EngineShape DEF KeyLen
<1>3. f.pos \in 0 .. KeyLen(f.key) - 1
  BY <1>1, <1>2 DEF IsTrivial
<1> QED BY <1>1, <1>3, KeyByteIsByte DEF Digit

----------------------------------------------------------------------------
(* Counting digits.  A is any array that covers the slots of the frame f.  *)

\* A frame has as many slots as its bounds say.
LEMMA SlotsAreFinite ==
  ASSUME NEW f, f.lo \in Int, f.hi \in Int
  PROVE  /\ IsFiniteSet(Slots(f))
         /\ f.lo <= f.hi => Cardinality(Slots(f)) = f.hi - f.lo
<1>1. f.hi - 1 \in Int
  OBVIOUS
<1>2. /\ IsFiniteSet(f.lo .. f.hi - 1)
      /\ Cardinality(f.lo .. f.hi - 1) =
           IF f.lo > f.hi - 1 THEN 0 ELSE (f.hi - 1) - f.lo + 1
  BY <1>1, FS_Interval
<1> QED BY <1>2 DEF Slots

\* A bucket begins inside the range of its frame.
LEMMA BucketStartInFrame ==
  ASSUME NEW A, NEW f, f.lo \in Nat, f.hi \in Nat, f.lo <= f.hi, NEW d
  PROVE  BucketStart(A, f, d) \in f.lo .. f.hi
<1> DEFINE S == Slots(f)
           T == {k \in S : Digit(A[k], f) < d}
<1>1. IsFiniteSet(S) /\ Cardinality(S) = f.hi - f.lo
  BY SlotsAreFinite
<1> HIDE DEF S
<1>2. IsFiniteSet(T) /\ Cardinality(T) <= Cardinality(S)
  BY <1>1, FS_Subset
<1>3. Cardinality(T) \in Nat
  BY <1>2, FS_CardinalityType
<1>4. BucketStart(A, f, d) = f.lo + Cardinality(T)
  BY DEF BucketStart, S
<1> HIDE DEF T
<1> QED BY <1>1, <1>2, <1>3, <1>4

\* The items of one digit are as many as its bucket has slots.
LEMMA BucketWidth ==
  ASSUME NEW A, NEW f, f.lo \in Nat, f.hi \in Nat, f.lo <= f.hi,
         \A k \in Slots(f) : Digit(A[k], f) \in Byte,
         NEW d \in Byte
  PROVE  LET E   == {k \in Slots(f) : Digit(A[k], f) = d}
             end == IF d < ByteSize - 1 THEN BucketStart(A, f, d + 1) ELSE f.hi
         IN  /\ IsFiniteSet(E)
             /\ BucketStart(A, f, d) + Cardinality(E) = end
<1> DEFINE S == Slots(f)
           L == {k \in S : Digit(A[k], f) < d}
           E == {k \in S : Digit(A[k], f) = d}
           M == {k \in S : Digit(A[k], f) < d + 1}
           end == IF d < ByteSize - 1 THEN BucketStart(A, f, d + 1) ELSE f.hi
<1>1. IsFiniteSet(S) /\ Cardinality(S) = f.hi - f.lo
  BY SlotsAreFinite
<1>2. ByteSize \in Nat /\ d \in Int
  BY EngineShape DEF Byte
<1>3. \A k \in S : Digit(A[k], f) \in Int /\ Digit(A[k], f) <= ByteSize - 1
  BY <1>2 DEF Byte
<1> HIDE DEF S
<1>4. IsFiniteSet(L) /\ IsFiniteSet(E) /\ IsFiniteSet(L \cup E)
  <2>1. L \in SUBSET S /\ E \in SUBSET S /\ L \cup E \in SUBSET S
    OBVIOUS
  <2> HIDE DEF L, E
  <2> QED BY <1>1, <2>1, FS_Subset
<1>5. L \cap E = {} /\ L \cup E = M
  BY <1>2, <1>3
<1>6. Cardinality(M) = Cardinality(L) + Cardinality(E)
  <2> HIDE DEF L, E, M
  <2>1. Cardinality(L \cup E) = Cardinality(L) + Cardinality(E) - Cardinality(L \cap E)
    BY <1>4, FS_Union
  <2>2. /\ Cardinality(L) \in Nat
        /\ Cardinality(E) \in Nat
        /\ Cardinality({}) = 0
    BY <1>4, FS_CardinalityType, FS_EmptySet
  <2> QED BY <1>5, <2>1, <2>2
<1>7. BucketStart(A, f, d) = f.lo + Cardinality(L)
  BY DEF BucketStart, S
<1>8. end = f.lo + Cardinality(M)
  <2>1. CASE d < ByteSize - 1
    BY <2>1 DEF BucketStart, S
  <2>2. CASE ~(d < ByteSize - 1)
    <3>1. M = S
      BY <1>2, <1>3, <2>2 DEF Byte
    <3> HIDE DEF M
    <3> QED BY <1>1, <2>2, <3>1
  <2> QED BY <2>1, <2>2
<1>9. Cardinality(L) \in Nat /\ Cardinality(E) \in Nat
  BY <1>4, FS_CardinalityType
<1>10. BucketStart(A, f, d) + Cardinality(E) = end
  <2> HIDE DEF L, E, M, end
  <2> QED BY <1>6, <1>7, <1>8, <1>9
<1> QED BY <1>4, <1>10 DEF S

\* Buckets of larger digits begin no earlier.
LEMMA BucketsAscend ==
  ASSUME NEW A, NEW f, f.lo \in Nat, f.hi \in Nat,
         \A k \in Slots(f) : Digit(A[k], f) \in Byte,
         NEW d \in Int, NEW e \in Int, d <= e
  PROVE  BucketStart(A, f, d) <= BucketStart(A, f, e)
<1> DEFINE S == Slots(f)
           T(x) == {k \in S : Digit(A[k], f) < x}
<1>1. IsFiniteSet(S)
  BY SlotsAreFinite
<1>2. \A k \in S : Digit(A[k], f) \in Int
  BY EngineShape DEF Byte
<1> HIDE DEF S
<1>3. T(d) \in SUBSET T(e) /\ T(e) \in SUBSET S
  BY <1>2
<1>4. IsFiniteSet(T(e))
  BY <1>1, <1>3, FS_Subset
<1>5. IsFiniteSet(T(d)) /\ Cardinality(T(d)) <= Cardinality(T(e))
  BY <1>3, <1>4, FS_Subset
<1>6. Cardinality(T(d)) \in Nat /\ Cardinality(T(e)) \in Nat
  BY <1>4, <1>5, FS_CardinalityType
<1>7. /\ BucketStart(A, f, d) = f.lo + Cardinality(T(d))
      /\ BucketStart(A, f, e) = f.lo + Cardinality(T(e))
  BY DEF BucketStart, S
<1> HIDE DEF T
<1> QED BY <1>5, <1>6, <1>7

\* Exchanging two items of a frame moves no bucket boundary.
LEMMA SwapKeepsBuckets ==
  ASSUME NEW A, NEW f, f.lo \in Int, f.hi \in Int,
         Slots(f) \subseteq DOMAIN A,
         NEW x \in Slots(f), NEW y \in Slots(f), NEW d
  PROVE  BucketStart(Swapped(A, x, y), f, d) = BucketStart(A, f, d)
<1> DEFINE S == Slots(f)
           B == Swapped(A, x, y)
           T == {k \in S : Digit(A[k], f) < d}
           U == {k \in S : Digit(B[k], f) < d}
           other(k) == IF k = x THEN y ELSE IF k = y THEN x ELSE k
           g == [k \in T |-> other(k)]
<1>1. IsFiniteSet(T)
  <2>1. IsFiniteSet(S)
    BY SlotsAreFinite
  <2>2. T \in SUBSET S
    OBVIOUS
  <2> HIDE DEF T
  <2> QED BY <2>1, <2>2, FS_Subset
<1>2. \A k \in S : B[k] = A[other(k)]
  BY DEF Swapped
<1>3. \A k \in S : other(k) \in S /\ other(other(k)) = k
  OBVIOUS
<1> HIDE DEF S, B
<1>4. \A k \in S : other(k) \in U <=> k \in T
  BY <1>2, <1>3
<1>5. g \in Bijection(T, U)
  <2>1. g \in [T -> U]
    BY <1>4
  <2>2. \A a, b \in T : g[a] = g[b] => a = b
    BY <1>3
  <2>3. \A u \in U : \E t \in T : g[t] = u
    <3> TAKE u \in U
    <3>1. other(u) \in T /\ g[other(u)] = u
      BY <1>3, <1>4
    <3> QED BY <3>1
  <2> HIDE DEF g
  <2> QED BY <2>1, <2>2, <2>3, Fun_IsBij
<1>6. Cardinality(T) = Cardinality(U)
  <2> HIDE DEF g, T, U
  <2> QED BY <1>1, <1>5, FS_Bijection DEF ExistsBijection
<1> QED BY <1>6 DEF BucketStart, S, B, T, U
----------------------------------------------------------------------------
(* The partition never writes outside a bucket.                            *)

\* What the types and the partition invariant say of a running frame.
LEMMA RunningFrame ==
  ASSUME EngineTypeOK, PartitionInv, busy
  PROVE  /\ seg \in FrameType
         /\ seg.lo \in Nat /\ seg.hi \in Nat /\ seg.lo < seg.hi
         /\ Slots(seg) \subseteq DOMAIN input
         /\ \A k \in DOMAIN input : Digit(arr[k], seg) \in Byte
<1>1. IsPrefixArray(input) /\ seg \in FrameType /\ ~IsTrivial(seg)
  BY DEF EngineTypeOK, PartitionInv
<1>2. /\ seg.lo \in 0 .. Cardinality(DOMAIN input)
      /\ seg.hi \in 0 .. Cardinality(DOMAIN input)
  BY <1>1 DEF FrameType, Bound
<1>3. seg.lo < seg.hi
  BY <1>1, <1>2 DEF IsTrivial
<1>4. Slots(seg) \subseteq DOMAIN input
  BY <1>1, <1>2, Positions DEF Slots
<1>5. \A k \in DOMAIN input : Digit(arr[k], seg) \in Byte
  BY <1>1, DigitIsByte DEF EngineTypeOK
<1> QED BY <1>1, <1>2, <1>3, <1>4, <1>5, Positions

\* Buckets lie in the frame, one after the other.
LEMMA BucketsInFrame ==
  ASSUME EngineTypeOK, PartitionInv, busy, NEW d \in Byte
  PROVE  /\ start[d] \in Int /\ BucketEnd(d) \in Int /\ next[d] \in Int
         /\ seg.lo <= start[d] /\ BucketEnd(d) <= seg.hi
         /\ \A e \in Byte : d < e => BucketEnd(d) <= start[e]
<1>1. /\ seg.lo \in Nat /\ seg.hi \in Nat /\ seg.lo <= seg.hi
      /\ \A k \in Slots(seg) : Digit(arr[k], seg) \in Byte
  BY RunningFrame
<1>2. \A e \in Byte : start[e] = BucketStart(arr, seg, e)
  BY DEF PartitionInv
<1>3. \A e : BucketStart(arr, seg, e) \in seg.lo .. seg.hi
  BY <1>1, BucketStartInFrame
<1>4. ByteSize \in Nat
  BY EngineShape
<1>5. CASE d < ByteSize - 1
  <2>1. d \in Int /\ d + 1 \in Byte /\ BucketEnd(d) = BucketStart(arr, seg, d + 1)
    BY <1>2, <1>4, <1>5 DEF Byte, BucketEnd
  <2>2. \A e \in Byte : d < e => BucketStart(arr, seg, d + 1) <= BucketStart(arr, seg, e)
    <3> SUFFICES ASSUME NEW e \in Byte, d < e
                 PROVE  BucketStart(arr, seg, d + 1) <= BucketStart(arr, seg, e)
      OBVIOUS
    <3>1. d + 1 \in Int /\ e \in Int /\ d + 1 <= e
      BY <1>4, <2>1 DEF Byte
    <3> QED BY <1>1, <3>1, BucketsAscend
  <2> QED BY <1>1, <1>2, <1>3, <2>1, <2>2 DEF EngineTypeOK, Bound
<1>6. CASE ~(d < ByteSize - 1)
  <2>1. BucketEnd(d) = seg.hi /\ \A e \in Byte : ~(d < e)
    BY <1>4, <1>6 DEF Byte, BucketEnd
  <2> QED BY <1>1, <1>2, <1>3, <2>1 DEF EngineTypeOK, Bound
<1> QED BY <1>5, <1>6

\* radix_sort_segment, SAFETY comment: when an item is outside its bucket, the
\* bucket has a free slot.
LEMMA FreeSlot ==
  ASSUME EngineTypeOK, PartitionInv, busy, i < seg.hi,
         ~InBucket(i, Digit(arr[i], seg))
  PROVE  LET d == Digit(arr[i], seg)
         IN  /\ d \in Byte
             /\ i \in Slots(seg)
             /\ next[d] \in Slots(seg)
             /\ start[d] <= next[d] /\ next[d] < BucketEnd(d)
<1> DEFINE d == Digit(arr[i], seg)
           E == {k \in Slots(seg) : Digit(arr[k], seg) = d}
<1>1. i \in Slots(seg) /\ i \in Int
  BY RunningFrame, Positions DEF EngineTypeOK, PartitionInv, Slots, Bound
<1>2. d \in Byte
  BY <1>1, RunningFrame
<1>3. /\ start[d] \in Int /\ BucketEnd(d) \in Int /\ next[d] \in Int
      /\ seg.lo <= start[d] /\ BucketEnd(d) <= seg.hi
  BY <1>2, BucketsInFrame
<1>4. /\ start[d] <= next[d] /\ next[d] <= BucketEnd(d)
      /\ \A k \in start[d] .. next[d] - 1 : Digit(arr[k], seg) = d
  BY <1>2 DEF PartitionInv
<1>5. next[d] # BucketEnd(d)
  <2> SUFFICES ASSUME next[d] = BucketEnd(d)
               PROVE  FALSE
    OBVIOUS
  <2> DEFINE F == start[d] .. BucketEnd(d) - 1
  <2>1. F \subseteq E
    BY <1>3, <1>4, RunningFrame DEF Slots
  <2>2. IsFiniteSet(E) /\ start[d] + Cardinality(E) = BucketEnd(d)
    <3>1. LET G   == {k \in Slots(seg) : Digit(arr[k], seg) = d}
              end == IF d < ByteSize - 1 THEN BucketStart(arr, seg, d + 1) ELSE seg.hi
          IN  IsFiniteSet(G) /\ BucketStart(arr, seg, d) + Cardinality(G) = end
      <4> HIDE DEF d
      <4> QED BY <1>2, RunningFrame, BucketWidth
    <3>2. start[d] = BucketStart(arr, seg, d)
      BY <1>2 DEF PartitionInv
    <3>3. d < ByteSize - 1 => start[d + 1] = BucketStart(arr, seg, d + 1)
      <4>1. d < ByteSize - 1 => d + 1 \in Byte
        BY <1>2, EngineShape DEF Byte
      <4> HIDE DEF d
      <4> QED BY <4>1 DEF PartitionInv
    <3> HIDE DEF d
    <3> QED BY <3>1, <3>2, <3>3 DEF BucketEnd
  <2>3. Cardinality(F) = BucketEnd(d) - start[d]
    <3>1. BucketEnd(d) - 1 \in Int
      BY <1>3
    <3>2. Cardinality(F) = IF start[d] > BucketEnd(d) - 1 THEN 0
                           ELSE (BucketEnd(d) - 1) - start[d] + 1
      BY <1>3, <3>1, FS_Interval
    <3> HIDE DEF d, F
    <3> QED BY <1>3, <1>4, <3>2
  <2>4. Cardinality(E) \in Nat
    BY <2>2, FS_CardinalityType
  <2>5. Cardinality(F) = Cardinality(E)
    <3> HIDE DEF d, E, F
    <3> QED BY <1>3, <2>2, <2>3, <2>4
  <2>6. E = F
    <3> HIDE DEF E, F
    <3> QED BY <2>1, <2>2, <2>5, FS_Subset
  <2>7. i \in F
    BY <1>1, <2>6
  <2> QED BY <1>1, <1>3, <2>7 DEF InBucket
<1>6. next[d] \in Slots(seg)
  <2> HIDE DEF d
  <2> QED BY <1>3, <1>4, <1>5, RunningFrame DEF Slots
<1> QED
  <2> HIDE DEF d
  <2>1. next[d] < BucketEnd(d)
    BY <1>3, <1>4, <1>5
  <2> QED BY <1>1, <1>2, <1>4, <1>6, <2>1 DEF d

\* The invariant makes the swaps safe.
LEMMA PartitionIsSafe ==
  ASSUME EngineTypeOK, PartitionInv
  PROVE  SwapInsideBucket
<1> SUFFICES ASSUME busy, i < seg.hi, ~InBucket(i, Digit(arr[i], seg))
             PROVE  LET d == Digit(arr[i], seg)
                    IN  start[d] <= next[d] /\ next[d] < BucketEnd(d)
  BY DEF SwapInsideBucket
<1> QED BY FreeSlot

----------------------------------------------------------------------------
(* What each step of the sort preserves.                                   *)

\* An early return only forgets a frame.
LEMMA ReturnPreserves ==
  ASSUME EngineTypeOK, PartitionInv, NEW f \in pending, Return(f), input' = input
  PROVE  EngineTypeOK' /\ PartitionInv'
<1>1. EngineTypeOK'
  BY DEF Return, scanVars, EngineTypeOK, IsPrefixArray, Cell, FrameType, Bound
<1>2. ~busy'
  BY DEF Return, scanVars
<1> QED BY <1>1, <1>2 DEF PartitionInv

\* Counting establishes the invariant: no slot is filled yet.
LEMMA EnterPreserves ==
  ASSUME EngineTypeOK, PartitionInv, NEW f \in pending, Enter(f), input' = input
  PROVE  EngineTypeOK' /\ PartitionInv'
<1>1. IsPrefixArray(input) /\ f \in FrameType /\ ~IsTrivial(f)
  BY DEF EngineTypeOK, Enter
<1>2. /\ f.lo \in Nat /\ f.hi \in Nat /\ f.lo <= f.hi
      /\ f.lo \in Bound /\ f.hi \in Bound /\ f.lo .. f.hi \subseteq Bound
  BY <1>1, Positions DEF FrameType, Bound
<1>3. \A k \in Slots(f) : Digit(arr[k], f) \in Byte
  <2>1. Slots(f) \subseteq DOMAIN input
    BY <1>1, <1>2, Positions DEF Slots, Bound
  <2> QED BY <1>1, <2>1, DigitIsByte DEF EngineTypeOK
<1>4. \A d : BucketStart(arr, f, d) \in f.lo .. f.hi
  BY <1>2, BucketStartInFrame
<1>5. EngineTypeOK'
  <2>1. start' \in [Byte -> Bound] /\ next' \in [Byte -> Bound]
    BY <1>2, <1>4 DEF Enter
  <2>2. pending' \subseteq FrameType /\ seg' \in FrameType /\ i' \in Bound
    BY <1>1, <1>2 DEF Enter, EngineTypeOK
  <2>3. busy' \in BOOLEAN /\ arr' = arr
    BY DEF Enter
  <2>4. Bound' = Bound /\ Cell' = Cell /\ FrameType' = FrameType
    BY DEF Bound, Cell, FrameType
  <2> QED BY <1>1, <2>1, <2>2, <2>3, <2>4 DEF EngineTypeOK, IsPrefixArray
<1>6. PartitionInv'
  <2>1. seg' = f /\ i' = f.lo /\ arr' = arr
    BY DEF Enter
  <2>2. \A d \in Byte : start'[d] = BucketStart(arr, f, d) /\ next'[d] = start'[d]
    BY DEF Enter
  <2>3. ASSUME NEW d \in Byte
        PROVE  start'[d] <= BucketEnd(d)' /\ BucketEnd(d)' \in Int
    <3>1. d \in Int /\ d + 1 \in Int /\ d <= d + 1
      BY EngineShape DEF Byte
    <3>2. CASE d < ByteSize - 1
      <4>1. d + 1 \in Byte
        BY <3>2, EngineShape DEF Byte
      <4>2. BucketStart(arr, f, d) <= BucketStart(arr, f, d + 1)
        BY <1>2, <1>3, <3>1, BucketsAscend
      <4> QED BY <1>2, <1>4, <2>1, <2>2, <3>2, <4>1, <4>2 DEF BucketEnd
    <3>3. CASE ~(d < ByteSize - 1)
      BY <1>2, <1>4, <2>1, <2>2, <3>3 DEF BucketEnd
    <3> QED BY <3>2, <3>3
  <2>4. \A d \in Byte : start'[d] \in Int
    BY <1>2, <1>4, <2>2
  <2>5. \A d \in Byte : start'[d] .. next'[d] - 1 = {}
    BY <2>2, <2>4
  <2>6. \A d \in Byte : start'[d] = BucketStart(arr', seg', d)
    BY <2>1, <2>2
  <2> QED BY <1>1, <1>2, <2>1, <2>2, <2>3, <2>4, <2>5, <2>6 DEF PartitionInv
<1> QED BY <1>5, <1>6

\* Looking at the next item changes nothing.
LEMMA AdvancePreserves ==
  ASSUME EngineTypeOK, PartitionInv, Advance, input' = input
  PROVE  EngineTypeOK' /\ PartitionInv'
<1>1. i' = i + 1 /\ i \in Int /\ seg.lo \in Nat /\ seg.hi \in Bound
  BY RunningFrame, Positions DEF Advance, EngineTypeOK, FrameType, Bound
<1>2. i' \in Bound
  BY <1>1, Positions DEF Advance, EngineTypeOK, PartitionInv, Bound
<1>3. EngineTypeOK'
  BY <1>2 DEF Advance, EngineTypeOK, IsPrefixArray, Cell, FrameType, Bound
<1>4. PartitionInv'
  <2>1. seg.lo <= i' /\ i' <= seg.hi
    BY <1>1, Positions DEF Advance, PartitionInv, Bound, EngineTypeOK
  <2> QED BY <2>1 DEF Advance, PartitionInv, BucketEnd
<1> QED BY <1>3, <1>4

\* A swap sends one item home and moves no boundary.
LEMMA SwapOutPreserves ==
  ASSUME EngineTypeOK, PartitionInv, SwapOut, input' = input
  PROVE  EngineTypeOK' /\ PartitionInv'
<1> DEFINE d == Digit(arr[i], seg)
           y == next[d]
<1>1. /\ busy /\ i < seg.hi /\ ~InBucket(i, d)
      /\ arr' = Swapped(arr, i, y)
      /\ next' = [next EXCEPT ![d] = @ + 1]
      /\ UNCHANGED <<pending, busy, seg, start, i>>
  BY DEF SwapOut
<1>2. /\ d \in Byte /\ i \in Slots(seg) /\ y \in Slots(seg)
      /\ start[d] <= y /\ y < BucketEnd(d)
  BY <1>1, FreeSlot
<1>3. /\ i \in DOMAIN input /\ y \in DOMAIN input
      /\ seg.lo \in Nat /\ seg.hi \in Nat
      /\ Slots(seg) \subseteq DOMAIN arr
  BY <1>1, <1>2, RunningFrame DEF EngineTypeOK
<1>4. arr \in [DOMAIN input -> Cell]
  BY DEF EngineTypeOK
<1> HIDE DEF d
<1>5. arr' \in [DOMAIN input -> Cell]
  BY <1>1, <1>3, <1>4 DEF Swapped
<1>6. \A e \in Byte : BucketEnd(e)' = BucketEnd(e)
  BY <1>1 DEF BucketEnd
<1>7. \A e \in Byte : /\ start[e] \in Int /\ next[e] \in Int /\ BucketEnd(e) \in Int
                      /\ seg.lo <= start[e] /\ BucketEnd(e) <= seg.hi
                      /\ start[e] <= next[e] /\ next[e] <= BucketEnd(e)
  BY <1>1, BucketsInFrame, SMTT(30) DEF PartitionInv
<1>8. EngineTypeOK'
  <2>0. y \in DOMAIN input
    BY ONLY <1>3
  <2>1. y + 1 \in Bound
    <3>1. IsPrefixArray(input)
      BY DEF EngineTypeOK
    <3>2. PICK c : c = Cardinality(DOMAIN input)
      OBVIOUS
    <3>3. c \in Nat /\ DOMAIN input = 0 .. c - 1
      BY ONLY <3>1, <3>2, Positions
    <3>4. y + 1 \in 0 .. c
      BY ONLY <2>0, <3>3
    <3> QED BY ONLY <3>2, <3>4 DEF Bound
  <2>2. next' \in [Byte -> Bound]
    BY <1>1, <1>2, <2>1 DEF EngineTypeOK
  <2>3. Bound' = Bound /\ Cell' = Cell /\ FrameType' = FrameType
    BY DEF Bound, Cell, FrameType
  <2> QED BY <1>1, <1>5, <2>2, <2>3 DEF EngineTypeOK, IsPrefixArray
<1>9. ASSUME NEW e \in Byte
      PROVE  start'[e] = BucketStart(arr', seg', e)
  <2>1. BucketStart(Swapped(arr, i, y), seg, e) = BucketStart(arr, seg, e)
    BY <1>2, <1>3, SwapKeepsBuckets
  <2> QED BY <1>1, <2>1 DEF PartitionInv
<1>10. ASSUME NEW e \in Byte
       PROVE  start'[e] <= next'[e] /\ next'[e] <= BucketEnd(e)'
  <2>1. next'[e] = IF e = d THEN y + 1 ELSE next[e]
    BY <1>1, <1>2 DEF EngineTypeOK
  <2> QED BY <1>1, <1>2, <1>6, <1>7, <2>1
<1>11. ASSUME NEW e \in Byte, NEW k \in start'[e] .. next'[e] - 1
       PROVE  Digit(arr'[k], seg') = e
  <2>1. /\ next'[e] = IF e = d THEN y + 1 ELSE next[e]
        /\ start'[e] = start[e]
    BY <1>1, <1>2 DEF EngineTypeOK
  <2>2. /\ k \in Int /\ start[e] <= k /\ k < BucketEnd(e)
        /\ k < next'[e]
    BY <1>2, <1>7, <2>1
  <2>3. k \in Slots(seg)
    BY <1>3, <1>7, <2>2 DEF Slots
  <2>4. k \in DOMAIN arr
    BY <1>3, <2>3
  <2>5. CASE k = y
    <3>1. e = d
      <4>1. ASSUME e < d PROVE FALSE
        <5>1. BucketEnd(e) <= start[d]
          BY <1>1, <1>2, <4>1, BucketsInFrame
        <5> QED BY <1>2, <1>7, <2>2, <2>5, <5>1
      <4>2. ASSUME d < e PROVE FALSE
        <5>1. BucketEnd(d) <= start[e]
          BY <1>1, <1>2, <4>2, BucketsInFrame
        <5> QED BY <1>2, <1>7, <2>2, <2>5, <5>1
      <4>3. d \in Int /\ e \in Int
        BY <1>2, EngineShape DEF Byte
      <4> QED BY <4>1, <4>2, <4>3
    <3>2. arr'[k] = arr[i]
      BY <1>1, <1>3, <1>4, <2>5 DEF Swapped
    <3> QED BY <1>1, <3>1, <3>2 DEF d
  <2>6. CASE k # y
    <3>1. k \in start[e] .. next[e] - 1
      BY <1>2, <1>7, <2>1, <2>2, <2>6
    <3>2. Digit(arr[k], seg) = e
      BY <1>1, <3>1 DEF PartitionInv
    <3>3. k # i
      <4>1. k = i => e = d
        BY <3>2 DEF d
      <4>2. k = i => InBucket(i, d)
        BY <2>2, <4>1 DEF InBucket
      <4> QED BY <1>1, <4>2
    <3>4. arr'[k] = arr[k]
      BY <1>1, <1>3, <1>4, <2>4, <2>6, <3>3 DEF Swapped
    <3> QED BY <1>1, <3>2, <3>4
  <2> QED BY <2>5, <2>6
<1>12. PartitionInv'
  <2>1. /\ ~IsTrivial(seg)' /\ (seg.lo <= i)' /\ (i <= seg.hi)'
    BY <1>1 DEF PartitionInv, IsTrivial
  <2> QED BY <1>9, <1>10, <1>11, <2>1 DEF PartitionInv
<1> QED BY <1>8, <1>12

\* The buckets left to sort are frames.
LEMMA RecursePreserves ==
  ASSUME EngineTypeOK, PartitionInv, Recurse, input' = input
  PROVE  EngineTypeOK' /\ PartitionInv'
<1>1. busy /\ ~busy'
  BY DEF Recurse
<1>2. IsPrefixArray(input) /\ seg \in FrameType /\ 0 \in Bound
  BY Positions DEF EngineTypeOK, Bound
<1>3. Buckets \subseteq FrameType
  <2> SUFFICES ASSUME NEW d \in Byte, BucketEnd(d) - start[d] > 1
               PROVE  Frame(start[d], BucketEnd(d), seg.pos + 1, seg.key) \in FrameType
    BY DEF Buckets, Frame
  <2>1. start[d] \in Bound
    BY DEF EngineTypeOK
  <2>2. BucketEnd(d) \in Bound
    BY <1>1, <1>2, <2>1, BucketsInFrame, Positions DEF FrameType, Bound
  <2>3. seg.pos + 1 \in Nat /\ seg.key \in Keys
    BY <1>2 DEF FrameType
  <2>4. start[d] <= BucketEnd(d)
    BY <1>1, BucketsInFrame
  <2> QED BY <2>1, <2>2, <2>3, <2>4 DEF Frame, FrameType
<1>4. NoFrame \in FrameType
  BY <1>2 DEF NoFrame, Frame, FrameType, Keys
<1>5. /\ pending' \subseteq FrameType /\ seg' \in FrameType
      /\ start' \in [Byte -> Bound] /\ next' \in [Byte -> Bound]
      /\ i' \in Bound /\ busy' \in BOOLEAN /\ arr' = arr
  BY <1>2, <1>3, <1>4 DEF Recurse, EngineTypeOK
<1>6. Bound' = Bound /\ Cell' = Cell /\ FrameType' = FrameType
  BY DEF Bound, Cell, FrameType
<1>7. EngineTypeOK'
  BY <1>2, <1>5, <1>6 DEF EngineTypeOK, IsPrefixArray
<1> QED BY <1>1, <1>7 DEF PartitionInv

\* Every step of the sort keeps the types and the partition invariant.
LEMMA EnginePreserves ==
  ASSUME EngineTypeOK, PartitionInv, EngineNext, input' = input
  PROVE  EngineTypeOK' /\ PartitionInv'
BY ReturnPreserves, EnterPreserves, AdvancePreserves, SwapOutPreserves,
   RecursePreserves DEF EngineNext

\* A step of the sort leaves the array as it is or exchanges two cells of the
\* segment whose loop is running.
LEMMA EngineOnlySwaps ==
  ASSUME EngineTypeOK, PartitionInv, EngineNext
  PROVE  \/ arr' = arr
         \/ \E x, y \in DOMAIN input : /\ busy
                                      /\ x \in Slots(seg) /\ y \in Slots(seg)
                                      /\ arr' = Swapped(arr, x, y)
<1>1. CASE SwapOut
  <2> DEFINE y == next[Digit(arr[i], seg)]
  <2>1. busy /\ i < seg.hi /\ ~InBucket(i, Digit(arr[i], seg))
    BY <1>1 DEF SwapOut
  <2>2. i \in Slots(seg) /\ y \in Slots(seg)
    BY <2>1, FreeSlot
  <2>3. i \in DOMAIN input /\ y \in DOMAIN input
    BY <2>1, <2>2, RunningFrame
  <2>4. arr' = Swapped(arr, i, y)
    BY <1>1 DEF SwapOut
  <2> QED BY <2>1, <2>2, <2>3, <2>4
<1>2. CASE ~SwapOut
  BY <1>2 DEF EngineNext, Return, Enter, Advance, Recurse
<1> QED BY <1>1, <1>2

\* Exchanging two cells loses, duplicates and alters none.
LEMMA EngineKeepsPermutes ==
  ASSUME EngineTypeOK, PartitionInv, Permutes, EngineNext, input' = input
  PROVE  Permutes'
<1>1. CASE arr' = arr
  BY <1>1 DEF Permutes, SameKey
<1>2. ASSUME NEW x \in DOMAIN input, NEW y \in DOMAIN input,
             arr' = Swapped(arr, x, y)
      PROVE  Permutes'
  <2>1. DOMAIN arr' = DOMAIN arr /\ DOMAIN arr = DOMAIN input
    BY <1>2 DEF Swapped, EngineTypeOK
  <2>2. \A k \in DOMAIN arr :
          arr'[k] = arr[IF k = x THEN y ELSE IF k = y THEN x ELSE k]
    BY <1>2, <2>1 DEF Swapped
  <2> QED BY <1>2, <2>1, <2>2 DEF Permutes, SameKey
<1> QED BY <1>1, <1>2, EngineOnlySwaps

\* A call of the sort works on its own range only.
LEMMA EngineStaysInSegment ==
  ASSUME EngineTypeOK, PartitionInv, EngineNext,
         NEW k \in DOMAIN arr \ Slots(seg)
  PROVE  arr'[k] = arr[k]
BY EngineOnlySwaps DEF Swapped

----------------------------------------------------------------------------
(* The order.  R is any relation the caller of the sort wants kept between *)
(* two cells, as long as cells in key order are related.                   *)

ApartRelated(S, R) ==
  \A k, l \in S : k < l /\ ~Together(k, l) => <<arr[k], arr[l]>> \in R

\* InOrder is antisymmetric: a cell that may come first is not to come later.
LEMMA OrderIsStrict ==
  ASSUME IsPrefixArray(input), NEW c \in Cell, NEW d \in Cell, NEW key \in Keys,
         InOrder(c, d, key), Before(d, c, key)
  PROVE  FALSE
<1> DEFINE P == 0 .. KeyLen(key) - 1
<1>1. KeyLen(key) \in Nat
  BY ShapeAssumption, EngineShape DEF KeyLen
<1>2. \A p \in P : KeyByte(c, p, key) \in Int /\ KeyByte(d, p, key) \in Int
  BY KeyByteIsByte, EngineShape DEF Byte
<1>3. PICK q \in P : /\ KeyByte(d, q, key) < KeyByte(c, q, key)
                     /\ \A r \in 0 .. q - 1 : KeyByte(d, r, key) = KeyByte(c, r, key)
  BY DEF Before
<1>4. CASE Agree(c, d, KeyLen(key), key)
  BY <1>1, <1>2, <1>3, <1>4 DEF Agree
<1>5. CASE Before(c, d, key)
  <2>1. PICK p \in P : /\ KeyByte(c, p, key) < KeyByte(d, p, key)
                       /\ \A r \in 0 .. p - 1 : KeyByte(c, r, key) = KeyByte(d, r, key)
    BY <1>5 DEF Before
  <2>2. p < q => p \in 0 .. q - 1
    BY <1>1
  <2>3. q < p => q \in 0 .. p - 1
    BY <1>1
  <2> QED BY <1>1, <1>2, <1>3, <2>1, <2>2, <2>3
<1> QED BY <1>4, <1>5 DEF InOrder

\* Cells that may come before each other are equal to the sort.
LEMMA OrderIsAntisymmetric ==
  ASSUME IsPrefixArray(input), NEW c \in Cell, NEW d \in Cell, NEW key \in Keys,
         InOrder(c, d, key), InOrder(d, c, key)
  PROVE  Agree(c, d, KeyLen(key), key)
BY OrderIsStrict DEF InOrder

\* Every open call is one of a range of the array.
LEMMA OpenFrames ==
  ASSUME EngineTypeOK
  PROVE  \A f \in Open : /\ f \in FrameType
                         /\ f.lo \in Nat /\ f.hi \in Nat /\ f.lo <= f.hi
                         /\ f.pos \in Nat
                         /\ Slots(f) \subseteq DOMAIN input
                         /\ Slots(f) \subseteq Nat
<1> TAKE f \in Open
<1>1. f \in FrameType
  BY DEF Open, EngineTypeOK
<1>2. f.lo \in Bound /\ f.hi \in Bound /\ f.lo <= f.hi /\ f.pos \in Nat
  BY <1>1 DEF FrameType
<1> QED BY <1>1, <1>2, Positions DEF EngineTypeOK, Bound, Slots

\* A slot belongs to one open call at most.
LEMMA OneCallPerSlot ==
  ASSUME EngineTypeOK, NEW key, CallsInv(key), NEW f \in Open, NEW g \in Open,
         NEW k, k \in Slots(f), k \in Slots(g)
  PROVE  f = g
<1>1. /\ f.lo \in Nat /\ f.hi \in Nat /\ g.lo \in Nat /\ g.hi \in Nat
      /\ f = g \/ f.hi <= g.lo \/ g.hi <= f.lo
  BY OpenFrames DEF CallsInv
<1> QED BY <1>1 DEF Slots

----------------------------------------------------------------------------
(* The early return.                                                       *)

LEMMA ReturnOrders ==
  ASSUME EngineTypeOK, NEW key, CallsInv(key), NEW f \in pending, Return(f),
         NEW S, S \subseteq DOMAIN input, NEW R,
         \A k, l \in DOMAIN input : InOrder(arr[k], arr[l], key) => <<arr[k], arr[l]>> \in R,
         ApartRelated(S, R)
  PROVE  CallsInv(key)' /\ ApartRelated(S, R)'
<1>1. /\ ~busy /\ ~busy' /\ arr' = arr /\ pending' = pending \ {f} /\ IsTrivial(f)
  BY DEF Return, scanVars
<1>2. Open = pending /\ Open' = Open \ {f} /\ f \in Open
  BY <1>1 DEF Open
<1>3. CallsInv(key)'
  BY <1>1, <1>2 DEF CallsInv
<1>4. ASSUME NEW k \in Slots(f), NEW l \in Slots(f), k < l
      PROVE  InOrder(arr[k], arr[l], key)
  <2>1. f.lo \in Nat /\ f.hi \in Nat /\ f.pos \in Nat /\ k \in Nat /\ l \in Nat
    BY <1>2, OpenFrames
  <2>2. f.hi - f.lo > 1
    BY <1>4, <2>1 DEF Slots
  <2>3. f.key = key /\ f.pos >= KeyLen(key) /\ f.pos <= KeyLen(key)
    BY <1>1, <1>2, <2>1, <2>2 DEF IsTrivial, CallsInv
  <2>4. KeyLen(key) \in Int
    BY ShapeAssumption, EngineShape DEF KeyLen
  <2>5. f.pos = KeyLen(key)
    BY <2>1, <2>3, <2>4
  <2>6. Agree(arr[k], arr[l], f.pos, key)
    BY <1>2 DEF CallsInv
  <2> QED BY <2>5, <2>6 DEF InOrder
<1>5. ApartRelated(S, R)'
  <2> SUFFICES ASSUME NEW k \in S, NEW l \in S, k < l, ~Together(k, l)'
               PROVE  <<arr[k], arr[l]>> \in R
    BY <1>1 DEF ApartRelated
  <2>1. CASE Together(k, l)
    <3>1. k \in Slots(f) /\ l \in Slots(f)
      BY <1>2, <2>1 DEF Together
    <3> QED BY <1>4, <3>1
  <2>2. CASE ~Together(k, l)
    BY <2>2 DEF ApartRelated
  <2> QED BY <2>1, <2>2
<1> QED BY <1>3, <1>5

\* The calls that are open do not change when one of them starts.
LEMMA EnterOrders ==
  ASSUME EngineTypeOK, NEW key, CallsInv(key), NEW f \in pending, Enter(f),
         NEW S, NEW R, ApartRelated(S, R)
  PROVE  CallsInv(key)' /\ ApartRelated(S, R)'
<1>1. /\ ~busy /\ busy' /\ arr' = arr /\ pending' = pending \ {f}
      /\ seg' = f /\ i' = f.lo
  BY DEF Enter
<1>2. Open' = Open
  BY <1>1 DEF Open
<1>3. seg'.lo .. i' - 1 = {}
  BY <1>1, OpenFrames, <1>2 DEF Open
<1>4. CallsInv(key)'
  BY <1>1, <1>2, <1>3 DEF CallsInv
<1>5. ApartRelated(S, R)'
  BY <1>1, <1>2 DEF ApartRelated, Together
<1> QED BY <1>4, <1>5

LEMMA AdvanceOrders ==
  ASSUME EngineTypeOK, PartitionInv, NEW key, CallsInv(key), Advance,
         NEW S, NEW R, ApartRelated(S, R)
  PROVE  CallsInv(key)' /\ ApartRelated(S, R)'
<1>1. /\ busy /\ InBucket(i, Digit(arr[i], seg)) /\ i' = i + 1
      /\ UNCHANGED <<arr, pending, busy, seg, start, next>>
  BY DEF Advance
<1>2. Open' = Open
  BY <1>1 DEF Open
<1>3. i \in Int /\ seg.lo \in Int
  BY <1>1, RunningFrame, Positions DEF EngineTypeOK, Bound
<1>4. ASSUME NEW k \in seg.lo .. i' - 1 PROVE InBucket(k, Digit(arr[k], seg))
  BY <1>1, <1>3 DEF CallsInv
<1>5. CallsInv(key)'
  BY <1>1, <1>2, <1>4 DEF CallsInv, InBucket, BucketEnd
<1>6. ApartRelated(S, R)'
  BY <1>1, <1>2 DEF ApartRelated, Together
<1> QED BY <1>5, <1>6

----------------------------------------------------------------------------
(* The swap.                                                               *)

LEMMA SwapOutOrders ==
  ASSUME EngineTypeOK, PartitionInv, NEW key, CallsInv(key), SwapOut,
         NEW S, S \subseteq DOMAIN input, \A f \in Open : Slots(f) \subseteq S,
         NEW R, ApartRelated(S, R)
  PROVE  CallsInv(key)' /\ ApartRelated(S, R)'
<1> DEFINE d == Digit(arr[i], seg)
           y == next[d]
           other(k) == IF k = i THEN y ELSE IF k = y THEN i ELSE k
<1>1. /\ busy /\ i < seg.hi /\ ~InBucket(i, d)
      /\ arr' = Swapped(arr, i, y)
      /\ UNCHANGED <<pending, busy, seg, start, i>>
  BY DEF SwapOut
<1>2. /\ d \in Byte /\ i \in Slots(seg) /\ y \in Slots(seg)
      /\ start[d] <= y /\ y < BucketEnd(d)
  BY <1>1, FreeSlot
<1>3. /\ Slots(seg) \subseteq DOMAIN input /\ DOMAIN arr = DOMAIN input
      /\ seg \in Open
  BY <1>1, RunningFrame DEF EngineTypeOK, Open
<1>4. Open' = Open
  BY <1>1 DEF Open
<1> HIDE DEF d
<1>5. \A k \in DOMAIN input : arr'[k] = arr[other(k)]
  BY <1>1, <1>2, <1>3 DEF Swapped
<1>6. ASSUME NEW f \in Open, NEW k \in Slots(f)
      PROVE  other(k) \in Slots(f)
  <2>1. k = i \/ k = y => f = seg
    BY <1>2, <1>3, OneCallPerSlot
  <2> QED BY <1>2, <2>1
<1>7. \A f \in Open : Slots(f) \subseteq DOMAIN input
  BY OpenFrames
<1>8. ASSUME NEW f \in Open, NEW k \in Slots(f), NEW l \in Slots(f)
      PROVE  Agree(arr'[k], arr'[l], f.pos, key)
  <2>1. other(k) \in Slots(f) /\ other(l) \in Slots(f)
    BY <1>6
  <2>2. Agree(arr[other(k)], arr[other(l)], f.pos, key)
    BY <2>1 DEF CallsInv
  <2> HIDE DEF other
  <2> QED BY <1>5, <1>7, <2>2
<1>9. ASSUME NEW k \in seg.lo .. i - 1
      PROVE  InBucket(k, Digit(arr'[k], seg))
  <2>1. k \in DOMAIN input /\ k # i
    BY <1>2, <1>3, RunningFrame, <1>1 DEF Slots
  <2>2. CASE k = y
    <3>1. arr'[k] = arr[i]
      BY <1>5, <2>1, <2>2
    <3> QED BY <1>2, <2>2, <3>1 DEF InBucket, d
  <2>3. CASE k # y
    <3>1. arr'[k] = arr[k]
      BY <1>5, <2>1, <2>3
    <3> QED BY <1>1, <3>1 DEF CallsInv
  <2> QED BY <2>2, <2>3
<1>10. CallsInv(key)'
  BY <1>1, <1>4, <1>8, <1>9 DEF CallsInv, InBucket, BucketEnd
<1>11. ASSUME NEW k \in S, NEW l \in S, k < l, ~Together(k, l)
       PROVE  <<arr[other(k)], arr[other(l)]>> \in R
  <2>1. k \in Int /\ l \in Int /\ i \in Int /\ y \in Int
    BY <1>2, <1>3, Positions DEF EngineTypeOK
  <2>2. seg.lo \in Int /\ seg.hi \in Int
    BY <1>1, RunningFrame
  <2>3. ~(k \in Slots(seg) /\ l \in Slots(seg))
    BY <1>3, <1>11 DEF Together
  <2>4. other(k) < other(l)
    BY <1>2, <1>11, <2>1, <2>2, <2>3 DEF Slots
  <2>5. other(k) \in S /\ other(l) \in S
    BY <1>2, <1>3
  <2>6. ~Together(other(k), other(l))
    <3> SUFFICES ASSUME NEW f \in Open, other(k) \in Slots(f), other(l) \in Slots(f)
                 PROVE  FALSE
      BY DEF Together
    <3>1. other(other(k)) \in Slots(f) /\ other(other(l)) \in Slots(f)
      BY <1>6
    <3>2. k \in Slots(f) /\ l \in Slots(f)
      BY <3>1
    <3> QED BY <1>11, <3>2 DEF Together
  <2> HIDE DEF other
  <2> QED BY <2>4, <2>5, <2>6 DEF ApartRelated
<1>12. ApartRelated(S, R)'
  <2> SUFFICES ASSUME NEW k \in S, NEW l \in S, k < l, ~Together(k, l)'
               PROVE  <<arr'[k], arr'[l]>> \in R
    BY DEF ApartRelated
  <2>1. ~Together(k, l)
    BY <1>4 DEF Together
  <2>2. <<arr[other(k)], arr[other(l)]>> \in R
    BY <1>11, <2>1
  <2> HIDE DEF other
  <2> QED BY <1>5, <2>2
<1> QED BY <1>10, <1>12

----------------------------------------------------------------------------
(* The recursion.                                                          *)

\* After the scan every slot is in the bucket of its digit, and in no other.
LEMMA ScannedBuckets ==
  ASSUME EngineTypeOK, PartitionInv, NEW key, CallsInv(key), busy, i = seg.hi,
         NEW k \in Slots(seg)
  PROVE  /\ Digit(arr[k], seg) \in Byte
         /\ InBucket(k, Digit(arr[k], seg))
         /\ \A d \in Byte : InBucket(k, d) => d = Digit(arr[k], seg)
<1> DEFINE e == Digit(arr[k], seg)
<1>1. e \in Byte /\ k \in Int
  BY RunningFrame DEF Slots
<1>2. InBucket(k, e)
  BY DEF CallsInv, Slots
<1> HIDE DEF e
<1>3. ASSUME NEW d \in Byte, InBucket(k, d)
      PROVE  d = e
  <2>1. /\ start[d] \in Int /\ start[e] \in Int
        /\ BucketEnd(d) \in Int /\ BucketEnd(e) \in Int
        /\ d < e => BucketEnd(d) <= start[e]
        /\ e < d => BucketEnd(e) <= start[d]
    BY <1>1, BucketsInFrame
  <2>2. d \in Int /\ e \in Int
    BY <1>1, EngineShape DEF Byte
  <2> QED BY <1>1, <1>2, <1>3, <2>1, <2>2 DEF InBucket
<1> QED BY <1>1, <1>2, <1>3 DEF e

LEMMA RecurseOrders ==
  ASSUME EngineTypeOK, PartitionInv, NEW key, CallsInv(key), Recurse,
         NEW S, S \subseteq DOMAIN input, NEW R,
         \A k, l \in DOMAIN input : InOrder(arr[k], arr[l], key) => <<arr[k], arr[l]>> \in R,
         ApartRelated(S, R)
  PROVE  CallsInv(key)' /\ ApartRelated(S, R)'
<1> DEFINE bucket(d) == Frame(start[d], BucketEnd(d), seg.pos + 1, seg.key)
<1>1. /\ busy /\ ~busy' /\ i = seg.hi /\ arr' = arr
      /\ pending' = pending \cup Buckets
  BY DEF Recurse
<1>2. Open = pending \cup {seg} /\ Open' = pending \cup Buckets
  BY <1>1 DEF Open
<1>3. /\ seg \in FrameType /\ seg \in Open /\ ~IsTrivial(seg)
      /\ seg.lo \in Nat /\ seg.hi \in Nat /\ seg.pos \in Nat
      /\ seg.key = key /\ seg.pos + 1 <= KeyLen(key) /\ seg.pos < KeyLen(key)
  <2>1. seg.key = key /\ ~IsTrivial(seg)
    BY <1>1, <1>2 DEF CallsInv, PartitionInv
  <2>2. KeyLen(key) \in Int
    BY ShapeAssumption, EngineShape DEF KeyLen
  <2> QED BY <1>1, <1>2, <2>1, <2>2, OpenFrames DEF IsTrivial
<1>4. \A b \in Buckets : \E d \in Byte : b = bucket(d) /\ BucketEnd(d) - start[d] > 1
  BY DEF Buckets, Frame
<1>5. \A d \in Byte : BucketEnd(d) - start[d] > 1 => bucket(d) \in Buckets
  BY DEF Buckets, Frame
<1>6. \A d \in Byte : /\ bucket(d).lo = start[d] /\ bucket(d).hi = BucketEnd(d)
                     /\ bucket(d).pos = seg.pos + 1 /\ bucket(d).key = seg.key
                     /\ \A k \in Int : k \in Slots(bucket(d)) <=> InBucket(k, d)
  <2> SUFFICES ASSUME NEW d \in Byte, NEW k \in Int
               PROVE  k \in Slots(bucket(d)) <=> InBucket(k, d)
    BY DEF Frame
  <2>1. start[d] \in Int /\ BucketEnd(d) \in Int
    BY <1>1, BucketsInFrame
  <2> QED BY <2>1 DEF Slots, InBucket, Frame
<1> HIDE DEF bucket
<1>7. \A d \in Byte : /\ start[d] \in Int /\ BucketEnd(d) \in Int
                     /\ seg.lo <= start[d] /\ BucketEnd(d) <= seg.hi
                     /\ \A e \in Byte : d < e => BucketEnd(d) <= start[e]
  BY <1>1, BucketsInFrame
<1>8. ASSUME NEW f \in Open', NEW g \in Open'
      PROVE  f = g \/ f.hi <= g.lo \/ g.hi <= f.lo
  <2>1. ASSUME NEW p \in pending, NEW b \in Buckets
        PROVE  p.hi <= b.lo \/ b.hi <= p.lo
    <3>1. PICK d \in Byte : b = bucket(d)
      BY <1>4
    <3>2. p \in Open /\ p # seg
      BY <1>1, <1>2 DEF CallsInv
    <3>3. p.hi <= seg.lo \/ seg.hi <= p.lo
      BY <1>3, <3>2 DEF CallsInv
    <3>4. p.lo \in Nat /\ p.hi \in Nat
      BY <3>2, OpenFrames
    <3> QED BY <1>3, <1>6, <1>7, <3>1, <3>3, <3>4
  <2>2. ASSUME NEW b \in Buckets, NEW c \in Buckets
        PROVE  b = c \/ b.hi <= c.lo \/ c.hi <= b.lo
    <3>1. PICK d \in Byte : b = bucket(d)
      BY <1>4
    <3>2. PICK e \in Byte : c = bucket(e)
      BY <1>4
    <3>3. d \in Int /\ e \in Int
      BY EngineShape DEF Byte
    <3> QED BY <1>6, <1>7, <3>1, <3>2, <3>3
  <2>3. ASSUME NEW p \in pending, NEW q \in pending
        PROVE  p = q \/ p.hi <= q.lo \/ q.hi <= p.lo
    BY <1>2 DEF CallsInv
  <2> QED BY <1>2, <2>1, <2>2, <2>3
<1>9. ASSUME NEW f \in Open', NEW k \in Slots(f), NEW l \in Slots(f)
      PROVE  Agree(arr[k], arr[l], f.pos, key)
  <2>1. CASE f \in pending
    BY <1>2, <2>1 DEF CallsInv
  <2>2. CASE f \in Buckets
    <3>1. PICK d \in Byte : f = bucket(d)
      BY <1>4, <2>2
    <3>2. k \in Int /\ l \in Int
      BY DEF Slots
    <3>3. InBucket(k, d) /\ InBucket(l, d)
      BY <1>6, <3>1, <3>2
    <3>4. k \in Slots(seg) /\ l \in Slots(seg)
      BY <1>3, <1>7, <3>2, <3>3 DEF InBucket, Slots
    <3>5. Digit(arr[k], seg) = d /\ Digit(arr[l], seg) = d
      BY <1>1, <3>3, <3>4, ScannedBuckets
    <3>6. Agree(arr[k], arr[l], seg.pos, key)
      BY <1>3, <3>4 DEF CallsInv
    <3>7. f.pos = seg.pos + 1
      BY <1>6, <3>1
    <3> QED BY <1>3, <3>5, <3>6, <3>7 DEF Agree, Digit
  <2> QED BY <1>2, <2>1, <2>2
<1>10. CallsInv(key)'
  <2>1. ASSUME NEW f \in Open' PROVE f.key = key /\ f.pos <= KeyLen(key)
    BY <1>2, <1>3, <1>4, <1>6 DEF CallsInv
  <2> QED BY <1>1, <1>8, <1>9, <2>1 DEF CallsInv
<1>11. ASSUME NEW k \in Slots(seg), NEW l \in Slots(seg), k < l, ~Together(k, l)'
       PROVE  InOrder(arr[k], arr[l], key)
  <2> DEFINE d == Digit(arr[k], seg)
             e == Digit(arr[l], seg)
  <2>1. d \in Byte /\ e \in Byte /\ InBucket(k, d) /\ InBucket(l, e)
    BY <1>1, ScannedBuckets
  <2>2. Agree(arr[k], arr[l], seg.pos, key)
    BY <1>3 DEF CallsInv
  <2>3. KeyByte(arr[k], seg.pos, key) = d /\ KeyByte(arr[l], seg.pos, key) = e
    BY <1>3 DEF Digit
  <2> HIDE DEF d, e
  <2>4. k \in Int /\ l \in Int /\ d \in Int /\ e \in Int
    BY <2>1, EngineShape DEF Slots, Byte
  <2>5. ~(e < d)
    BY <1>7, <1>11, <2>1, <2>4 DEF InBucket
  <2>6. d # e
    <3> SUFFICES ASSUME d = e PROVE FALSE
      OBVIOUS
    <3>1. BucketEnd(d) - start[d] > 1
      BY <1>7, <1>11, <2>1, <2>4 DEF InBucket
    <3>2. bucket(d) \in Open' /\ k \in Slots(bucket(d)) /\ l \in Slots(bucket(d))
      BY <1>2, <1>5, <1>6, <2>1, <2>4, <3>1
    <3> QED BY <1>11, <3>2 DEF Together
  <2>7. d < e
    BY <2>4, <2>5, <2>6
  <2>8. seg.pos \in 0 .. KeyLen(key) - 1
    BY <1>3, ShapeAssumption, EngineShape DEF KeyLen
  <2> QED BY <2>2, <2>3, <2>7, <2>8 DEF InOrder, Before, Agree
<1>12. ApartRelated(S, R)'
  <2> SUFFICES ASSUME NEW k \in S, NEW l \in S, k < l, ~Together(k, l)'
               PROVE  <<arr[k], arr[l]>> \in R
    BY <1>1 DEF ApartRelated
  <2>1. CASE k \in Slots(seg) /\ l \in Slots(seg)
    BY <1>11, <2>1
  <2>2. CASE ~(k \in Slots(seg) /\ l \in Slots(seg))
    <3>1. ~Together(k, l)
      BY <1>2, <2>2 DEF Together
    <3> QED BY <3>1 DEF ApartRelated
  <2> QED BY <2>1, <2>2
<1> QED BY <1>10, <1>12

----------------------------------------------------------------------------
\* Every step of the sort keeps what makes it sort.
LEMMA EngineOrders ==
  ASSUME EngineTypeOK, PartitionInv, NEW key, CallsInv(key), EngineNext,
         NEW S, S \subseteq DOMAIN input, \A f \in Open : Slots(f) \subseteq S,
         NEW R,
         \A k, l \in DOMAIN input : InOrder(arr[k], arr[l], key) => <<arr[k], arr[l]>> \in R,
         ApartRelated(S, R)
  PROVE  CallsInv(key)' /\ ApartRelated(S, R)'
<1>1. CASE \E f \in pending : Return(f)
  BY <1>1, ReturnOrders
<1>2. CASE \E f \in pending : Enter(f)
  BY <1>2, EnterOrders
<1>3. CASE Advance
  BY <1>3, AdvanceOrders
<1>4. CASE SwapOut
  BY <1>4, SwapOutOrders
<1>5. CASE Recurse
  BY <1>5, RecurseOrders
<1> QED BY <1>1, <1>2, <1>3, <1>4, <1>5 DEF EngineNext

\* The range of an open call only ever shrinks.
LEMMA OpenShrinks ==
  ASSUME EngineTypeOK, PartitionInv, EngineNext, NEW f \in Open'
  PROVE  \E g \in Open : g.lo <= f.lo /\ f.hi <= g.hi /\ Slots(f) \subseteq Slots(g)
<1>1. CASE Recurse
  <2>1. Open = pending \cup {seg} /\ Open' = pending \cup Buckets
    BY <1>1 DEF Recurse, Open
  <2>2. CASE f \in pending
    <3>1. f \in Open /\ f.lo <= f.lo /\ f.hi <= f.hi
      BY <2>1, <2>2, OpenFrames
    <3> QED BY <3>1
  <2>3. CASE f \in Buckets
    <3>1. PICK d \in Byte : f = Frame(start[d], BucketEnd(d), seg.pos + 1, seg.key)
      BY <2>3 DEF Buckets
    <3>2. f.lo = start[d] /\ f.hi = BucketEnd(d)
      BY <3>1 DEF Frame
    <3>3. /\ f.lo \in Int /\ f.hi \in Int /\ seg.lo \in Int /\ seg.hi \in Int
          /\ seg.lo <= f.lo /\ f.hi <= seg.hi
      BY <1>1, <3>2, BucketsInFrame, RunningFrame DEF Recurse
    <3> QED BY <2>1, <3>3 DEF Slots
  <2> QED BY <2>1, <2>2, <2>3
<1>2. CASE ~Recurse
  <2>1. f \in Open
    BY <1>2 DEF EngineNext, Return, Enter, Advance, SwapOut, scanVars, Open
  <2>2. f.lo <= f.lo /\ f.hi <= f.hi
    BY <2>1, OpenFrames
  <2> QED BY <2>1, <2>2
<1> QED BY <1>1, <1>2

----------------------------------------------------------------------------
(* What a caller of the sort needs to know of its start, its steps and its *)
(* end.                                                                    *)

\* A step that leaves the array and the sort alone keeps what is said of them.
LEMMA EngineIdleStep ==
  ASSUME EngineTypeOK, PartitionInv, UNCHANGED <<engineVars, input>>
  PROVE  EngineTypeOK' /\ PartitionInv' /\ (Permutes => Permutes')
<1>1. EngineTypeOK'
  BY DEF EngineTypeOK, engineVars, IsPrefixArray, Cell, FrameType, Bound
<1>2. PartitionInv'
  BY DEF PartitionInv, engineVars, BucketEnd
<1>3. Permutes => Permutes'
  BY DEF Permutes, engineVars, SameKey
<1> QED BY <1>1, <1>2, <1>3

\* No call is open: nothing is left together.
LEMMA NothingOpen ==
  ASSUME EngineIdle
  PROVE  Open = {} /\ \A k, l : ~Together(k, l)
BY DEF EngineIdle, Open, Together

\* The only call that is open covers [lo, hi), and no byte was looked at yet.
LEMMA OneCall ==
  ASSUME NEW lo, NEW hi, NEW key, ~busy', pending' = {Frame(lo, hi, 0, key)},
         key' = key, key \in Keys
  PROVE  /\ CallsInv(key)'
         /\ \A k, l \in lo .. hi - 1 : Together(k, l)'
<1>1. Open' = {Frame(lo, hi, 0, key)}
  BY DEF Open
<1>2. 0 <= KeyLen(key)
  BY ShapeAssumption, EngineShape DEF KeyLen
<1>3. CallsInv(key)'
  BY <1>1, <1>2 DEF CallsInv, Frame, Agree
<1>4. \A k, l \in lo .. hi - 1 : Together(k, l)'
  BY <1>1 DEF Together, Slots, Frame
<1> QED BY <1>3, <1>4

\* A step of the sort moves cells, it makes none and loses none.
LEMMA CellsMove ==
  ASSUME EngineTypeOK, PartitionInv, EngineNext
  PROVE  /\ DOMAIN arr' = DOMAIN input
         /\ \A k \in DOMAIN input : \E j \in DOMAIN input : arr'[k] = arr[j]
         /\ \A k \in DOMAIN input : \E j \in DOMAIN input : arr'[j] = arr[k]
<1>1. DOMAIN arr = DOMAIN input
  BY DEF EngineTypeOK
<1>2. CASE arr' = arr
  BY <1>1, <1>2
<1>3. ASSUME NEW x \in DOMAIN input, NEW y \in DOMAIN input, arr' = Swapped(arr, x, y)
      PROVE  /\ DOMAIN arr' = DOMAIN input
             /\ \A k \in DOMAIN input : \E j \in DOMAIN input : arr'[k] = arr[j]
             /\ \A k \in DOMAIN input : \E j \in DOMAIN input : arr'[j] = arr[k]
  <2> DEFINE other(k) == IF k = x THEN y ELSE IF k = y THEN x ELSE k
  <2>1. /\ DOMAIN arr' = DOMAIN input
        /\ \A k \in DOMAIN input : /\ arr'[k] = arr[other(k)]
                                   /\ other(k) \in DOMAIN input
                                   /\ arr'[other(k)] = arr[k]
    BY <1>1, <1>3 DEF Swapped
  <2> HIDE DEF other
  <2> QED BY <2>1
<1> QED BY <1>2, <1>3, EngineOnlySwaps

----------------------------------------------------------------------------
(* Tags.  Their bytes, the most significant first, order them as numbers.  *)

\* The number the first n bytes of a tag make.
Leading(tag, n) == tag \div TagWeight(TagLen - n)

\* One more byte is one more digit.
LEMMA LeadingStep ==
  ASSUME NEW c, c.fam \in Nat, NEW p \in 0 .. TagLen - 1
  PROVE  /\ Leading(c.fam, p) \in Int
         /\ TagByte(c, p) \in Int
         /\ Leading(c.fam, p + 1) = ByteSize * Leading(c.fam, p) + TagByte(c, p)
<1> DEFINE n == TagLen - 1 - p
           v == TagWeight(n)
           m == c.fam \div v
<1>1. n \in 0 .. TagLen /\ n \in 0 .. TagLen - 1 /\ TagLen - p = n + 1 /\ TagLen - (p + 1) = n
  BY EngineShape
<1>2. v \in Nat \ {0} /\ ByteSize \in Nat \ {0} /\ TagWeight(n + 1) = ByteSize * v
  BY <1>1, TagWeights
<1>3. Leading(c.fam, p + 1) = m
  BY <1>1 DEF Leading
<1>4. TagByte(c, p) = m % ByteSize
  BY DEF TagByte
<1>5. Leading(c.fam, p) = c.fam \div (ByteSize * v)
  BY <1>1, <1>2 DEF Leading
<1> HIDE DEF n, v
<1>6. m \in Nat /\ c.fam \div (ByteSize * v) = m \div ByteSize
  <2>1. m \in Nat
    BY <1>2
  <2>2. c.fam \div (ByteSize * v) = (c.fam \div v) \div ByteSize
    BY <1>2, DivideTwice
  <2> QED BY <2>1, <2>2
<1> HIDE DEF m
<1>7. m = ByteSize * (m \div ByteSize) + (m % ByteSize)
  BY <1>2, <1>6
<1>8. m \div ByteSize \in Int /\ m % ByteSize \in Int
  BY <1>2, <1>6
<1> QED BY <1>3, <1>4, <1>5, <1>6, <1>7, <1>8

\* Tags that agree on n bytes agree as numbers so far.
LEMMA AgreeingTags ==
  ASSUME NEW c, NEW d, NEW n \in 0 .. TagLen,
         c.fam \in 0 .. TagWeight(TagLen) - 1, d.fam \in 0 .. TagWeight(TagLen) - 1,
         Agree(c, d, n, "tag")
  PROVE  Leading(c.fam, n) = Leading(d.fam, n)
<1> DEFINE S == {p \in Nat : p <= n => Leading(c.fam, p) = Leading(d.fam, p)}
<1>1. /\ TagLen \in Nat \ {0} /\ TagLen \in 0 .. TagLen
      /\ TagWeight(TagLen) \in Nat \ {0}
      /\ c.fam \in Nat /\ d.fam \in Nat
  BY EngineShape, TagWeights
<1>2. 0 \in S
  <2> DEFINE m == TagWeight(TagLen)
  <2>1. \A x \in 0 .. m - 1 : x \div m = 0
    <3> SUFFICES ASSUME NEW x \in 0 .. m - 1 PROVE x \div m = 0
      OBVIOUS
    <3> HIDE DEF m
    <3>1. m \in Nat \ {0}
      BY <1>1 DEF m
    <3>2. m * 0 <= x /\ x < m * 0 + m /\ x \in Int
      BY <3>1
    <3> QED BY <3>1, <3>2, DivisionIs, DivisionIsUnique
  <2>2. TagLen - 0 = TagLen
    BY <1>1
  <2> QED BY <2>1, <2>2 DEF Leading
<1>3. ASSUME NEW p \in Nat, p \in S
      PROVE  p + 1 \in S
  <2> SUFFICES ASSUME p + 1 <= n
               PROVE  Leading(c.fam, p + 1) = Leading(d.fam, p + 1)
    OBVIOUS
  <2>1. p \in 0 .. n - 1 /\ p \in 0 .. TagLen - 1
    BY <1>1
  <2>2. TagByte(c, p) = TagByte(d, p)
    BY <2>1 DEF Agree, KeyByte
  <2>3. Leading(c.fam, p) = Leading(d.fam, p)
    BY <1>3, <2>1
  <2> QED BY <1>1, <2>1, <2>2, <2>3, LeadingStep
<1>4. Nat \subseteq S
  <2> HIDE DEF S
  <2> QED BY <1>2, <1>3, SetInduction
<1> QED BY <1>1, <1>4

LEMMA TagsAreNumbers ==
  ASSUME NEW c, NEW d,
         c.fam \in 0 .. TagWeight(TagLen) - 1, d.fam \in 0 .. TagWeight(TagLen) - 1,
         InOrder(c, d, "tag")
  PROVE  c.fam <= d.fam
<1>1. /\ TagLen \in Nat \ {0} /\ TagLen \in 0 .. TagLen /\ KeyLen("tag") = TagLen
      /\ TagWeight(TagLen) \in Nat \ {0}
      /\ c.fam \in Nat /\ d.fam \in Nat
  BY EngineShape, TagWeights DEF KeyLen
<1>2. CASE Agree(c, d, TagLen, "tag")
  <2>1. Leading(c.fam, TagLen) = Leading(d.fam, TagLen)
    BY <1>1, <1>2, AgreeingTags
  <2>2. \A x \in Nat : x \div 1 = x
    OBVIOUS
  <2>3. TagWeight(TagLen - TagLen) = 1
    <3>1. TagLen - TagLen = 0
      BY <1>1
    <3> QED BY <3>1, TagWeights
  <2> QED BY <1>1, <2>1, <2>2, <2>3 DEF Leading
<1>3. CASE Before(c, d, "tag")
  <2>1. PICK p \in 0 .. TagLen - 1 : /\ TagByte(c, p) < TagByte(d, p)
                                     /\ Agree(c, d, p, "tag")
    BY <1>1, <1>3 DEF Before, KeyByte, Agree
  <2>2. p \in 0 .. TagLen /\ TagLen - (p + 1) \in 0 .. TagLen
    BY <1>1
  <2>3. Leading(c.fam, p) = Leading(d.fam, p)
    BY <2>1, <2>2, AgreeingTags
  <2>4. Leading(c.fam, p + 1) < Leading(d.fam, p + 1)
    <3> DEFINE m == ByteSize * Leading(c.fam, p)
    <3>1. /\ Leading(c.fam, p + 1) = m + TagByte(c, p)
          /\ Leading(d.fam, p + 1) = m + TagByte(d, p)
          /\ TagByte(c, p) \in Int /\ TagByte(d, p) \in Int
          /\ Leading(c.fam, p) \in Int
      BY <1>1, <2>3, LeadingStep
    <3>2. m \in Int
      BY <3>1, EngineShape
    <3> HIDE DEF m
    <3> QED BY <2>1, <3>1, <3>2
  <2> DEFINE v == TagWeight(TagLen - (p + 1))
  <2>5. v \in Nat \ {0}
    BY <2>2, TagWeights
  <2>6. c.fam \div v < d.fam \div v
    BY <2>4 DEF Leading
  <2> HIDE DEF v
  <2>7. c.fam \div v \in Int /\ d.fam \div v \in Int
    BY <1>1, <2>5
  <2>8. ~(d.fam <= c.fam)
    BY <1>1, <2>5, <2>6, <2>7, DivisionAscends
  <2> QED BY <1>1, <2>8
<1> QED BY <1>1, <1>2, <1>3 DEF InOrder

----------------------------------------------------------------------------
(* The key order of the ascending sort is that of cidr_prefix_cmp.         *)

LEMMA KeyOrderIsCmp ==
  ASSUME NEW c, NEW d, IsEntry(c), IsEntry(d), InOrder(c, d, "ASC")
  PROVE  PrefixCmp(c, d) \in {-1, 0}
<1>1. /\ c.addr \in [BytePos -> Byte] /\ d.addr \in [BytePos -> Byte]
      /\ c.pfxlen \in Int /\ d.pfxlen \in Int /\ AddrLen \in Nat
      /\ BytePos = 0 .. AddrLen - 1
  BY Shape DEF IsEntry, Address, Pfxlen, MaxPfxlen, BytePos
<1>2. /\ \A k \in BytePos : KeyByte(c, k, "ASC") = c.addr[k] /\ KeyByte(d, k, "ASC") = d.addr[k]
      /\ KeyByte(c, AddrLen, "ASC") = c.pfxlen /\ KeyByte(d, AddrLen, "ASC") = d.pfxlen
  BY <1>1 DEF KeyByte, AscByte
<1>3. KeyLen("ASC") = AddrLen + 1
  BY DEF KeyLen
<1>4. ASSUME NEW n \in 0 .. AddrLen,
             \A k \in 0 .. n - 1 : KeyByte(c, k, "ASC") = KeyByte(d, k, "ASC")
      PROVE  \A k \in BytePos : k < n => c.addr[k] = d.addr[k]
  <2> TAKE k \in BytePos
  <2> HAVE k < n
  <2>1. k \in 0 .. n - 1
    BY <1>1
  <2> QED BY <1>2, <1>4, <2>1
<1>5. ASSUME \A k \in BytePos : k < AddrLen => c.addr[k] = d.addr[k]
      PROVE  c.addr = d.addr
  BY <1>1, <1>5
<1>6. CASE Before(c, d, "ASC")
  <2>1. PICK p \in 0 .. AddrLen :
          /\ KeyByte(c, p, "ASC") < KeyByte(d, p, "ASC")
          /\ \A k \in 0 .. p - 1 : KeyByte(c, k, "ASC") = KeyByte(d, k, "ASC")
    BY <1>1, <1>3, <1>6 DEF Before
  <2>2. \A k \in BytePos : k < p => c.addr[k] = d.addr[k]
    BY <1>4, <2>1
  <2>3. CASE p = AddrLen
    <3>1. c.addr = d.addr /\ c.pfxlen < d.pfxlen
      BY <1>2, <1>5, <2>1, <2>2, <2>3
    <3> QED BY <3>1 DEF PrefixCmp
  <2>4. CASE p # AddrLen
    <3>1. p \in BytePos
      BY <1>1, <2>4
    <3>2. c.addr[p] < d.addr[p] /\ c.addr # d.addr
      <4>1. c.addr[p] < d.addr[p] /\ c.addr[p] \in Int
        BY <1>1, <1>2, <2>1, <3>1, Shape DEF Byte
      <4> QED BY <4>1
    <3>3. AddrLess(c.addr, d.addr)
      BY <2>2, <3>1, <3>2 DEF AddrLess
    <3> QED BY <3>2, <3>3 DEF PrefixCmp, AddrCmp
  <2> QED BY <2>3, <2>4
<1>7. CASE Agree(c, d, KeyLen("ASC"), "ASC")
  <2>1. \A k \in 0 .. AddrLen : KeyByte(c, k, "ASC") = KeyByte(d, k, "ASC")
    BY <1>1, <1>3, <1>7 DEF Agree
  <2>2. AddrLen \in 0 .. AddrLen /\ \A k \in 0 .. AddrLen - 1 : k \in 0 .. AddrLen
    BY <1>1
  <2>3. c.addr = d.addr /\ c.pfxlen = d.pfxlen
    BY <1>2, <1>4, <1>5, <2>1, <2>2
  <2> QED BY <1>1, <2>3 DEF PrefixCmp
<1> QED BY <1>6, <1>7 DEF InOrder
=============================================================================
