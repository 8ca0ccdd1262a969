------------------------- MODULE BulkAggregateProofs -------------------------
(***************************************************************************)
(* cidr_bulk_aggregate, for arrays of any length and addresses of any      *)
(* width: no pass loses or gains an address, the merge pass sees disjoint  *)
(* ascending prefixes, the result is the canonical list of the input's     *)
(* addresses, and the array does what AggregateSpec lets a set do.         *)
(***************************************************************************)
EXTENDS BulkAggregate, RadixProofs

----------------------------------------------------------------------------
(* Lists of prefixes, as intervals one after the other.                    *)

\* Every address of c is below every address of d.
Apart(c, d) == \A x \in Span(c), y \in Span(d) : x < y

\* A prefix has addresses, and its end is where the order of another begins.
LEMMA ApartIs ==
  ASSUME NEW c, NEW d, IsPrefix(c), IsPrefix(d)
  PROVE  Apart(c, d) <=> Span(c) \cap Span(d) = {} /\ PrefixCmp(c, d) = -1
<1> DEFINE v == Value(c.addr)
           u == Value(d.addr)
           m == Size(c.pfxlen)
           n == Size(d.pfxlen)
<1>1. /\ Span(c) = v .. v + m - 1 /\ v \in Nat /\ m \in Nat \ {0}
      /\ Span(d) = u .. u + n - 1 /\ u \in Nat /\ n \in Nat \ {0}
  BY SpanOfPrefix
<1>2. PrefixCmp(c, d) = -1 <=> v < u \/ (c.addr = d.addr /\ c.pfxlen < d.pfxlen)
  BY CmpIs DEF IsPrefix
<1>3. c.addr = d.addr => v = u
  OBVIOUS
<1> HIDE DEF v, u, m, n
<1>4. v \in Span(c) /\ u \in Span(d)
  BY <1>1
<1>5. ASSUME Apart(c, d) PROVE v < u /\ Span(c) \cap Span(d) = {}
  <2>1. v < u
    BY <1>4, <1>5 DEF Apart
  <2>2. ASSUME NEW x \in Span(c) \cap Span(d) PROVE FALSE
    BY <1>1, <1>5, <2>2 DEF Apart
  <2> QED BY <2>1, <2>2
<1>6. ASSUME Span(c) \cap Span(d) = {}, v <= u PROVE Apart(c, d)
  <2>1. v + m <= u
    BY <1>1, <1>4, <1>6
  <2> QED BY <1>1, <2>1 DEF Apart
<1> QED BY <1>1, <1>2, <1>3, <1>5, <1>6

LEMMA ApartAgain ==
  ASSUME NEW c, NEW d, NEW e, IsPrefix(c), IsPrefix(d), IsPrefix(e),
         Apart(c, d), Apart(d, e)
  PROVE  Apart(c, e)
<1>1. /\ Span(c) \subseteq Nat /\ Span(d) \subseteq Nat /\ Span(e) \subseteq Nat
      /\ Value(d.addr) \in Span(d)
  BY InSpan DEF IsPrefix
<1> QED BY <1>1 DEF Apart

\* Of two ascending prefixes the first covers the network address of the
\* second, and with it all of the second, or ends before it.
LEMMA AscendingPair ==
  ASSUME NEW c, NEW d, IsPrefix(c), IsPrefix(d), PrefixCmp(c, d) = -1
  PROVE  IF PrefixMatches(c, d.addr) THEN Span(d) \subseteq Span(c) ELSE Apart(c, d)
<1> DEFINE v == Value(c.addr)
           u == Value(d.addr)
<1>1. /\ IsEntry(c) /\ IsEntry(d) /\ c.addr \in Address /\ d.addr \in Address
      /\ c.pfxlen \in Int /\ d.pfxlen \in Int /\ c.pfxlen \in Pfxlen
  BY Shape DEF IsPrefix, IsEntry, Pfxlen, MaxPfxlen
<1>2. v \in Nat /\ u \in Nat /\ v <= u /\ u \in Span(d)
  BY <1>1, CmpIs, ValueIsNat, InSpan
<1>3. PrefixMatches(c, d.addr) <=> u \in Span(c)
  BY <1>1, MatchIsMembership
<1>4. CASE u \in Span(c)
  <2>1. c.pfxlen <= d.pfxlen => Span(d) \subseteq Span(c)
    BY <1>1, <1>2, <1>4, SpansNest
  <2>2. ASSUME d.pfxlen <= c.pfxlen, c.pfxlen # d.pfxlen PROVE FALSE
    <3>1. Span(c) \subseteq Span(d)
      BY <1>1, <1>2, <1>4, <2>2, SpansNest
    <3>2. PrefixCmp(d, c) \in {-1, 0}
      BY <3>1, CoveringSortsFirst
    <3> QED BY <1>1, <1>2, <2>2, <3>2, CmpIs
  <2> QED BY <1>1, <1>3, <1>4, <2>1, <2>2
<1>5. CASE u \notin Span(c)
  <2>1. /\ Span(c) = v .. v + Size(c.pfxlen) - 1
        /\ Span(d) = u .. u + Size(d.pfxlen) - 1
        /\ Size(c.pfxlen) \in Nat /\ Size(d.pfxlen) \in Nat
    BY SpanOfPrefix
  <2> HIDE DEF v, u
  <2>2. \A x \in Span(c), y \in Span(d) : x < y
    BY <1>2, <1>5, <2>1
  <2> QED BY <1>3, <1>5, <2>2 DEF Apart, v, u
<1> QED BY <1>4, <1>5

----------------------------------------------------------------------------
(* A list of prefixes one after the other, no two neighbours siblings, is  *)
(* the canonical list of its addresses.                                    *)

AscendingList(c, n) == /\ \A k \in 0 .. n - 1 : IsPrefix(c[k])
                       /\ \A k, l \in 0 .. n - 1 : k < l => Apart(c[k], c[l])
NoSiblings(c, n) == \A k \in 1 .. n - 1 : ~AreSiblings(c[k - 1], c[k])
Covered(c, n) == UNION {Span(c[k]) : k \in 0 .. n - 1}

LEMMA ListIsDisjoint ==
  ASSUME NEW n \in Nat, NEW c, AscendingList(c, n),
         NEW k \in 0 .. n - 1, NEW l \in 0 .. n - 1, k # l
  PROVE  Span(c[k]) \cap Span(c[l]) = {}
<1>1. k < l \/ l < k
  OBVIOUS
<1> QED BY <1>1, ApartIs DEF AscendingList

\* What lies between the halves of a parent lies in the parent, so that
\* siblings are neighbours.
LEMMA SiblingsAreNeighbours ==
  ASSUME NEW n \in Nat, NEW c, AscendingList(c, n), NoSiblings(c, n),
         NEW i0 \in 0 .. n - 1, NEW j0 \in 0 .. n - 1, i0 < j0
  PROVE  ~AreSiblings(c[i0], c[j0])
<1> SUFFICES ASSUME AreSiblings(c[i0], c[j0]) PROVE FALSE
  OBVIOUS
<1> DEFINE p == c[i0]
           q == c[j0]
           s == Supernet(p)
<1>1. IsPrefix(p) /\ IsPrefix(q) /\ Apart(p, q) /\ Span(p) \cap Span(q) = {}
  <2>1. IsPrefix(p) /\ IsPrefix(q) /\ Apart(p, q)
    BY DEF AscendingList
  <2> QED BY <2>1, ApartIs
<1>2. Value(p.addr) \in Span(p) /\ Value(q.addr) \in Span(q)
  BY <1>1, InSpan DEF IsPrefix
<1>3. p.addr # q.addr
  BY <1>1, <1>2
<1>4. Span(s) = Span(p) \cup Span(q)
  BY <1>1, <1>3, SiblingsAreHalves
<1>5. IsPrefix(s)
  BY <1>1, SupernetIs DEF AreSiblings, IsPrefix, IsEntry, Prefix
<1>6. j0 # i0 + 1
  <2> SUFFICES ASSUME j0 = i0 + 1 PROVE FALSE
    OBVIOUS
  <2>1. j0 \in 1 .. n - 1 /\ j0 - 1 = i0
    OBVIOUS
  <2> QED BY <2>1 DEF NoSiblings
<1>7. i0 + 1 \in 0 .. n - 1 /\ i0 < i0 + 1 /\ i0 + 1 < j0
  BY <1>6
<1> DEFINE x == Value(c[i0 + 1].addr)
<1>8. x \in Nat /\ x \in Span(c[i0 + 1])
  BY <1>7, InSpan DEF AscendingList, IsPrefix
<1>9. /\ \A y \in Span(p) : y < x
      /\ \A y \in Span(q) : x < y
  BY <1>7, <1>8 DEF AscendingList, Apart
<1> HIDE DEF p, q, s, x
<1>10. x \in Span(s)
  <2>1. /\ Span(s) = Value(s.addr) .. Value(s.addr) + Size(s.pfxlen) - 1
        /\ Value(s.addr) \in Nat /\ Size(s.pfxlen) \in Nat
    BY <1>5, SpanOfPrefix
  <2>2. Value(p.addr) \in Span(s) /\ Value(q.addr) \in Span(s)
    BY <1>2, <1>4
  <2> QED BY <1>2, <1>8, <1>9, <2>1, <2>2
<1> QED BY <1>4, <1>8, <1>9, <1>10

\* A parent has more addresses than either half.
LEMMA OtherHalf ==
  ASSUME NEW p, IsPrefix(p), p.pfxlen > 0
  PROVE  \E v \in Span(Supernet(p)) : v \notin Span(p)
<1> SUFFICES ASSUME Span(Supernet(p)) \subseteq Span(p) PROVE FALSE
  OBVIOUS
<1> DEFINE s == Supernet(p)
<1>1. IsPrefix(s) /\ s.pfxlen = p.pfxlen - 1
  BY SupernetIs DEF IsPrefix, IsEntry, Prefix
<1>2. /\ Span(s) = Value(s.addr) .. Value(s.addr) + Size(s.pfxlen) - 1
      /\ Span(p) = Value(p.addr) .. Value(p.addr) + Size(p.pfxlen) - 1
      /\ Value(s.addr) \in Nat /\ Size(s.pfxlen) \in Nat \ {0}
      /\ Value(p.addr) \in Nat /\ Size(p.pfxlen) \in Nat \ {0}
  BY <1>1, SpanOfPrefix
<1>3. Size(p.pfxlen) < Size(s.pfxlen)
  <2>1. p.pfxlen \in Pfxlen /\ p.pfxlen - 1 \in Pfxlen /\ p.pfxlen - 1 < p.pfxlen
    BY Shape DEF IsPrefix, IsEntry, Pfxlen, MaxPfxlen
  <2> QED BY <1>1, <2>1, SizeDescends
<1> HIDE DEF s
<1>4. /\ Value(s.addr) \in Span(s)
      /\ Value(s.addr) + Size(s.pfxlen) - 1 \in Span(s)
  BY <1>2
<1>5. Span(s) \subseteq Span(p)
  BY DEF s
<1> QED BY <1>2, <1>3, <1>4, <1>5

\* The argument for the list: were all of a parent covered, then the sibling
\* of the smallest block in it would be covered too, by a block that can be
\* neither larger nor smaller.
LEMMA ParentIsNotCovered ==
  ASSUME NEW n \in Nat, NEW c, AscendingList(c, n), NoSiblings(c, n),
         NEW k \in 0 .. n - 1, c[k].pfxlen > 0
  PROVE  ~(Span(Supernet(c[k])) \subseteq Covered(c, n))
<1> SUFFICES ASSUME Span(Supernet(c[k])) \subseteq Covered(c, n) PROVE FALSE
  OBVIOUS
<1> DEFINE p == Supernet(c[k])
           inside == {j \in 0 .. n - 1 : Span(c[j]) \subseteq Span(p)}
           rest(j) == MaxPfxlen - c[j].pfxlen
<1>1. \A j \in 0 .. n - 1 : /\ IsPrefix(c[j]) /\ IsEntry(c[j])
                            /\ c[j].pfxlen \in Pfxlen /\ c[j].pfxlen \in Int
                            /\ rest(j) \in Nat
                            /\ Value(c[j].addr) \in Span(c[j])
                            /\ Value(c[j].addr) \in Nat
  BY InSpan, ValueIsNat, Shape DEF AscendingList, IsPrefix, IsEntry, Pfxlen, MaxPfxlen
<1>2. /\ IsEntry(p) /\ p.pfxlen = c[k].pfxlen - 1 /\ p.pfxlen \in Pfxlen
      /\ Span(c[k]) \subseteq Span(p)
  <2>1. IsEntry(p) /\ p.pfxlen = c[k].pfxlen - 1 /\ p.pfxlen \in Pfxlen
    BY <1>1, SupernetIs DEF IsEntry, Prefix
  <2>2. Value(c[k].addr) \in Span(p)
    BY <1>1, SupernetIs
  <2> QED BY <1>1, <2>1, <2>2, SpansNest
<1> HIDE DEF p
<1>3. PICK j \in inside : \A i0 \in inside : c[i0].pfxlen <= c[j].pfxlen
  <2> DEFINE R == {rest(j) : j \in inside}
  <2>1. k \in inside
    BY <1>2
  <2>2. R \subseteq Nat /\ R # {}
    BY <1>1, <2>1
  <2>3. PICK m \in R : \A x \in R : m <= x
    BY <2>2, LeastElement
  <2>4. PICK j \in inside : m = rest(j)
    BY <2>3
  <2>5. \A i0 \in inside : rest(j) <= rest(i0)
    BY <2>3, <2>4
  <2>6. \A i0 \in inside : c[i0].pfxlen <= c[j].pfxlen
    BY <1>1, <2>4, <2>5, Shape DEF MaxPfxlen
  <2> QED BY <2>4, <2>6
<1> DEFINE b == c[j]
           q == Supernet(b)
<1>4. /\ j \in 0 .. n - 1 /\ IsPrefix(b) /\ IsEntry(b) /\ b.pfxlen \in Int
      /\ b.pfxlen > 0 /\ c[k].pfxlen <= b.pfxlen /\ Span(b) \subseteq Span(p)
      /\ Value(b.addr) \in Span(b)
  <2>1. k \in inside
    BY <1>2
  <2> QED BY <1>1, <1>3, <2>1
<1>5. /\ IsEntry(q) /\ q.pfxlen = b.pfxlen - 1 /\ q.pfxlen \in Pfxlen
      /\ Value(b.addr) \in Span(q)
  <2>1. IsEntry(q) /\ q.pfxlen = b.pfxlen - 1 /\ q.pfxlen \in Pfxlen
    BY <1>4, SupernetIs DEF IsEntry, Prefix
  <2> QED BY <1>1, <1>4, <2>1, SupernetIs
<1>6. PICK v \in Span(q) : v \notin Span(b)
  BY <1>4, OtherHalf
<1>7. Span(q) \subseteq Span(p)
  BY <1>1, <1>2, <1>4, <1>5, SpansNest
<1>8. PICK i0 \in 0 .. n - 1 : v \in Span(c[i0])
  BY <1>6, <1>7 DEF Covered, p
<1> DEFINE a == c[i0]
<1>9. /\ i0 # j /\ Span(a) \cap Span(b) = {}
      /\ IsPrefix(a) /\ IsEntry(a) /\ a.pfxlen \in Int /\ v \in Nat
      /\ a.pfxlen \in Pfxlen /\ Value(a.addr) \in Nat /\ Value(b.addr) \in Nat
  BY <1>1, <1>4, <1>6, <1>8, ListIsDisjoint, InSpan
<1>10. ~(Value(b.addr) \in Span(a))
  BY <1>4, <1>9
<1> HIDE DEF a, b, q
<1>11. a.pfxlen <= b.pfxlen
  <2>1. ~(a.pfxlen <= p.pfxlen)
    BY <1>2, <1>4, <1>6, <1>7, <1>8, <1>9, <1>10, SpansNest DEF a
  <2>2. p.pfxlen <= a.pfxlen
    BY <1>1, <1>2, <1>9, <2>1
  <2>3. Span(a) \subseteq Span(p)
    BY <1>2, <1>6, <1>7, <1>8, <1>9, <2>2, SpansNest DEF a
  <2> QED BY <1>3, <2>3 DEF a, b
<1>12. a.pfxlen = b.pfxlen
  <2>1. ~(a.pfxlen <= q.pfxlen)
    BY <1>5, <1>6, <1>8, <1>9, <1>10, SpansNest DEF a
  <2> QED BY <1>4, <1>5, <1>9, <1>11, <2>1
<1>13. BlockOf(Value(a.addr), a.pfxlen - 1) = BlockOf(Value(b.addr), a.pfxlen - 1)
  <2>1. BlockOf(v, b.pfxlen - 1) = BlockOf(Value(b.addr), b.pfxlen - 1)
    BY <1>4, <1>6, <1>9, SupernetIs DEF q
  <2>2. BlockOf(v, a.pfxlen) = BlockOf(Value(a.addr), a.pfxlen)
    BY <1>8, <1>9, InSpan DEF a
  <2>3. BlockOf(v, a.pfxlen - 1) = BlockOf(Value(a.addr), a.pfxlen - 1)
    BY <1>4, <1>9, <1>12, <2>2, ParentBlock
  <2> QED BY <1>12, <2>1, <2>3
<1>14. AreSiblings(a, b) /\ AreSiblings(b, a)
  BY <1>4, <1>9, <1>12, <1>13, SiblingsAre
<1>15. i0 < j \/ j < i0
  BY <1>4, <1>9
<1> QED BY <1>4, <1>14, <1>15, SiblingsAreNeighbours DEF a, b

\* The block a length shorter, as Canonical writes it, is the parent's.
LEMMA WiderSpan ==
  ASSUME NEW p \in Prefix, p.pfxlen > 0
  PROVE  Span([p EXCEPT !.pfxlen = @ - 1]) = Span(Supernet(p))
<1> DEFINE b == [p EXCEPT !.pfxlen = @ - 1]
           s == Supernet(p)
<1>1. /\ IsEntry(p) /\ p.pfxlen - 1 \in Pfxlen
      /\ p \in [addr : Address, pfxlen : Pfxlen]
  BY Shape DEF Prefix, IsEntry, Pfxlen, MaxPfxlen
<1>2. b.addr = p.addr /\ b.pfxlen = p.pfxlen - 1
  BY <1>1
<1>3. IsEntry(s)
  BY <1>1, SupernetIs DEF IsEntry, Prefix
<1> HIDE DEF b
<1>4. IsEntry(b)
  BY <1>1, <1>2 DEF IsEntry
<1>5. \A v \in Int : v \in Span(s) <=> BlockOf(v, p.pfxlen - 1) = BlockOf(Value(p.addr), p.pfxlen - 1)
  BY <1>1, SupernetIs
<1>6. \A v \in Int : v \in Span(b) <=> BlockOf(v, p.pfxlen - 1) = BlockOf(Value(p.addr), p.pfxlen - 1)
  BY <1>2, <1>4, InSpan
<1>7. Span(s) \subseteq Nat /\ Span(b) \subseteq Nat
  BY <1>3, <1>4, InSpan
<1>8. Span(b) = Span(s)
  BY <1>5, <1>6, <1>7
<1> QED BY <1>8 DEF b

LEMMA BareIs ==
  ASSUME NEW c, IsPrefix(c)
  PROVE  /\ Bare(c) \in Prefix /\ IsPrefix(Bare(c))
         /\ Bare(c).addr = c.addr /\ Bare(c).pfxlen = c.pfxlen
         /\ Span(Bare(c)) = Span(c)
<1>1. Bare(c).addr = c.addr /\ Bare(c).pfxlen = c.pfxlen
  BY DEF Bare
<1>2. Bare(c) \in Prefix
  BY DEF Bare, Prefix, IsPrefix, IsEntry
<1>3. IsPrefix(Bare(c))
  BY <1>1 DEF IsPrefix, IsEntry
<1>4. Span(Bare(c)) = Span(c)
  BY <1>1 DEF Span
<1> QED BY <1>1, <1>2, <1>3, <1>4

\* What decides the result: nothing else has these addresses.
LEMMA ListIsCanonical ==
  ASSUME NEW n \in Nat, NEW c, AscendingList(c, n), NoSiblings(c, n)
  PROVE  {Bare(c[k]) : k \in 0 .. n - 1} = Canonical(Covered(c, n))
<1> DEFINE U == Covered(c, n)
           inside(p) == /\ Span(p) \subseteq U
                        /\ p.pfxlen > 0 => ~(Span(Supernet(p)) \subseteq U)
<1>1. \A p : p \in Canonical(U) <=> p \in Prefix /\ inside(p)
  <2> SUFFICES ASSUME NEW p \in Prefix
               PROVE  p \in Canonical(U) <=> inside(p)
    BY DEF Canonical
  <2>1. p.pfxlen > 0 => Span([p EXCEPT !.pfxlen = @ - 1]) = Span(Supernet(p))
    BY WiderSpan
  <2> QED BY <2>1 DEF Canonical
<1>2. \A k \in 0 .. n - 1 : /\ IsPrefix(c[k]) /\ IsEntry(c[k])
                            /\ Span(c[k]) \subseteq U
                            /\ Value(c[k].addr) \in Span(c[k])
                            /\ c[k].pfxlen \in Int /\ Value(c[k].addr) \in Nat
  BY InSpan, ValueIsNat, Shape
     DEF AscendingList, Covered, IsPrefix, IsEntry, Pfxlen, MaxPfxlen
<1>3. ASSUME NEW k \in 0 .. n - 1
      PROVE  Bare(c[k]) \in Canonical(U)
  <2>1. Bare(c[k]) \in Prefix /\ Span(Bare(c[k])) = Span(c[k]) /\ Bare(c[k]).pfxlen = c[k].pfxlen
    BY <1>2, BareIs
  <2>2. Supernet(Bare(c[k])) = Supernet(c[k])
    BY DEF Supernet, Bare
  <2>3. c[k].pfxlen > 0 => ~(Span(Supernet(c[k])) \subseteq U)
    BY ParentIsNotCovered
  <2> QED BY <1>1, <1>2, <2>1, <2>2, <2>3
<1>4. ASSUME NEW p, p \in Canonical(U)
      PROVE  \E k \in 0 .. n - 1 : p = Bare(c[k])
  <2>1. /\ p \in Prefix /\ IsPrefix(p) /\ IsEntry(p) /\ inside(p)
        /\ p.pfxlen \in Int /\ p.pfxlen >= 0
    BY <1>1, <1>4, Shape DEF Prefix, IsPrefix, IsEntry, Pfxlen, MaxPfxlen
  <2> DEFINE v == Value(p.addr)
  <2>2. v \in Span(p) /\ v \in Nat
    BY <2>1, InSpan
  <2>3. PICK k \in 0 .. n - 1 : v \in Span(c[k])
    BY <2>1, <2>2 DEF Covered
  <2>4. c[k].pfxlen <= p.pfxlen
    <3> SUFFICES ASSUME p.pfxlen < c[k].pfxlen PROVE FALSE
      BY <1>2, <2>1
    <3> DEFINE s == Supernet(c[k])
    <3>1. /\ IsEntry(s) /\ s.pfxlen = c[k].pfxlen - 1 /\ c[k].pfxlen > 0
          /\ Value(c[k].addr) \in Span(s)
      <4>1. c[k].pfxlen > 0
        BY <1>2, <2>1
      <4> QED BY <1>2, <4>1, SupernetIs DEF IsEntry, Prefix
    <3>2. Span(c[k]) \subseteq Span(p)
      BY <1>2, <2>1, <2>2, <2>3, SpansNest
    <3>3. Span(s) \subseteq Span(p)
      <4>1. p.pfxlen <= s.pfxlen
        BY <1>2, <2>1, <3>1
      <4> HIDE DEF s
      <4> QED BY <1>2, <2>1, <3>1, <3>2, <4>1, SpansNest
    <3> QED BY <2>1, <3>1, <3>3, ParentIsNotCovered
  <2>5. ~(c[k].pfxlen < p.pfxlen)
    <3> SUFFICES ASSUME c[k].pfxlen < p.pfxlen PROVE FALSE
      OBVIOUS
    <3> DEFINE s == Supernet(p)
    <3>1. /\ IsEntry(s) /\ s.pfxlen = p.pfxlen - 1 /\ p.pfxlen > 0
          /\ v \in Span(s)
      <4>1. p.pfxlen > 0
        BY <1>2, <2>1, Shape DEF IsEntry, Pfxlen, MaxPfxlen
      <4> QED BY <2>1, <2>2, <4>1, SupernetIs DEF IsEntry, Prefix
    <3>2. Span(s) \subseteq Span(c[k])
      <4>1. c[k].pfxlen <= s.pfxlen
        BY <1>2, <2>1, <3>1
      <4> HIDE DEF s, v
      <4> QED BY <1>2, <2>3, <3>1, <4>1, SpansNest
    <3> QED BY <1>2, <2>1, <3>1, <3>2
  <2>6. c[k].pfxlen = p.pfxlen
    BY <1>2, <2>1, <2>4, <2>5
  <2>7. p.addr = c[k].addr
    <3>1. BlockOf(v, p.pfxlen) = BlockOf(Value(c[k].addr), c[k].pfxlen)
      BY <1>2, <2>2, <2>3, <2>6, InSpan
    <3> QED BY <1>2, <2>1, <2>6, <3>1, BlockIsPrefix
  <2>8. p = Bare(c[k])
    <3>1. p \in [addr : Address, pfxlen : Pfxlen]
      BY <2>1 DEF Prefix
    <3> QED BY <2>6, <2>7, <3>1 DEF Bare
  <2> QED BY <2>8
<1> QED BY <1>3, <1>4

----------------------------------------------------------------------------
(* The order of cidr_prefix_cmp is transitive.                              *)

LEMMA CmpAgain ==
  ASSUME NEW c, NEW d, NEW e, IsEntry(c), IsEntry(d), IsEntry(e),
         PrefixCmp(c, d) = -1, PrefixCmp(d, e) = -1
  PROVE  PrefixCmp(c, e) = -1
<1>1. /\ Value(c.addr) \in Nat /\ Value(d.addr) \in Nat /\ Value(e.addr) \in Nat
      /\ c.pfxlen \in Int /\ d.pfxlen \in Int /\ e.pfxlen \in Int
  BY ValueIsNat, Shape DEF IsEntry, Pfxlen, MaxPfxlen
<1>2. /\ Value(c.addr) < Value(d.addr) \/ (c.addr = d.addr /\ c.pfxlen < d.pfxlen)
      /\ Value(d.addr) < Value(e.addr) \/ (d.addr = e.addr /\ d.pfxlen < e.pfxlen)
  BY CmpIs
<1>3. Value(c.addr) < Value(e.addr) \/ (c.addr = e.addr /\ c.pfxlen < e.pfxlen)
  BY <1>1, <1>2
<1> QED BY <1>3, CmpIs

----------------------------------------------------------------------------
(* The state of the call.                                                  *)

\* In every state: the slots that are live are slots of the array, and every
\* cell of the array is a prefix.
LEMMA AggShape ==
  ASSUME ShapeInv
  PROVE  /\ EngineTypeOK /\ IsPrefixArray(input)
         /\ Cardinality(DOMAIN input) \in Nat
         /\ DOMAIN input = 0 .. Cardinality(DOMAIN input) - 1
         /\ DOMAIN arr = DOMAIN input
         /\ Bound = 0 .. Cardinality(DOMAIN input)
         /\ count \in Nat /\ count <= Cardinality(DOMAIN input)
         /\ w \in Nat /\ r \in Nat
         /\ LiveSlots \subseteq DOMAIN input
         /\ \A k \in DOMAIN input : arr[k] \in Cell /\ IsPrefix(arr[k]) /\ IsEntry(arr[k])
<1>1. EngineTypeOK /\ IsPrefixArray(input) /\ count \in Bound /\ w \in Bound /\ r \in Bound
  BY DEF ShapeInv, TypeOK, EngineTypeOK
<1>2. /\ Cardinality(DOMAIN input) \in Nat
      /\ DOMAIN input = 0 .. Cardinality(DOMAIN input) - 1
      /\ DOMAIN arr = DOMAIN input
  BY <1>1, Positions DEF EngineTypeOK
<1>3. \A k \in DOMAIN input : arr[k] \in Cell /\ IsPrefix(arr[k]) /\ IsEntry(arr[k])
  BY <1>1, <1>2 DEF ShapeInv, EngineTypeOK, Cell, IsPrefix, IsEntry
<1>4. LiveSlots \subseteq DOMAIN input
  BY <1>1, <1>2 DEF ShapeInv, LiveSlots, Bound
<1> QED BY <1>1, <1>2, <1>3, <1>4 DEF Bound

\* The passes write one cell of the array and leave the sort alone.
LEMMA WriteKeepsShape ==
  ASSUME ShapeInv, phase # "sort", phase' # "sort",
         NEW k \in DOMAIN input, NEW c \in Cell, IsPrefix(c),
         arr' = [arr EXCEPT ![k] = c],
         UNCHANGED <<pending, scanVars, input>>
  PROVE  /\ EngineTypeOK' /\ PartitionInv' /\ EngineIdle' /\ Bound' = Bound
         /\ \A l \in DOMAIN arr' : MaskApply(arr'[l].addr, arr'[l].pfxlen) = arr'[l].addr
         /\ \A l \in DOMAIN input : arr'[l] = IF l = k THEN c ELSE arr[l]
<1>1. DOMAIN arr' = DOMAIN arr /\ \A l \in DOMAIN input : arr'[l] = IF l = k THEN c ELSE arr[l]
  BY AggShape
<1>2. EngineIdle'
  BY DEF ShapeInv, EngineIdle, scanVars
<1>3. EngineTypeOK' /\ Bound' = Bound
  <2>1. Bound' = Bound /\ Cell' = Cell /\ FrameType' = FrameType
    BY DEF Bound, Cell, FrameType
  <2>2. arr' \in [DOMAIN input -> Cell]
    BY DEF ShapeInv, TypeOK, EngineTypeOK
  <2> QED BY <2>1, <2>2 DEF ShapeInv, TypeOK, EngineTypeOK, IsPrefixArray, scanVars
<1>4. PartitionInv'
  BY <1>2 DEF PartitionInv, EngineIdle
<1>5. \A l \in DOMAIN input : IsPrefix(arr'[l])
  BY <1>1, AggShape
<1> QED BY <1>1, <1>2, <1>3, <1>4, <1>5, AggShape DEF IsPrefix

\* The rest leave the array alone too.
LEMMA StayKeepsShape ==
  ASSUME ShapeInv, phase # "sort" \/ EngineIdle,
         UNCHANGED <<engineVars, input>>
  PROVE  /\ EngineTypeOK' /\ PartitionInv' /\ EngineIdle' /\ Bound' = Bound
         /\ \A k \in DOMAIN arr' : MaskApply(arr'[k].addr, arr'[k].pfxlen) = arr'[k].addr
<1>1. EngineTypeOK' /\ PartitionInv'
  BY EngineIdleStep DEF ShapeInv, TypeOK
<1> QED BY <1>1 DEF ShapeInv, EngineIdle, engineVars, Bound

----------------------------------------------------------------------------
(* What the live slots stand for.                                          *)

CoverOf(A, S) == UNION {Span(A[k]) : k \in S}

LEMMA LiveSpan ==
  /\ SpanOf(Live) = CoverOf(arr, LiveSlots)
  /\ SpanOf(Live)' = CoverOf(arr', LiveSlots')
<1>1. \A c : Span(Bare(c)) = Span(c)
  BY DEF Span, Bare
<1> QED BY <1>1 DEF SpanOf, Live, CoverOf

\* Keys that differ are prefixes that differ.
LEMMA AscendingDiffer ==
  ASSUME NEW c, NEW d, IsEntry(c), IsEntry(d), PrefixCmp(c, d) = -1
  PROVE  Bare(c) # Bare(d)
<1> SUFFICES ASSUME Bare(c) = Bare(d) PROVE FALSE
  OBVIOUS
<1>1. c.addr = d.addr /\ c.pfxlen = d.pfxlen
  BY DEF Bare
<1>2. PrefixCmp(c, d) = 0
  BY <1>1, CmpIs
<1> QED BY <1>2

\* The live cells are the same ones.
LEMMA SameLive ==
  ASSUME \A k \in LiveSlots' : \E j \in LiveSlots : arr'[k] = arr[j],
         \A j \in LiveSlots : \E k \in LiveSlots' : arr'[k] = arr[j]
  PROVE  Live' = Live /\ SpanOf(Live)' = SpanOf(Live)
<1>1. Live' = Live
  BY DEF Live
<1> QED BY <1>1, LiveSpan DEF SpanOf

\* The slot a pass writes next, and where the items were before it did.
Free == IF phase = "merge" THEN w ELSE w + 1
Was(k) == IF k = Free THEN r ELSE k

\* An item is moved down to the first free slot: the live ones keep their order.
LEMMA MovesDown ==
  ASSUME ShapeInv, phase \in {"dedupe", "cover", "merge"}, phase' = phase,
         r < count, arr' = [arr EXCEPT ![Free] = arr[r]],
         w' = w + 1, r' = r + 1, count' = count
  PROVE  /\ Free \in DOMAIN input /\ r \in DOMAIN input /\ Free <= r
         /\ LiveSlots' \subseteq DOMAIN input
         /\ r \in LiveSlots /\ Free \in LiveSlots'
         /\ \A k \in LiveSlots' : Was(k) \in LiveSlots /\ arr'[k] = arr[Was(k)]
         /\ \A k, l \in LiveSlots' : k < l => Was(k) < Was(l)
         /\ Live' = Live /\ SpanOf(Live)' = SpanOf(Live)
<1> DEFINE z == Free
           f(k) == IF k = z THEN r ELSE k
<1>1. /\ DOMAIN input = 0 .. Cardinality(DOMAIN input) - 1 /\ DOMAIN arr = DOMAIN input
      /\ Cardinality(DOMAIN input) \in Nat
      /\ count \in Nat /\ count <= Cardinality(DOMAIN input) /\ w \in Nat /\ r \in Nat
  BY AggShape
<1>2. z \in Nat /\ z <= r /\ r \in DOMAIN input /\ z \in DOMAIN input
  BY <1>1 DEF ShapeInv, Free
<1>3. LiveSlots = 0 .. z - 1 \cup r .. count - 1
  BY <1>1 DEF LiveSlots, Free
<1>4. LiveSlots' = 0 .. z \cup r + 1 .. count - 1
  BY <1>1 DEF LiveSlots, Free
<1>4a. arr' = [arr EXCEPT ![z] = arr[r]]
  OBVIOUS
<1> HIDE DEF z
<1>5. \A k \in LiveSlots' : /\ k \in DOMAIN input
                            /\ f(k) \in LiveSlots
                            /\ arr'[k] = arr[f(k)]
  <2> TAKE k \in LiveSlots'
  <2>1. k \in 0 .. z \/ k \in r + 1 .. count - 1
    BY ONLY <1>4, k \in LiveSlots'
  <2>2. k \in DOMAIN input
    BY ONLY <1>1, <1>2, <2>1
  <2>3. CASE k = z
    <3>1. f(k) = r /\ arr'[k] = arr[r]
      BY ONLY <1>1, <1>2, <1>4a, <2>3
    <3>2. r \in r .. count - 1
      BY <1>1, <1>2
    <3> QED BY ONLY <1>3, <2>2, <3>1, <3>2
  <2>4. CASE k # z
    <3>1. f(k) = k /\ arr'[k] = arr[k]
      BY ONLY <1>1, <1>4a, <2>2, <2>4
    <3>2. k \in LiveSlots
      BY ONLY <1>1, <1>2, <1>3, <2>1, <2>4
    <3> QED BY ONLY <2>2, <3>1, <3>2
  <2> QED BY ONLY <2>3, <2>4
<1>6. \A k, l \in LiveSlots' : k < l => f(k) < f(l)
  BY <1>1, <1>2, <1>4, <1>5
<1>7. \A j \in LiveSlots : \E k \in LiveSlots' : arr'[k] = arr[j]
  <2> TAKE j \in LiveSlots
  <2>1. CASE j = r
    <3>1. z \in LiveSlots' /\ f(z) = r
      BY <1>2, <1>4, <1>5
    <3> QED BY <1>5, <2>1, <3>1
  <2>2. CASE j # r
    <3>1. j \in LiveSlots' /\ f(j) = j
      BY <1>1, <1>2, <1>3, <1>4, <1>5, <2>2
    <3> QED BY <1>5, <3>1
  <2> QED BY <2>1, <2>2
<1>8. Live' = Live /\ SpanOf(Live)' = SpanOf(Live)
  BY <1>5, <1>7, SameLive
<1>9. r \in LiveSlots /\ z \in LiveSlots'
  BY <1>1, <1>2, <1>3, <1>4
<1> QED BY <1>2, <1>5, <1>6, <1>8, <1>9 DEF Was, z

----------------------------------------------------------------------------
(* The actions, one lemma each: what the step keeps, and what it does to   *)
(* the set the array stands for.                                           *)

LEMMA AggInit == Init => IInv
<1> SUFFICES ASSUME Init PROVE IInv
  OBVIOUS
<1>1. /\ IsPrefixArray(input) /\ count = Cardinality(DOMAIN input)
      /\ phase = "call" /\ ret = "none" /\ outCount = -1 /\ w = 0 /\ r = 0 /\ merged = FALSE
  BY ArraysAssumption DEF Init, ArrayInit
<1>2. /\ Cardinality(DOMAIN input) \in Nat
      /\ DOMAIN input = 0 .. Cardinality(DOMAIN input) - 1
      /\ input \in [DOMAIN input -> [addr : Address, pfxlen : Pfxlen, fam : Family]]
      /\ 0 \in Bound
  BY <1>1, Positions DEF IsPrefixArray, Bound
<1>3. /\ arr \in [DOMAIN input -> Cell]
      /\ \A k \in DOMAIN input : arr[k].addr = input[k].addr /\ arr[k].pfxlen = input[k].pfxlen
  <2>1. arr = [k \in DOMAIN input |-> [addr |-> input[k].addr, pfxlen |-> input[k].pfxlen,
                                       fam |-> input[k].fam, src |-> k]]
    BY DEF Init, ArrayInit
  <2> QED BY <1>2, <2>1 DEF Cell
<1>4. EngineTypeOK /\ PartitionInv /\ EngineIdle
  <2>1. NoFrame \in FrameType
    BY <1>2 DEF NoFrame, Frame, FrameType, Keys
  <2> QED BY <1>1, <1>2, <1>3, <2>1
      DEF Init, ArrayInit, EngineInit, NoLoop, EngineTypeOK, PartitionInv, EngineIdle
<1>5. \A k \in DOMAIN arr : MaskApply(arr[k].addr, arr[k].pfxlen) = arr[k].addr
  BY <1>1, <1>3 DEF IsPrefixArray
<1>6. ShapeInv
  <2>1. count \in Bound
    BY <1>1, <1>2 DEF Bound
  <2>2. TypeOK
    BY <1>1, <1>2, <1>4, <2>1 DEF TypeOK
  <2> QED BY <1>1, <1>4, <1>5, <2>2 DEF ShapeInv
<1>7. CoverPreserved
  <2>1. LiveSlots = DOMAIN input
    BY <1>1, <1>2 DEF LiveSlots
  <2>2. Live = {Bare(input[k]) : k \in DOMAIN input}
    BY <1>3, <2>1 DEF Live, Bare
  <2> QED BY <2>2 DEF CoverPreserved, InputSpan
<1> QED BY <1>1, <1>6, <1>7
    DEF IInv, AscendingInv, MergeInputDisjoint, ResultIsCanonical

\* The empty array is its own result.
LEMMA EmptyStep ==
  ASSUME IInv, ReturnOnEmpty
  PROVE  IInv' /\ Live' = Live
<1>1. /\ phase = "call" /\ count = 0 /\ outCount' = 0 /\ phase' = "done" /\ ret' = "OK"
      /\ UNCHANGED <<engineVars, input, count, w, r, merged>>
  BY DEF ReturnOnEmpty
<1>2. ShapeInv
  BY DEF IInv
<1>3. ShapeInv'
  <2>1. /\ EngineTypeOK' /\ PartitionInv' /\ EngineIdle' /\ Bound' = Bound
        /\ \A k \in DOMAIN arr' : MaskApply(arr'[k].addr, arr'[k].pfxlen) = arr'[k].addr
    BY <1>1, <1>2, StayKeepsShape
  <2>2. 0 \in Bound
    BY <1>2, AggShape
  <2> QED BY <1>1, <1>2, <2>1, <2>2 DEF ShapeInv, TypeOK
<1>4. LiveSlots = {} /\ LiveSlots' = {} /\ 0 .. outCount' - 1 = {} /\ 0 .. outCount' - 2 = {}
  BY <1>1 DEF LiveSlots
<1>5. Live' = Live /\ Live = {}
  BY <1>4 DEF Live
<1>6. InputSpan' = InputSpan /\ InputSpan = {}
  BY <1>1, <1>5 DEF IInv, CoverPreserved, InputSpan, SpanOf
<1>7. Canonical({}) = {}
  <2> SUFFICES ASSUME NEW p \in Prefix, Span(p) \subseteq {} PROVE FALSE
    BY DEF Canonical
  <2>1. IsEntry(p)
    BY DEF Prefix, IsEntry
  <2> QED BY <2>1, InSpan
<1>8. ResultIsCanonical'
  BY <1>1, <1>4, <1>6, <1>7 DEF ResultIsCanonical
<1>9. CoverPreserved'
  BY <1>5, <1>6 DEF CoverPreserved, SpanOf
<1> QED BY <1>1, <1>3, <1>5, <1>8, <1>9 DEF IInv, AscendingInv, MergeInputDisjoint

\* A refused array is left as it was passed.
LEMMA RejectStep ==
  ASSUME IInv, RejectFamily
  PROVE  IInv' /\ Live' = Live /\ ret' # "OK"
<1>1. /\ phase = "call" /\ phase' = "done" /\ ret' \in {"INVAL", "FAMILY"}
      /\ UNCHANGED <<engineVars, input, count, w, r, merged, outCount>>
      /\ arr' = arr
  BY DEF RejectFamily, engineVars
<1>2. ShapeInv
  BY DEF IInv
<1>3. ShapeInv'
  <2>1. /\ EngineTypeOK' /\ PartitionInv' /\ EngineIdle' /\ Bound' = Bound
        /\ \A k \in DOMAIN arr' : MaskApply(arr'[k].addr, arr'[k].pfxlen) = arr'[k].addr
    BY <1>1, <1>2, StayKeepsShape
  <2> QED BY <1>1, <1>2, <2>1 DEF ShapeInv, TypeOK
<1>4. LiveSlots' = LiveSlots
  BY <1>1 DEF LiveSlots
<1>5. Live' = Live
  BY <1>1, <1>4 DEF Live
<1>6. CoverPreserved'
  BY <1>1, <1>5 DEF IInv, CoverPreserved, InputSpan, SpanOf
<1> QED BY <1>1, <1>3, <1>5, <1>6
    DEF IInv, AscendingInv, MergeInputDisjoint, ResultIsCanonical

LEMMA BeginSortStep ==
  ASSUME IInv, BeginSort
  PROVE  IInv' /\ Live' = Live
<1>1. /\ phase = "call" /\ phase' = "sort" /\ count > 0
      /\ pending' = WholeArray(count, "ASC") /\ EngineIdle
      /\ UNCHANGED <<arr, busy, seg, start, next, i, input, count, w, r, merged, outCount, ret>>
      /\ ret = "none"
  BY DEF BeginSort, scanVars, IInv, ShapeInv
<1>2. ShapeInv
  BY DEF IInv
<1>3. /\ count \in Nat /\ count = Cardinality(DOMAIN input)
      /\ DOMAIN arr = 0 .. count - 1 /\ Bound = 0 .. count
  BY <1>1, <1>2, AggShape DEF ShapeInv
<1>4. WholeArray(count, "ASC") \subseteq FrameType
  BY <1>3 DEF WholeArray, Frame, FrameType, Keys
<1>5. EngineTypeOK' /\ PartitionInv'
  BY <1>1, <1>2, <1>4 DEF ShapeInv, TypeOK, EngineTypeOK, IsPrefixArray, Cell, FrameType,
     Bound, PartitionInv, BucketEnd
<1>6. ShapeInv'
  BY <1>1, <1>2, <1>3, <1>5 DEF ShapeInv, TypeOK, Bound
<1>7. CallsInv("ASC")' /\ OrderedApart("ASC")'
  <2>1. ~busy'
    BY <1>1 DEF EngineIdle
  <2>2. CallsInv("ASC")' /\ \A k, l \in 0 .. count - 1 : Together(k, l)'
    BY <1>1, <2>1, OneCall DEF WholeArray, Keys
  <2> QED BY <1>1, <1>3, <2>2 DEF OrderedApart
<1>8. LiveSlots' = LiveSlots
  BY <1>1 DEF LiveSlots
<1>9. Live' = Live
  BY <1>1, <1>8 DEF Live
<1>10. CoverPreserved'
  BY <1>1, <1>9 DEF IInv, CoverPreserved, InputSpan, SpanOf
<1> QED BY <1>1, <1>6, <1>7, <1>9, <1>10
    DEF IInv, AscendingInv, MergeInputDisjoint, ResultIsCanonical

\* A step of the sort: the array stands for the same set in another order.
LEMMA SortStepKeeps ==
  ASSUME IInv, SortStep
  PROVE  IInv' /\ Live' = Live
<1>1. /\ phase = "sort" /\ phase' = "sort" /\ EngineNext
      /\ UNCHANGED <<input, count, w, r, merged, outCount, ret>>
      /\ ret = "none"
  BY DEF SortStep, aggVars, IInv, ShapeInv
<1>2. /\ ShapeInv /\ EngineTypeOK /\ PartitionInv /\ CallsInv("ASC") /\ OrderedApart("ASC")
  BY <1>1 DEF IInv, ShapeInv, TypeOK, AscendingInv
<1>3. /\ count = Cardinality(DOMAIN input) /\ DOMAIN input = 0 .. count - 1
      /\ DOMAIN arr = DOMAIN input
      /\ \A k \in DOMAIN input : IsPrefix(arr[k])
  BY <1>1, <1>2, AggShape DEF ShapeInv
<1>4. EngineTypeOK' /\ PartitionInv'
  BY <1>1, <1>2, EnginePreserves
<1>5. /\ DOMAIN arr' = DOMAIN input
      /\ \A k \in DOMAIN input : \E j \in DOMAIN input : arr'[k] = arr[j]
      /\ \A k \in DOMAIN input : \E j \in DOMAIN input : arr'[j] = arr[k]
  BY <1>1, <1>2, CellsMove
<1>6. \A k \in DOMAIN arr' : MaskApply(arr'[k].addr, arr'[k].pfxlen) = arr'[k].addr
  <2> TAKE k \in DOMAIN arr'
  <2>1. PICK j \in DOMAIN input : arr'[k] = arr[j]
    BY <1>5
  <2> QED BY <1>3, <2>1 DEF IsPrefix
<1>7. ShapeInv'
  BY <1>1, <1>2, <1>4, <1>6 DEF ShapeInv, TypeOK, Bound
<1>8. CallsInv("ASC")' /\ OrderedApart("ASC")'
  <2>1. PICK C : C = Cell
    OBVIOUS
  <2>2. PICK S : S = DOMAIN input
    OBVIOUS
  <2>3. PICK key : key = "ASC"
    OBVIOUS
  <2> DEFINE R == {e \in C \X C : InOrder(e[1], e[2], key)}
  <2>4. \A k \in S : arr[k] \in C
    BY <1>2, <2>1, <2>2 DEF EngineTypeOK
  <2>5. \A k, l \in S : InOrder(arr[k], arr[l], key) <=> <<arr[k], arr[l]>> \in R
    BY <2>4
  <2>6. ApartRelated(S, R) /\ \A f \in Open : Slots(f) \subseteq S /\ CallsInv(key)
    BY <1>2, <1>3, <2>2, <2>3, <2>5, OpenFrames DEF ApartRelated, OrderedApart
  <2>7. CallsInv(key)' /\ ApartRelated(S, R)'
    <3> HIDE DEF R
    <3> QED BY <1>1, <1>2, <2>2, <2>3, <2>5, <2>6, EngineOrders
  <2>8. CallsInv("ASC")'
    BY <2>3, <2>7 DEF CallsInv
  <2> QED BY <1>5, <2>2, <2>3, <2>7, <2>8 DEF ApartRelated, OrderedApart
<1>9. LiveSlots = DOMAIN input /\ LiveSlots' = DOMAIN input
  BY <1>1, <1>3 DEF LiveSlots
<1>10. Live' = Live
  BY <1>5, <1>9 DEF Live
<1>11. CoverPreserved'
  BY <1>1, <1>10 DEF IInv, CoverPreserved, InputSpan, SpanOf
<1> QED BY <1>1, <1>7, <1>8, <1>10, <1>11
    DEF IInv, AscendingInv, MergeInputDisjoint, ResultIsCanonical

\* The sort is over: nothing is left together, so the array ascends.
LEMMA BeginDedupeStep ==
  ASSUME IInv, BeginDedupe
  PROVE  IInv' /\ Live' = Live
<1>1. /\ phase = "sort" /\ phase' = "dedupe" /\ EngineIdle /\ w' = 0 /\ r' = 1
      /\ UNCHANGED <<engineVars, input, count, merged, outCount, ret>>
      /\ arr' = arr /\ ret = "none"
  BY DEF BeginDedupe, IInv, ShapeInv, engineVars
<1>2. ShapeInv /\ OrderedApart("ASC")
  BY <1>1 DEF IInv, AscendingInv
<1>3. /\ count > 0 /\ count = Cardinality(DOMAIN input) /\ count \in Nat
      /\ DOMAIN arr = 0 .. count - 1 /\ DOMAIN arr = DOMAIN input /\ Bound = 0 .. count
      /\ \A k \in DOMAIN input : IsEntry(arr[k])
  BY <1>1, <1>2, AggShape DEF ShapeInv
<1>4. ShapeInv'
  <2>1. /\ EngineTypeOK' /\ PartitionInv' /\ EngineIdle' /\ Bound' = Bound
        /\ \A k \in DOMAIN arr' : MaskApply(arr'[k].addr, arr'[k].pfxlen) = arr'[k].addr
    BY <1>1, <1>2, StayKeepsShape
  <2> QED BY <1>1, <1>2, <1>3, <2>1, SMTT(30) DEF ShapeInv, TypeOK
<1>5. LiveSlots = DOMAIN input /\ LiveSlots' = DOMAIN input
  <2>1. DOMAIN input = 0 .. count - 1
    BY ONLY <1>3
  <2>2. LiveSlots = DOMAIN input
    BY ONLY <1>1, <2>1 DEF LiveSlots
  <2>3. count' = count /\ input' = input /\ w' = 0 /\ r' = 1 /\ phase' = "dedupe"
    BY ONLY <1>1
  <2>4. LiveSlots' = DOMAIN input
    <3>1. LiveSlots' = 0 .. w' \cup r' .. count' - 1
      BY ONLY <2>3 DEF LiveSlots
    <3>2. 0 .. 0 \cup 1 .. count - 1 = 0 .. count - 1
      BY <1>3
    <3> QED BY ONLY <2>1, <2>3, <3>1, <3>2
  <2> QED BY ONLY <2>2, <2>4
<1>6. \A k, l \in LiveSlots' :
        k < l => PrefixCmp(arr'[k], arr'[l]) \in IF l <= w' THEN {-1} ELSE {-1, 0}
  <2> SUFFICES ASSUME NEW k \in DOMAIN input, NEW l \in DOMAIN input, k < l
               PROVE  PrefixCmp(arr[k], arr[l]) \in {-1, 0} /\ ~(l <= 0)
    BY <1>1, <1>5
  <2>1. InOrder(arr[k], arr[l], "ASC")
    BY <1>1, <1>2, <1>3, NothingOpen DEF OrderedApart
  <2> QED BY <1>3, <2>1, KeyOrderIsCmp
<1>7. Live' = Live
  BY <1>1, <1>5 DEF Live
<1>8. CoverPreserved'
  BY <1>1, <1>7 DEF IInv, CoverPreserved, InputSpan, SpanOf
<1> QED BY <1>1, <1>4, <1>6, <1>7, <1>8
    DEF IInv, AscendingInv, MergeInputDisjoint, ResultIsCanonical

\* Leaving out an item is leaving out its slot.
LEMMA SkipKeepsShape ==
  ASSUME ShapeInv, phase \in {"dedupe", "cover"}, phase' = phase, r < count,
         UNCHANGED <<engineVars, input, count, w, merged, outCount, ret>>, r' = r + 1
  PROVE  /\ ShapeInv'
         /\ w \in LiveSlots /\ r \in LiveSlots /\ w < r
         /\ LiveSlots' = LiveSlots \ {r} /\ w \in LiveSlots'
         /\ arr' = arr /\ LiveSlots \subseteq DOMAIN input
<1>1. /\ EngineTypeOK' /\ PartitionInv' /\ EngineIdle' /\ Bound' = Bound
      /\ \A k \in DOMAIN arr' : MaskApply(arr'[k].addr, arr'[k].pfxlen) = arr'[k].addr
  BY StayKeepsShape
<1>2. /\ count \in Nat /\ w \in Nat /\ r \in Nat /\ w < r
      /\ Bound = 0 .. Cardinality(DOMAIN input) /\ Cardinality(DOMAIN input) \in Nat
      /\ count <= Cardinality(DOMAIN input) /\ LiveSlots \subseteq DOMAIN input
  BY AggShape DEF ShapeInv
<1>3. ShapeInv'
  BY <1>1, <1>2 DEF ShapeInv, TypeOK
<1>4. LiveSlots = 0 .. w \cup r .. count - 1 /\ LiveSlots' = 0 .. w \cup r + 1 .. count - 1
  BY DEF LiveSlots
<1>5. /\ w \in LiveSlots /\ r \in LiveSlots
      /\ LiveSlots' = LiveSlots \ {r} /\ w \in LiveSlots'
  BY <1>2, <1>4
<1> QED BY <1>2, <1>3, <1>5 DEF engineVars

LEMMA MoveKeepsShape ==
  ASSUME ShapeInv, phase \in {"dedupe", "cover", "merge"}, phase' = phase,
         r < count, arr' = [arr EXCEPT ![Free] = arr[r]],
         w' = w + 1, r' = r + 1,
         UNCHANGED <<pending, scanVars, input, count, outCount, ret, merged>>
  PROVE  ShapeInv'
<1>1. /\ count \in Nat /\ w \in Nat /\ r \in Nat /\ Free <= r /\ w <= r
      /\ Bound = 0 .. Cardinality(DOMAIN input) /\ Cardinality(DOMAIN input) \in Nat
      /\ count <= Cardinality(DOMAIN input)
  BY AggShape DEF ShapeInv, Free
<1>2. Free \in DOMAIN input /\ r \in DOMAIN input
  BY MovesDown
<1>3. arr[r] \in Cell /\ IsPrefix(arr[r])
  BY <1>2, AggShape
<1>4. /\ EngineTypeOK' /\ PartitionInv' /\ EngineIdle' /\ Bound' = Bound
      /\ \A k \in DOMAIN arr' : MaskApply(arr'[k].addr, arr'[k].pfxlen) = arr'[k].addr
  BY <1>2, <1>3, WriteKeepsShape
<1>5. w' \in Bound' /\ r' \in Bound'
  BY <1>1, <1>4
<1> QED BY <1>1, <1>4, <1>5 DEF ShapeInv, TypeOK

\* The dedupe pass leaves out what is listed twice and keeps the rest.
LEMMA DedupeStep ==
  ASSUME IInv, Dedupe
  PROVE  IInv' /\ Live' = Live
<1>1. /\ phase = "dedupe" /\ phase' = "dedupe" /\ r < count /\ r' = r + 1
      /\ UNCHANGED <<pending, scanVars, input, count, merged, outCount, ret>>
      /\ ret = "none"
  BY DEF Dedupe, IInv, ShapeInv
<1>2. /\ ShapeInv
      /\ \A k, l \in LiveSlots :
           k < l => PrefixCmp(arr[k], arr[l]) \in IF l <= w THEN {-1} ELSE {-1, 0}
  BY <1>1 DEF IInv, AscendingInv
<1>3. \A k \in LiveSlots : k \in DOMAIN input /\ IsEntry(arr[k]) /\ k \in Nat
  BY <1>2, AggShape
<1>4. /\ ShapeInv' /\ Live' = Live
      /\ \A k, l \in LiveSlots' :
           k < l => PrefixCmp(arr'[k], arr'[l]) \in IF l <= w' THEN {-1} ELSE {-1, 0}
  <2>1. CASE SameKey(arr[w], arr[r])
    <3>1. UNCHANGED <<engineVars, w>>
      BY <1>1, <2>1 DEF Dedupe, Skip, engineVars, scanVars
    <3>2. /\ ShapeInv' /\ w \in LiveSlots /\ r \in LiveSlots
          /\ LiveSlots' = LiveSlots \ {r} /\ w \in LiveSlots' /\ arr' = arr
      BY <1>1, <1>2, <3>1, SkipKeepsShape
    <3>3. Bare(arr[w]) = Bare(arr[r])
      BY <2>1 DEF SameKey, Bare
    <3>4. Live' = Live
      BY <3>2, <3>3 DEF Live
    <3> QED BY <1>2, <3>1, <3>2, <3>4
  <2>2. CASE ~SameKey(arr[w], arr[r])
    <3>1. Free = w + 1 /\ w' = w + 1 /\ arr' = [arr EXCEPT ![Free] = arr[r]]
      BY <1>1, <2>2 DEF Dedupe, Keep, Free
    <3>3. ShapeInv'
      BY <1>1, <1>2, <3>1, MoveKeepsShape
    <3>4. /\ r \in DOMAIN input /\ LiveSlots' \subseteq DOMAIN input /\ r \in LiveSlots
          /\ \A k \in LiveSlots' : Was(k) \in LiveSlots /\ arr'[k] = arr[Was(k)]
          /\ \A k, l \in LiveSlots' : k < l => Was(k) < Was(l)
          /\ Live' = Live
      BY <1>1, <1>2, <3>1, MovesDown
    <3>5. \A k : Was(k) = IF k = w + 1 THEN r ELSE k
      BY <3>1 DEF Was
    <3>6. w \in LiveSlots /\ w < r /\ w \in Nat /\ r \in Nat
      BY <1>1, <1>2, AggShape DEF LiveSlots, ShapeInv
    <3>7. PrefixCmp(arr[w], arr[r]) = -1
      <4>1. PrefixCmp(arr[w], arr[r]) \in {-1, 0}
        BY <1>2, <3>4, <3>6
      <4>2. PrefixCmp(arr[w], arr[r]) # 0
        BY <1>3, <2>2, <3>4, <3>6, CmpIs DEF SameKey
      <4> QED BY <4>1, <4>2
    <3>8. ASSUME NEW k \in LiveSlots', NEW l \in LiveSlots', k < l
          PROVE  PrefixCmp(arr'[k], arr'[l]) \in IF l <= w' THEN {-1} ELSE {-1, 0}
      <4>1. /\ Was(k) < Was(l) /\ Was(k) \in LiveSlots /\ Was(l) \in LiveSlots
            /\ arr'[k] = arr[Was(k)] /\ arr'[l] = arr[Was(l)]
            /\ k \in Nat /\ l \in Nat
        BY <1>2, <3>4, <3>8, AggShape
      <4>2. PrefixCmp(arr[Was(k)], arr[Was(l)]) \in {-1, 0}
        BY <1>2, <4>1
      <4>3. CASE l <= w
        <5>1. Was(l) = l
          BY <3>5, <3>6, <4>1, <4>3
        <5> QED BY <1>2, <3>1, <3>6, <4>1, <4>3, <5>1
      <4>4. CASE l = w + 1
        <5>1. Was(l) = r /\ Was(k) = k /\ k <= w
          BY <3>5, <3>6, <3>8, <4>1, <4>4
        <5>2. k = w \/ PrefixCmp(arr[k], arr[w]) = -1
          BY <1>2, <3>6, <4>1, <5>1
        <5>3. PrefixCmp(arr[k], arr[r]) = -1
          BY <1>3, <3>4, <3>6, <3>7, <4>1, <5>1, <5>2, CmpAgain
        <5> QED BY <3>1, <4>1, <5>1, <5>3
      <4>5. CASE l > w + 1
        BY <3>1, <3>6, <4>1, <4>2, <4>5
      <4> QED BY <3>6, <4>1, <4>3, <4>4, <4>5
    <3> QED BY <3>3, <3>4, <3>8
  <2> QED BY <2>1, <2>2
<1>5. CoverPreserved'
  BY <1>1, <1>4 DEF IInv, CoverPreserved, InputSpan, SpanOf
<1> QED BY <1>1, <1>4, <1>5
    DEF IInv, AscendingInv, MergeInputDisjoint, ResultIsCanonical

\* The dedupe pass is over: what it kept is the array.
LEMMA BeginCoverStep ==
  ASSUME IInv, BeginCover
  PROVE  IInv' /\ Live' = Live
<1>1. /\ phase = "dedupe" /\ phase' = "cover" /\ r = count /\ count' = w + 1
      /\ w' = 0 /\ r' = 1 /\ arr' = arr
      /\ UNCHANGED <<engineVars, input, merged, outCount, ret>> /\ ret = "none"
  BY DEF BeginCover, IInv, ShapeInv, engineVars
<1>2. /\ ShapeInv
      /\ \A k, l \in LiveSlots :
           k < l => PrefixCmp(arr[k], arr[l]) \in IF l <= w THEN {-1} ELSE {-1, 0}
  BY <1>1 DEF IInv, AscendingInv
<1>3. /\ count \in Nat /\ w \in Nat /\ r \in Nat /\ w < r
      /\ Bound = 0 .. Cardinality(DOMAIN input) /\ Cardinality(DOMAIN input) \in Nat
      /\ count <= Cardinality(DOMAIN input)
  BY <1>1, <1>2, AggShape DEF ShapeInv
<1>4. ShapeInv'
  <2>1. /\ EngineTypeOK' /\ PartitionInv' /\ EngineIdle' /\ Bound' = Bound
        /\ \A k \in DOMAIN arr' : MaskApply(arr'[k].addr, arr'[k].pfxlen) = arr'[k].addr
    BY <1>1, <1>2, StayKeepsShape
  <2>2. count' \in Bound /\ w' \in Bound /\ r' \in Bound
    BY <1>1, <1>3
  <2> QED BY <1>1, <1>2, <1>3, <2>1, <2>2 DEF ShapeInv, TypeOK
<1>5. LiveSlots = 0 .. w /\ LiveSlots' = 0 .. w
  BY <1>1, <1>3 DEF LiveSlots
<1>6. \A k, l \in LiveSlots' :
        k < l => /\ PrefixCmp(arr'[k], arr'[l]) = -1
                 /\ l <= w' => Span(arr'[k]) \cap Span(arr'[l]) = {}
  BY <1>1, <1>2, <1>3, <1>5
<1>7. Live' = Live
  BY <1>1, <1>5 DEF Live
<1>8. CoverPreserved'
  BY <1>1, <1>7 DEF IInv, CoverPreserved, InputSpan, SpanOf
<1> QED BY <1>1, <1>4, <1>6, <1>7, <1>8
    DEF IInv, AscendingInv, MergeInputDisjoint, ResultIsCanonical

\* What is kept is disjoint, so the last prefix kept decides alone whether
\* the next one is covered.
LEMMA CoverStep ==
  ASSUME IInv, DropCovered
  PROVE  /\ IInv'
         /\ \/ Live' = Live
            \/ /\ Bare(arr[r]) # Bare(arr[w])
               /\ Span(arr[r]) \subseteq Span(arr[w])
               /\ w \in LiveSlots /\ r \in LiveSlots
               /\ Live' = Live \ {Bare(arr[r])}
<1>1. /\ phase = "cover" /\ phase' = "cover" /\ r < count /\ r' = r + 1
      /\ UNCHANGED <<pending, scanVars, input, count, merged, outCount, ret>>
      /\ ret = "none"
  BY DEF DropCovered, IInv, ShapeInv
<1>2. /\ ShapeInv
      /\ \A k, l \in LiveSlots :
           k < l => /\ PrefixCmp(arr[k], arr[l]) = -1
                    /\ l <= w => Span(arr[k]) \cap Span(arr[l]) = {}
  BY <1>1 DEF IInv, AscendingInv
<1>3. \A k \in LiveSlots : k \in DOMAIN input /\ IsEntry(arr[k]) /\ IsPrefix(arr[k]) /\ k \in Nat
  BY <1>2, AggShape
<1>4. w \in LiveSlots /\ r \in LiveSlots /\ w < r /\ w \in Nat /\ r \in Nat
  BY <1>1, <1>2, AggShape DEF LiveSlots, ShapeInv
<1>5. PrefixCmp(arr[w], arr[r]) = -1
  BY <1>2, <1>4
<1>6. IF PrefixMatches(arr[w], arr[r].addr)
      THEN Span(arr[r]) \subseteq Span(arr[w])
      ELSE Apart(arr[w], arr[r])
  BY <1>3, <1>4, <1>5, AscendingPair
<1> DEFINE Sparse == \A k, l \in LiveSlots :
                       k < l => /\ PrefixCmp(arr[k], arr[l]) = -1
                                /\ l <= w => Span(arr[k]) \cap Span(arr[l]) = {}
<1>7. CASE PrefixMatches(arr[w], arr[r].addr)
  <2>1. UNCHANGED <<engineVars, w>>
    BY <1>1, <1>7 DEF DropCovered, Skip, engineVars, scanVars
  <2>2. /\ ShapeInv' /\ LiveSlots' = LiveSlots \ {r} /\ w \in LiveSlots' /\ arr' = arr
    BY <1>1, <1>2, <2>1, SkipKeepsShape
  <2>3. Sparse'
    BY <1>2, <2>1, <2>2
  <2>4. \A k \in LiveSlots \ {r} : Bare(arr[k]) # Bare(arr[r])
    <3> TAKE k \in LiveSlots \ {r}
    <3>1. PrefixCmp(arr[k], arr[r]) = -1 \/ PrefixCmp(arr[r], arr[k]) = -1
      BY <1>2, <1>3, <1>4
    <3> QED BY <1>3, <1>4, <3>1, AscendingDiffer
  <2>5. Live' = Live \ {Bare(arr[r])}
    BY <2>2, <2>4 DEF Live
  <2>6. SpanOf(Live)' = SpanOf(Live)
    BY <1>4, <1>6, <1>7, <2>2, LiveSpan DEF CoverOf
  <2>7. Bare(arr[r]) # Bare(arr[w])
    BY <1>4, <2>4
  <2>8. CoverPreserved'
    BY <1>1, <2>6 DEF IInv, CoverPreserved, InputSpan
  <2>9. IInv'
    BY <1>1, <2>2, <2>3, <2>8 DEF IInv, AscendingInv, MergeInputDisjoint, ResultIsCanonical
  <2> QED BY <1>4, <1>6, <1>7, <2>5, <2>7, <2>9
<1>8. CASE ~PrefixMatches(arr[w], arr[r].addr)
  <2>1. Free = w + 1 /\ w' = w + 1 /\ arr' = [arr EXCEPT ![Free] = arr[r]]
    BY <1>1, <1>8 DEF DropCovered, Keep, Free
  <2>2. ShapeInv'
    BY <1>1, <1>2, <2>1, MoveKeepsShape
  <2>3. /\ r \in DOMAIN input /\ LiveSlots' \subseteq DOMAIN input /\ r \in LiveSlots
        /\ \A k \in LiveSlots' : Was(k) \in LiveSlots /\ arr'[k] = arr[Was(k)]
        /\ \A k, l \in LiveSlots' : k < l => Was(k) < Was(l)
        /\ Live' = Live
    BY <1>1, <1>2, <2>1, MovesDown
  <2>4. \A k : Was(k) = IF k = w + 1 THEN r ELSE k
    BY <2>1 DEF Was
  <2>5. ASSUME NEW k \in LiveSlots', NEW l \in LiveSlots', k < l
        PROVE  /\ PrefixCmp(arr'[k], arr'[l]) = -1
               /\ l <= w' => Span(arr'[k]) \cap Span(arr'[l]) = {}
    <3>1. /\ Was(k) < Was(l) /\ Was(k) \in LiveSlots /\ Was(l) \in LiveSlots
          /\ arr'[k] = arr[Was(k)] /\ arr'[l] = arr[Was(l)]
          /\ k \in Nat /\ l \in Nat
      BY <1>2, <2>3, <2>5, AggShape
    <3>2. PrefixCmp(arr'[k], arr'[l]) = -1
      BY <1>2, <3>1
    <3>3. CASE l <= w
      <4>1. Was(l) = l
        BY <1>4, <2>4, <3>1, <3>3
      <4> QED BY <1>2, <3>1, <3>2, <3>3, <4>1
    <3>4. CASE l = w + 1
      <4>1. Was(l) = r /\ Was(k) = k /\ k <= w
        BY <1>4, <2>4, <2>5, <3>1, <3>4
      <4>2. k = w \/ Apart(arr[k], arr[w])
        BY <1>2, <1>3, <1>4, <3>1, <4>1, ApartIs
      <4>3. Apart(arr[k], arr[r])
        BY <1>3, <1>4, <1>6, <1>8, <3>1, <4>1, <4>2, ApartAgain
      <4>4. Span(arr[k]) \cap Span(arr[r]) = {}
        BY <1>3, <1>4, <3>1, <4>1, <4>3, ApartIs
      <4> QED BY <3>1, <3>2, <4>1, <4>4
    <3>5. CASE l > w + 1
      BY <1>4, <2>1, <3>1, <3>2, <3>5
    <3> QED BY <1>4, <3>1, <3>3, <3>4, <3>5
  <2>6. CoverPreserved'
    BY <1>1, <2>3 DEF IInv, CoverPreserved, InputSpan, SpanOf
  <2>7. IInv'
    BY <1>1, <2>2, <2>5, <2>6 DEF IInv, AscendingInv, MergeInputDisjoint, ResultIsCanonical
  <2> QED BY <2>3, <2>7
<1> QED BY <1>7, <1>8

\* Nothing is covered any more: the prefixes are disjoint.
LEMMA BeginMergeStep ==
  ASSUME IInv, BeginMerge
  PROVE  IInv' /\ Live' = Live
<1>1. /\ phase = "cover" /\ phase' = "merge" /\ r = count /\ count' = w + 1
      /\ merged' = FALSE /\ w' = 0 /\ r' = 0 /\ arr' = arr
      /\ UNCHANGED <<engineVars, input, outCount, ret>> /\ ret = "none"
  BY DEF BeginMerge, IInv, ShapeInv, engineVars
<1>2. /\ ShapeInv
      /\ \A k, l \in LiveSlots :
           k < l => /\ PrefixCmp(arr[k], arr[l]) = -1
                    /\ l <= w => Span(arr[k]) \cap Span(arr[l]) = {}
  BY <1>1 DEF IInv, AscendingInv
<1>3. /\ count \in Nat /\ w \in Nat /\ r \in Nat /\ w < r
      /\ Bound = 0 .. Cardinality(DOMAIN input) /\ Cardinality(DOMAIN input) \in Nat
      /\ count <= Cardinality(DOMAIN input)
  BY <1>1, <1>2, AggShape DEF ShapeInv
<1>4. ShapeInv'
  <2>1. /\ EngineTypeOK' /\ PartitionInv' /\ EngineIdle' /\ Bound' = Bound
        /\ \A k \in DOMAIN arr' : MaskApply(arr'[k].addr, arr'[k].pfxlen) = arr'[k].addr
    BY <1>1, <1>2, StayKeepsShape
  <2>2. count' \in Bound /\ w' \in Bound /\ r' \in Bound
    BY <1>1, <1>3
  <2>3. TypeOK'
    BY <1>1, <1>2, <2>1, <2>2 DEF ShapeInv, TypeOK
  <2>4. w' <= r' /\ r' <= count'
    BY <1>1, <1>3
  <2> QED BY <1>1, <1>2, <2>1, <2>3, <2>4 DEF ShapeInv
<1>5. LiveSlots = 0 .. w /\ LiveSlots' = 0 .. w
  BY <1>1, <1>3 DEF LiveSlots
<1>6. MergeInputDisjoint'
  <2> SUFFICES ASSUME NEW k \in 0 .. w, NEW l \in 0 .. w, k < l
               PROVE  Span(arr[k]) \cap Span(arr[l]) = {} /\ PrefixCmp(arr[k], arr[l]) = -1
    BY <1>1, <1>5 DEF MergeInputDisjoint
  <2>1. l <= w
    BY <1>3
  <2> QED BY <1>2, <1>5, <2>1
<1>7. 1 .. w' - 1 = {}
  BY <1>1
<1>8. Live' = Live
  BY <1>1, <1>5 DEF Live
<1>9. CoverPreserved'
  BY <1>1, <1>8 DEF IInv, CoverPreserved, InputSpan, SpanOf
<1> QED BY <1>1, <1>4, <1>6, <1>7, <1>8, <1>9 DEF IInv, AscendingInv, ResultIsCanonical

\* The order of the merge pass, as intervals.
LEMMA MergeIsApart ==
  ASSUME ShapeInv, phase = "merge"
  PROVE  MergeInputDisjoint <=> \A k, l \in LiveSlots : k < l => Apart(arr[k], arr[l])
<1>1. \A k \in LiveSlots : IsPrefix(arr[k])
  BY AggShape
<1> QED BY <1>1, ApartIs DEF MergeInputDisjoint

\* Two halves give way to their parent, which takes the place of the first.
LEMMA MergeStep ==
  ASSUME IInv, MergeSiblings
  PROVE  /\ IInv'
         /\ w - 1 \in LiveSlots /\ r \in LiveSlots
         /\ Bare(arr[w - 1]) # Bare(arr[r])
         /\ arr[w - 1].pfxlen = arr[r].pfxlen
         /\ Supernet(arr[r]) \in Prefix
         /\ Supernet(arr[r]).pfxlen = arr[r].pfxlen - 1 /\ arr[r].pfxlen \in Int
         /\ Span(arr[w - 1]) \cup Span(arr[r]) = Span(Supernet(arr[r]))
         /\ Live' = (Live \ {Bare(arr[w - 1]), Bare(arr[r])}) \cup {Supernet(arr[r])}
<1> DEFINE p == arr[w - 1]
           q == arr[r]
           s == Supernet(q)
           c == [q EXCEPT !.addr = s.addr, !.pfxlen = s.pfxlen]
<1>1. /\ phase = "merge" /\ phase' = "merge" /\ r < count /\ w > 0 /\ AreSiblings(p, q)
      /\ arr' = [arr EXCEPT ![w - 1] = c]
      /\ merged' = TRUE /\ r' = r + 1 /\ w' = w
      /\ UNCHANGED <<pending, scanVars, input, count, outCount, ret>>
      /\ ret = "none"
  BY DEF MergeSiblings, IInv, ShapeInv
<1>2. ShapeInv /\ \A k, l \in LiveSlots : k < l => Apart(arr[k], arr[l])
  BY <1>1, MergeIsApart DEF IInv
<1>3. /\ count \in Nat /\ w \in Nat /\ r \in Nat /\ w <= r
      /\ Bound = 0 .. Cardinality(DOMAIN input) /\ Cardinality(DOMAIN input) \in Nat
      /\ DOMAIN input = 0 .. Cardinality(DOMAIN input) - 1
      /\ count <= Cardinality(DOMAIN input)
      /\ LiveSlots \subseteq DOMAIN input
      /\ \A k \in DOMAIN input : arr[k] \in Cell /\ IsPrefix(arr[k]) /\ IsEntry(arr[k])
  BY <1>1, <1>2, AggShape DEF ShapeInv
<1>4. LiveSlots = 0 .. w - 1 \cup r .. count - 1 /\ LiveSlots' = 0 .. w - 1 \cup r + 1 .. count - 1
  BY <1>1 DEF LiveSlots
<1>5. /\ w - 1 \in LiveSlots /\ r \in LiveSlots /\ w - 1 < r
      /\ LiveSlots' = LiveSlots \ {r} /\ w - 1 \in LiveSlots'
      /\ w - 1 \in DOMAIN input
  BY <1>1, <1>3, <1>4
<1>6. /\ IsPrefix(p) /\ IsPrefix(q) /\ IsEntry(p) /\ IsEntry(q) /\ q \in Cell
      /\ Apart(p, q) /\ p.addr # q.addr /\ Span(p) \cap Span(q) = {}
  <2>1. IsPrefix(p) /\ IsPrefix(q) /\ IsEntry(p) /\ IsEntry(q) /\ q \in Cell /\ Apart(p, q)
    BY <1>2, <1>3, <1>5
  <2>2. Span(p) \cap Span(q) = {} /\ Value(p.addr) \in Span(p) /\ Value(q.addr) \in Span(q)
    BY <2>1, ApartIs, InSpan
  <2> QED BY <2>1, <2>2
<1>7. AreSiblings(q, p) /\ q.pfxlen = p.pfxlen /\ q.pfxlen > 0 /\ q.pfxlen \in Int
  BY <1>1, <1>6, SiblingsAre, Shape DEF IsEntry, Pfxlen, MaxPfxlen
<1>8. Span(s) = Span(p) \cup Span(q)
  BY <1>6, <1>7, SiblingsAreHalves
<1>9. s \in Prefix /\ s.pfxlen = q.pfxlen - 1 /\ s.addr \in Address /\ s.pfxlen \in Pfxlen
  BY <1>6, <1>7, SupernetIs DEF Prefix
<1>10. c \in Cell /\ c.addr = s.addr /\ c.pfxlen = s.pfxlen
  BY <1>6, <1>9 DEF Cell
<1>11. Bare(c) = s
  <2>1. s \in [addr : Address, pfxlen : Pfxlen]
    BY <1>9 DEF Prefix
  <2> HIDE DEF s, c
  <2> QED BY <1>10, <2>1 DEF Bare
<1> HIDE DEF s, c
<1>12. IsPrefix(c) /\ Span(c) = Span(s)
  BY <1>9, <1>10 DEF IsPrefix, IsEntry, Prefix, Span
<1>13. /\ EngineTypeOK' /\ PartitionInv' /\ EngineIdle' /\ Bound' = Bound
       /\ \A l \in DOMAIN arr' : MaskApply(arr'[l].addr, arr'[l].pfxlen) = arr'[l].addr
       /\ \A l \in DOMAIN input : arr'[l] = IF l = w - 1 THEN c ELSE arr[l]
  BY <1>1, <1>2, <1>5, <1>10, <1>12, WriteKeepsShape
<1>14. ShapeInv'
  <2>1. r' \in Bound /\ r' <= count' /\ w' <= r'
    BY <1>1, <1>3
  <2>2. TypeOK'
    BY <1>1, <1>2, <1>13, <2>1 DEF ShapeInv, TypeOK
  <2> QED BY <1>1, <1>2, <1>13, <2>1, <2>2 DEF ShapeInv
<1>15. \A k \in LiveSlots' : /\ k \in LiveSlots /\ k \in Int
                             /\ arr'[k] = IF k = w - 1 THEN c ELSE arr[k]
                             /\ k < w - 1 \/ k = w - 1 \/ r < k
  BY <1>3, <1>4, <1>5, <1>13
<1>16. MergeInputDisjoint'
  <2>1. \A k, l \in LiveSlots' : k < l => Apart(arr'[k], arr'[l])
    <3> SUFFICES ASSUME NEW k \in LiveSlots', NEW l \in LiveSlots', k < l
                 PROVE  Apart(arr'[k], arr'[l])
      OBVIOUS
    <3>1. CASE k = w - 1
      <4>1. l # w - 1 /\ w - 1 < l /\ r < l
        BY <1>3, <1>15, <3>1
      <4>2. Apart(p, arr[l]) /\ Apart(q, arr[l])
        BY <1>2, <1>5, <1>15, <4>1
      <4>3. Apart(c, arr[l])
        BY <1>8, <1>12, <4>2 DEF Apart
      <4> QED BY <1>15, <3>1, <4>1, <4>3
    <3>2. CASE l = w - 1
      <4>1. k # w - 1 /\ k < w - 1 /\ k < r
        BY <1>3, <1>15, <3>2
      <4>2. Apart(arr[k], p) /\ Apart(arr[k], q)
        BY <1>2, <1>5, <1>15, <4>1
      <4>3. Apart(arr[k], c)
        BY <1>8, <1>12, <4>2 DEF Apart
      <4> QED BY <1>15, <3>2, <4>1, <4>3
    <3>3. CASE k # w - 1 /\ l # w - 1
      BY <1>2, <1>15, <3>3
    <3> QED BY <3>1, <3>2, <3>3
  <2>2. \A k \in LiveSlots' : IsPrefix(arr'[k])
    BY <1>3, <1>12, <1>15
  <2> QED BY <2>1, <2>2, ApartIs DEF MergeInputDisjoint
<1>17. /\ Bare(p) # Bare(q)
       /\ \A k \in LiveSlots \ {w - 1, r} : Bare(arr[k]) # Bare(p) /\ Bare(arr[k]) # Bare(q)
  <2>1. ASSUME NEW k \in LiveSlots, NEW l \in LiveSlots, k < l
        PROVE  Bare(arr[k]) # Bare(arr[l])
    <3>1. PrefixCmp(arr[k], arr[l]) = -1
      BY <1>2, <1>3, <2>1, ApartIs
    <3> QED BY <1>3, <2>1, <3>1, AscendingDiffer
  <2>2. \A k \in LiveSlots : k \in Int
    BY <1>3
  <2> QED BY <1>3, <1>5, <2>1, <2>2
<1>18. Live' = (Live \ {Bare(p), Bare(q)}) \cup {s}
  <2>1. \A x : x \in Live' <=> \E k \in LiveSlots' : x = Bare(arr'[k])
    BY DEF Live
  <2>2. \A x : x \in Live' <=> x = s \/ \E k \in LiveSlots \ {w - 1, r} : x = Bare(arr[k])
    BY <1>5, <1>11, <1>15, <2>1
  <2>3. \A x : x \in Live \ {Bare(p), Bare(q)}
                 <=> \E k \in LiveSlots \ {w - 1, r} : x = Bare(arr[k])
    BY <1>17 DEF Live
  <2> QED BY <2>2, <2>3
<1>19. SpanOf(Live)' = SpanOf(Live)
  <2>1. \A v : v \in CoverOf(arr', LiveSlots') <=>
               v \in Span(s) \/ \E k \in LiveSlots \ {w - 1, r} : v \in Span(arr[k])
    BY <1>5, <1>12, <1>15 DEF CoverOf
  <2>2. \A v : v \in CoverOf(arr, LiveSlots) <=>
               v \in Span(p) \/ v \in Span(q) \/ \E k \in LiveSlots \ {w - 1, r} : v \in Span(arr[k])
    BY <1>5 DEF CoverOf
  <2>3. CoverOf(arr', LiveSlots') = CoverOf(arr, LiveSlots)
    BY <1>8, <2>1, <2>2
  <2> QED BY <2>3, LiveSpan
<1>20. CoverPreserved'
  BY <1>1, <1>19 DEF IInv, CoverPreserved, InputSpan
<1>21. IInv'
  BY <1>1, <1>14, <1>16, <1>20 DEF IInv, AscendingInv, ResultIsCanonical
<1> QED BY <1>5, <1>7, <1>8, <1>9, <1>17, <1>18, <1>21 DEF s

\* Whatever has no sibling before it is kept.
LEMMA MoveStep ==
  ASSUME IInv, MoveDown
  PROVE  IInv' /\ Live' = Live
<1>1. /\ phase = "merge" /\ phase' = "merge" /\ r < count
      /\ w > 0 => ~AreSiblings(arr[w - 1], arr[r])
      /\ Free = w /\ arr' = [arr EXCEPT ![Free] = arr[r]]
      /\ w' = w + 1 /\ r' = r + 1
      /\ UNCHANGED <<pending, scanVars, input, count, merged, outCount, ret>>
      /\ ret = "none"
  BY DEF MoveDown, Free, IInv, ShapeInv
<1>2. ShapeInv /\ \A k, l \in LiveSlots : k < l => Apart(arr[k], arr[l])
  BY <1>1, MergeIsApart DEF IInv
<1>3. ShapeInv'
  BY <1>1, <1>2, MoveKeepsShape
<1>4. /\ LiveSlots' \subseteq DOMAIN input /\ r \in LiveSlots
      /\ \A k \in LiveSlots' : Was(k) \in LiveSlots /\ arr'[k] = arr[Was(k)]
      /\ \A k, l \in LiveSlots' : k < l => Was(k) < Was(l)
      /\ Live' = Live
  BY <1>1, <1>2, MovesDown
<1>5. \A k : Was(k) = IF k = w THEN r ELSE k
  BY <1>1 DEF Was
<1>6. MergeInputDisjoint'
  <2>1. \A k, l \in LiveSlots' : k < l => Apart(arr'[k], arr'[l])
    BY <1>2, <1>4
  <2>2. \A k \in LiveSlots' : IsPrefix(arr'[k])
    BY <1>2, <1>4, AggShape
  <2> QED BY <2>1, <2>2, ApartIs DEF MergeInputDisjoint
<1>7. ~merged' => \A k \in 1 .. w' - 1 : ~AreSiblings(arr'[k - 1], arr'[k])
  <2> SUFFICES ASSUME ~merged, NEW k \in 1 .. w
               PROVE  ~AreSiblings(arr'[k - 1], arr'[k])
    BY <1>1, <1>2, AggShape
  <2>1. /\ w \in Nat /\ r \in Nat /\ w <= r /\ r < count /\ count \in Nat
        /\ LiveSlots' = 0 .. w \cup r + 1 .. count - 1
    BY <1>1, <1>2, AggShape DEF ShapeInv, LiveSlots
  <2>2. k - 1 \in LiveSlots' /\ k \in LiveSlots' /\ k - 1 # w /\ k \in Int
    BY <2>1
  <2>3. arr'[k - 1] = arr[k - 1] /\ arr'[k] = IF k = w THEN arr[r] ELSE arr[k]
    BY <1>4, <1>5, <2>2
  <2>4. CASE k = w
    BY <1>1, <2>1, <2>3, <2>4
  <2>5. CASE k # w
    <3>1. k \in 1 .. w - 1
      BY <2>1, <2>5
    <3> QED BY <1>1, <2>3, <2>5, <3>1 DEF IInv, AscendingInv
  <2> QED BY <2>4, <2>5
<1>8. CoverPreserved'
  BY <1>1, <1>4 DEF IInv, CoverPreserved, InputSpan, SpanOf
<1> QED BY <1>1, <1>3, <1>4, <1>6, <1>7, <1>8 DEF IInv, AscendingInv, ResultIsCanonical

\* Another pass over what is left.
LEMMA AnotherPassStep ==
  ASSUME IInv, AnotherPass
  PROVE  IInv' /\ Live' = Live
<1>1. /\ phase = "merge" /\ phase' = "merge" /\ r = count /\ count' = w
      /\ merged' = FALSE /\ w' = 0 /\ r' = 0 /\ arr' = arr
      /\ UNCHANGED <<engineVars, input, outCount, ret>> /\ ret = "none"
  BY DEF AnotherPass, IInv, ShapeInv, engineVars
<1>2. ShapeInv /\ MergeInputDisjoint
  BY DEF IInv
<1>3. /\ count \in Nat /\ w \in Nat /\ r \in Nat /\ w <= r
      /\ Bound = 0 .. Cardinality(DOMAIN input) /\ Cardinality(DOMAIN input) \in Nat
      /\ count <= Cardinality(DOMAIN input)
  BY <1>1, <1>2, AggShape DEF ShapeInv
<1>4. ShapeInv'
  <2>1. /\ EngineTypeOK' /\ PartitionInv' /\ EngineIdle' /\ Bound' = Bound
        /\ \A k \in DOMAIN arr' : MaskApply(arr'[k].addr, arr'[k].pfxlen) = arr'[k].addr
    BY <1>1, <1>2, StayKeepsShape
  <2>2. count' \in Bound /\ w' \in Bound /\ r' \in Bound /\ w' <= r' /\ r' <= count'
    BY <1>1, <1>3
  <2>3. TypeOK'
    BY <1>1, <1>2, <2>1, <2>2 DEF ShapeInv, TypeOK
  <2> QED BY <1>1, <1>2, <2>1, <2>2, <2>3 DEF ShapeInv
<1>5. LiveSlots = 0 .. w - 1 /\ LiveSlots' = 0 .. w - 1
  BY <1>1, <1>3 DEF LiveSlots
<1>6. MergeInputDisjoint'
  BY <1>1, <1>2, <1>5 DEF MergeInputDisjoint
<1>7. 1 .. w' - 1 = {}
  BY <1>1
<1>8. Live' = Live
  BY <1>1, <1>5 DEF Live
<1>9. CoverPreserved'
  BY <1>1, <1>8 DEF IInv, CoverPreserved, InputSpan, SpanOf
<1> QED BY <1>1, <1>4, <1>6, <1>7, <1>8, <1>9 DEF IInv, AscendingInv, ResultIsCanonical

\* A pass that has merged nothing leaves the canonical list.
LEMMA ReturnStep ==
  ASSUME IInv, ReturnResult
  PROVE  IInv' /\ Live' = Live
<1>1. /\ phase = "merge" /\ phase' = "done" /\ r = count /\ ~merged
      /\ count' = w /\ outCount' = w /\ ret' = "OK"
      /\ UNCHANGED <<engineVars, input, w, r, merged>> /\ arr' = arr
  BY DEF ReturnResult, engineVars
<1>2. ShapeInv /\ \A k, l \in LiveSlots : k < l => Apart(arr[k], arr[l])
  BY <1>1, MergeIsApart DEF IInv
<1>3. /\ count \in Nat /\ w \in Nat /\ r \in Nat /\ w <= r
      /\ Bound = 0 .. Cardinality(DOMAIN input) /\ Cardinality(DOMAIN input) \in Nat
      /\ count <= Cardinality(DOMAIN input)
      /\ LiveSlots \subseteq DOMAIN input
      /\ \A k \in DOMAIN input : IsPrefix(arr[k])
  BY <1>1, <1>2, AggShape DEF ShapeInv
<1>4. ShapeInv'
  <2>1. /\ EngineTypeOK' /\ PartitionInv' /\ EngineIdle' /\ Bound' = Bound
        /\ \A k \in DOMAIN arr' : MaskApply(arr'[k].addr, arr'[k].pfxlen) = arr'[k].addr
    BY <1>1, <1>2, StayKeepsShape
  <2>2. w \in Bound
    BY <1>2 DEF ShapeInv, TypeOK
  <2>3. TypeOK'
    BY <1>1, <1>2, <2>1, <2>2 DEF ShapeInv, TypeOK
  <2> QED BY <1>1, <2>1, <2>3 DEF ShapeInv
<1>5. LiveSlots = 0 .. w - 1 /\ LiveSlots' = 0 .. w - 1
  BY <1>1, <1>3 DEF LiveSlots
<1>6. Live' = Live /\ Live = {Bare(arr[k]) : k \in 0 .. w - 1}
  BY <1>1, <1>5 DEF Live
<1>7. CoverPreserved'
  BY <1>1, <1>6 DEF IInv, CoverPreserved, InputSpan, SpanOf
<1>8. AscendingList(arr, w) /\ NoSiblings(arr, w)
  <2>1. AscendingList(arr, w)
    BY <1>2, <1>3, <1>5 DEF AscendingList
  <2>2. NoSiblings(arr, w)
    BY <1>1 DEF IInv, AscendingInv, NoSiblings
  <2> QED BY <2>1, <2>2
<1>9. Live = Canonical(Covered(arr, w))
  BY <1>3, <1>6, <1>8, ListIsCanonical
<1>10. Covered(arr, w) = InputSpan /\ InputSpan' = InputSpan
  BY <1>1, <1>5, LiveSpan DEF IInv, CoverPreserved, InputSpan, Covered, CoverOf
<1>11. \A k \in 0 .. w - 2 : PrefixCmp(arr[k], arr[k + 1]) = -1
  <2> TAKE k \in 0 .. w - 2
  <2>1. k \in LiveSlots /\ k + 1 \in LiveSlots /\ k < k + 1
    BY <1>3, <1>5
  <2> QED BY <1>2, <1>3, <2>1, ApartIs
<1>12. ResultIsCanonical'
  <2>1. {Bare(arr'[k]) : k \in 0 .. outCount' - 1} = Canonical(InputSpan')
    BY <1>1, <1>6, <1>9, <1>10
  <2> QED BY <1>1, <1>11, <2>1 DEF ResultIsCanonical
<1> QED BY <1>1, <1>4, <1>6, <1>7, <1>12 DEF IInv, AscendingInv, MergeInputDisjoint

LEMMA AggStutter ==
  ASSUME IInv, UNCHANGED vars
  PROVE  IInv' /\ Live' = Live
<1>1. /\ UNCHANGED <<engineVars, input, count, phase, w, r, merged, outCount, ret>>
      /\ UNCHANGED <<arr, pending, busy, seg, start, next, i>>
  BY DEF vars, aggVars, engineVars
<1>2. EngineTypeOK' /\ PartitionInv' /\ Bound' = Bound
  BY <1>1, EngineIdleStep DEF IInv, ShapeInv, TypeOK, Bound
<1>3. ShapeInv'
  BY <1>1, <1>2 DEF IInv, ShapeInv, TypeOK, EngineIdle
<1>4. LiveSlots' = LiveSlots
  BY <1>1 DEF LiveSlots
<1>5. AscendingInv'
  BY <1>1, <1>4 DEF IInv, AscendingInv, CallsInv, OrderedApart, Open, Together, InBucket,
     BucketEnd
<1>6. Live' = Live
  BY <1>1, <1>4 DEF Live
<1>7. CoverPreserved'
  BY <1>1, <1>6 DEF IInv, CoverPreserved, InputSpan, SpanOf
<1>8. MergeInputDisjoint' /\ ResultIsCanonical'
  BY <1>1, <1>4 DEF IInv, MergeInputDisjoint, ResultIsCanonical, InputSpan
<1> QED BY <1>3, <1>5, <1>6, <1>7, <1>8 DEF IInv

LEMMA AggPreserved == IInv /\ [Next]_vars => IInv'
BY EmptyStep, RejectStep, BeginSortStep, SortStepKeeps, BeginDedupeStep, DedupeStep,
   BeginCoverStep, CoverStep, BeginMergeStep, MergeStep, MoveStep, AnotherPassStep,
   ReturnStep, AggStutter DEF Next

----------------------------------------------------------------------------
(* The theorems.                                                           *)

\* The inductive invariant of the call holds in every reachable state.
THEOREM AggregateInvariance == Spec => []IInv
BY AggInit, AggPreserved, PTL DEF Spec

\* At no moment of the in-place passes does the array lose or gain an address.
THEOREM NoAddressLost == Spec => []CoverPreserved
<1>1. IInv => CoverPreserved
  BY DEF IInv
<1> QED BY <1>1, AggregateInvariance, PTL

\* The merge pass compares disjoint prefixes in ascending order only, which is
\* what makes prefixes_are_siblings mean what its name says.
THEOREM MergeSeesDisjoint == Spec => []MergeInputDisjoint
<1>1. IInv => MergeInputDisjoint
  BY DEF IInv
<1> QED BY <1>1, AggregateInvariance, PTL

\* A successful call returns the canonical list of the addresses it was given:
\* every largest block inside them, ascending, and nothing else.
THEOREM AggregateIsCanonical == Spec => []ResultIsCanonical
<1>1. IInv => ResultIsCanonical
  BY DEF IInv
<1> QED BY <1>1, AggregateInvariance, PTL

----------------------------------------------------------------------------
(* The refinement: the array does what the set of AggregateSpec may do.    *)

\* The two modules mean the same by a prefix and by a span.
LEMMA SameNotions ==
  /\ Abs!Prefix = Prefix
  /\ \A p : Abs!Span(p) = Span(p)
  /\ \A S : Abs!SpanOf(S) = SpanOf(S)
  /\ \A U : Abs!Canonical(U) = Canonical(U)
<1>1. Abs!Prefix = Prefix
  BY DEF Abs!Prefix, Prefix, Abs!Address, Address, Abs!Pfxlen, Pfxlen,
         Abs!MaxPfxlen, MaxPfxlen, Abs!KeyBits, KeyBits, Abs!BytePos, BytePos,
         Abs!Byte, Byte, Abs!ByteSize, ByteSize, Abs!MaskApply, MaskApply,
         Abs!KeepTop, KeepTop
<1>2. \A a : Abs!Value(a) = Value(a)
  BY DEF Abs!Value, Value, Abs!ByteSize, ByteSize
<1>3. \A p : Abs!Span(p) = Span(p)
  BY <1>2 DEF Abs!Span, Span, Abs!KeyBits, KeyBits
<1>4. \A S : Abs!SpanOf(S) = SpanOf(S)
  BY <1>3 DEF Abs!SpanOf, SpanOf
<1>5. \A U : Abs!Canonical(U) = Canonical(U)
  BY <1>1, <1>3 DEF Abs!Canonical, Canonical
<1> QED BY <1>1, <1>3, <1>4, <1>5

LEMMA AbstractInit == Init => Abs!AbsInit
<1> SUFFICES ASSUME Init PROVE Abs!AbsInit
  OBVIOUS
<1>1. ShapeInv /\ phase = "call"
  BY AggInit DEF IInv, Init
<1>2. Live \subseteq Prefix
  BY <1>1, AggShape, BareIs DEF Live
<1> QED BY <1>1, <1>2, SameNotions DEF Abs!AbsInit

\* No two live prefixes are covered or can be merged when the call returns.
LEMMA ReturnedIsMinimal ==
  ASSUME IInv, IInv', Live' = Live, phase' = "done", ret' = "OK"
  PROVE  Abs!Minimal
<1>1. outCount' = count' /\ {Bare(arr'[k]) : k \in 0 .. outCount' - 1} = Canonical(InputSpan')
  BY DEF IInv, ResultIsCanonical
<1>2. Live' = {Bare(arr'[k]) : k \in 0 .. count' - 1}
  BY DEF Live, LiveSlots
<1>3. SpanOf(Live') = InputSpan'
  BY DEF IInv, CoverPreserved, SpanOf
<1>4. Live = Canonical(SpanOf(Live))
  BY <1>1, <1>2, <1>3
<1> QED BY <1>4, SameNotions DEF Abs!Minimal

\* Sorting and the bookkeeping of the passes do not show; each item left out
\* is a Drop, each merge a MergeHalves, each return a Finish or a Refuse.
LEMMA AbstractStep ==
  ASSUME IInv, [Next]_vars
  PROVE  [Abs!AbsNext]_(Abs!absVars)
<1>0. IInv'
  BY AggPreserved
<1>1. ASSUME Live' = Live,
             (phase # "done" /\ phase' # "done") \/ UNCHANGED <<phase, ret>>
      PROVE  [Abs!AbsNext]_(Abs!absVars)
  BY <1>1 DEF Abs!absVars
<1>2. CASE ReturnOnEmpty \/ ReturnResult
  <2>1. Live' = Live /\ phase # "done" /\ phase' = "done" /\ ret' = "OK"
    BY <1>2, EmptyStep, ReturnStep DEF ReturnOnEmpty, ReturnResult
  <2>2. Abs!Finish
    BY <1>0, <2>1, ReturnedIsMinimal DEF Abs!Finish
  <2> QED BY <2>2 DEF Abs!AbsNext
<1>3. CASE RejectFamily
  <2>1. Live' = Live /\ phase # "done" /\ phase' = "done" /\ ret' # "OK"
    BY <1>3, RejectStep DEF RejectFamily
  <2>2. Abs!Refuse
    BY <2>1 DEF Abs!Refuse
  <2> QED BY <2>2 DEF Abs!AbsNext
<1>4. CASE BeginSort \/ SortStep
  <2>1. Live' = Live /\ phase # "done" /\ phase' # "done"
    BY <1>4, BeginSortStep, SortStepKeeps DEF BeginSort, SortStep, aggVars
  <2> QED BY <1>1, <2>1
<1>5. CASE BeginDedupe \/ Dedupe \/ BeginCover
  <2>1. Live' = Live /\ phase # "done" /\ phase' # "done"
    BY <1>5, BeginDedupeStep, DedupeStep, BeginCoverStep DEF BeginDedupe, Dedupe, BeginCover
  <2> QED BY <1>1, <2>1
<1>6. CASE DropCovered
  <2>1. phase = "cover" /\ phase' = "cover"
    BY <1>6 DEF DropCovered
  <2>2. CASE Live' = Live
    BY <1>1, <2>1, <2>2
  <2>3. CASE /\ Bare(arr[r]) # Bare(arr[w])
             /\ Span(arr[r]) \subseteq Span(arr[w])
             /\ w \in LiveSlots /\ r \in LiveSlots
             /\ Live' = Live \ {Bare(arr[r])}
    <3>1. Bare(arr[r]) \in Live /\ Bare(arr[w]) \in Live
      BY <2>3 DEF Live
    <3>2. /\ Abs!Span(Bare(arr[r])) = Span(arr[r])
          /\ Abs!Span(Bare(arr[w])) = Span(arr[w])
      BY <2>3, AggShape, BareIs, SameNotions DEF IInv
    <3>3. Abs!Drop(Bare(arr[r]), Bare(arr[w]))
      BY <2>3, <3>2 DEF Abs!Drop
    <3>4. Abs!Shrink
      BY <2>1, <3>1, <3>3 DEF Abs!Shrink
    <3> QED BY <3>4 DEF Abs!AbsNext
  <2> QED BY <1>6, <2>2, <2>3, CoverStep
<1>7. CASE BeginMerge \/ MoveDown \/ AnotherPass
  <2>1. Live' = Live /\ phase # "done" /\ phase' # "done"
    BY <1>7, BeginMergeStep, MoveStep, AnotherPassStep DEF BeginMerge, MoveDown, AnotherPass
  <2> QED BY <1>1, <2>1
<1>8. CASE MergeSiblings
  <2> DEFINE p == Bare(arr[w - 1])
             q == Bare(arr[r])
             s == Supernet(arr[r])
  <2>1. phase = "merge" /\ phase' = "merge"
    BY <1>8 DEF MergeSiblings
  <2>2. /\ w - 1 \in LiveSlots /\ r \in LiveSlots /\ p # q
        /\ arr[w - 1].pfxlen = arr[r].pfxlen
        /\ s \in Prefix /\ s.pfxlen = arr[r].pfxlen - 1 /\ arr[r].pfxlen \in Int
        /\ Span(arr[w - 1]) \cup Span(arr[r]) = Span(s)
        /\ Live' = (Live \ {p, q}) \cup {s}
    BY <1>8, MergeStep
  <2>3. p \in Live /\ q \in Live
    BY <2>2 DEF Live
  <2>4. /\ p.pfxlen = arr[w - 1].pfxlen /\ q.pfxlen = arr[r].pfxlen
        /\ Span(p) = Span(arr[w - 1]) /\ Span(q) = Span(arr[r])
    BY <2>2, AggShape, BareIs DEF IInv
  <2> HIDE DEF p, q, s
  <2>5. /\ s \in Abs!Prefix /\ p.pfxlen = s.pfxlen + 1 /\ q.pfxlen = s.pfxlen + 1
        /\ Abs!Span(p) \cup Abs!Span(q) = Abs!Span(s)
    BY <2>2, <2>4, SameNotions
  <2>6. Abs!MergeHalves(p, q)
    BY <2>2, <2>5 DEF Abs!MergeHalves
  <2>7. Abs!Shrink
    BY <2>1, <2>3, <2>6 DEF Abs!Shrink
  <2> QED BY <2>7 DEF Abs!AbsNext
<1>9. CASE UNCHANGED vars
  <2>1. Live' = Live /\ UNCHANGED <<phase, ret>>
    BY <1>9, AggStutter DEF vars, aggVars
  <2> QED BY <1>1, <2>1
<1> QED BY <1>2, <1>3, <1>4, <1>5, <1>6, <1>7, <1>8, <1>9 DEF Next

\* Every behaviour of the in-place algorithm is one of the abstract
\* aggregation: it only ever drops what is covered and merges what are halves,
\* and finishes only where neither is possible.
THEOREM AggregateRefines == Spec => ImplementsAggregateSpec
<1>1. IInv /\ [Next]_vars => [Abs!AbsNext]_(Abs!absVars)
  BY AbstractStep
<1> QED BY <1>1, AbstractInit, AggregateInvariance, PTL
    DEF Spec, ImplementsAggregateSpec, Abs!AbsSpec
=============================================================================
