----------------------------- MODULE PrefixArray -----------------------------
(***************************************************************************)
(* A caller's prefix array and the radix sort working on it: what          *)
(* cidr_bulk_sort, cidr_bulk_aggregate and cidr_index_create share - the   *)
(* family validation they repeat, the cells of the array and what the sort *)
(* must never do to them.                                                  *)
(***************************************************************************)
EXTENDS RadixEngine

CONSTANT Arrays     \* the arrays a caller may pass: 0..n-1 -> [addr, pfxlen, fam]

\* enum cidr_family_t
Unspec == 0
Inet == 4
Inet6 == 6
Family == {Unspec, Inet, Inet6}

\* cidr_prefix_t: "network address with host bits guaranteed zero".
IsPrefixArray(A) ==
  /\ IsFiniteSet(DOMAIN A)
  /\ A \in [0 .. Cardinality(DOMAIN A) - 1 ->
              [addr : Address, pfxlen : Pfxlen, fam : Family]]
  /\ \A k \in DOMAIN A : MaskApply(A[k].addr, A[k].pfxlen) = A[k].addr

ASSUME ArraysAssumption == \A A \in Arrays : IsPrefixArray(A)

VARIABLES
  input,    \* ghost: the array as it was passed
  count     \* its length; the aggregation shrinks it

ArrayInit == /\ input \in Arrays
             /\ count = Cardinality(DOMAIN input)
             /\ arr = [k \in DOMAIN input |->
                         [addr |-> input[k].addr, pfxlen |-> input[k].pfxlen,
                          fam |-> input[k].fam, src |-> k]]
             /\ EngineInit

----------------------------------------------------------------------------
(* Validation: the first offending entry decides the error.                *)

Offends(k) == arr[k].fam = Unspec \/ arr[k].fam # arr[0].fam
FirstOffender(k) == Offends(k) /\ \A j \in 1 .. k - 1 : ~Offends(j)

\* The error of a nonempty array whose families are not all one valid family.
FamilyError(err) ==
  \/ /\ arr[0].fam = Unspec
     /\ err = "INVAL"
  \/ /\ arr[0].fam # Unspec
     /\ \E k \in 1 .. count - 1 :
          /\ FirstOffender(k)
          /\ err = IF arr[k].fam = Unspec THEN "INVAL" ELSE "FAMILY"

OneFamily == /\ arr[0].fam # Unspec
             /\ \A k \in 1 .. count - 1 : ~Offends(k)

\* Every index is written over its family field, to travel with its cell.
Tagged(A) == [k \in DOMAIN A |-> [A[k] EXCEPT !.fam = k]]

\* Mutant: the tags stay where they are.
WithTags(A, fam) == A

\* prefixes_restore_family
WithFamily(A, fam) == [k \in DOMAIN A |-> [A[k] EXCEPT !.fam = fam]]

\* prefixes_equal_key: the family field, which may hold a tag, is ignored.
SameKey(c, d) == c.addr = d.addr /\ c.pfxlen = d.pfxlen

----------------------------------------------------------------------------
(* What the sort must never do, whoever called it.                         *)

Cell == [addr : Address, pfxlen : Pfxlen,
         fam : Family \cup 0 .. Cardinality(DOMAIN input) - 1, src : DOMAIN input]
Bound == 0 .. Cardinality(DOMAIN input)
FrameType == {f \in [lo : Bound, hi : Bound, pos : Nat, key : Keys] : f.lo <= f.hi}

EngineTypeOK ==
  /\ IsPrefixArray(input)
  /\ arr \in [DOMAIN input -> Cell]
  /\ pending \subseteq FrameType
  /\ busy \in BOOLEAN
  /\ seg \in FrameType
  /\ start \in [Byte -> Bound]
  /\ next \in [Byte -> Bound]
  /\ i \in Bound

\* The caller's prefixes are never lost, duplicated or altered, in any
\* intermediate state of the sort: every cell still carries the address and
\* length of a distinct entry of the input.
Permutes ==
  /\ \A k \in DOMAIN arr : SameKey(arr[k], input[arr[k].src])
  /\ \A k, l \in DOMAIN arr : arr[k].src = arr[l].src => k = l

\* The partition never writes outside a bucket: when an item is sent to the
\* next slot of its bucket that slot is inside the bucket (the SAFETY comment
\* of radix_sort_segment: it "must not overflow bucket boundaries").
SwapInsideBucket ==
  busy /\ i < seg.hi =>
    LET d == Digit(arr[i], seg)
    IN  ~InBucket(i, d) => start[d] <= next[d] /\ next[d] < BucketEnd(d)

\* Why it never does: throughout the scan the bucket boundaries count the
\* digits of the segment as it is now, and the slots of a bucket that were
\* filled hold items of its digit.  A bucket without a free slot holds all of
\* them, so no item outside it is left to be sent there.
PartitionInv ==
  busy =>
    /\ ~IsTrivial(seg)
    /\ seg.lo <= i /\ i <= seg.hi
    /\ \A d \in Byte :
         /\ start[d] = BucketStart(arr, seg, d)
         /\ start[d] <= next[d] /\ next[d] <= BucketEnd(d)
         /\ \A k \in start[d] .. next[d] - 1 : Digit(arr[k], seg) = d

\* The key order the whole sort is for.
Before(c, d, key) ==
  \E p \in 0 .. KeyLen(key) - 1 :
    /\ KeyByte(c, p, key) < KeyByte(d, p, key)
    /\ \A r \in 0 .. p - 1 : KeyByte(c, r, key) = KeyByte(d, r, key)

\* Two cells agree on the first n key bytes.
Agree(c, d, n, key) == \A p \in 0 .. n - 1 : KeyByte(c, p, key) = KeyByte(d, p, key)

InOrder(c, d, key) == Before(c, d, key) \/ Agree(c, d, KeyLen(key), key)

\* The calls that still have work to do; the pairs one of them will order.
Open == pending \cup IF busy THEN {seg} ELSE {}
Together(k, l) == \E f \in Open : k \in Slots(f) /\ l \in Slots(f)

\* Why the sort sorts: the open calls share no slot, so that what one does
\* concerns no other; in the range of a call the bytes before its position are
\* the same everywhere; and what the scan has passed is in its bucket.  The
\* cells no open call covers together are then in their final order.
CallsInv(key) ==
  /\ \A f \in Open : f.key = key /\ f.pos <= KeyLen(key)
  /\ \A f, g \in Open : f = g \/ f.hi <= g.lo \/ g.hi <= f.lo
  /\ \A f \in Open : \A k, l \in Slots(f) : Agree(arr[k], arr[l], f.pos, key)
  /\ busy => /\ seg \notin pending
             /\ \A k \in seg.lo .. i - 1 : InBucket(k, Digit(arr[k], seg))
OrderedApart(key) ==
  \A k, l \in DOMAIN arr : k < l /\ ~Together(k, l) => InOrder(arr[k], arr[l], key)
=============================================================================
