---------------------------- MODULE RadixEngine ----------------------------
(***************************************************************************)
(* The in-place MSD radix sort of src/cidr_bulk.c, shared by the bulk sort,*)
(* the aggregation and the index build.  radix_sort_segment (prefix keys)  *)
(* and radix_sort_order_tags (the four tag bytes) run the same loop; the   *)
(* key of a frame says which of them it is a call of.                      *)
(*                                                                         *)
(* A call that waits for its turn is a frame in `pending`; `seg` is the    *)
(* call whose partition loop is running.  The recursion of the code visits *)
(* the buckets from left to right and a child covers a part of its         *)
(* parent's range, so the call that runs next is the leftmost one.         *)
(* `src` is a ghost field: the position of the cell in the caller's array. *)
(***************************************************************************)
EXTENDS CidrPrefix, FiniteSets

CONSTANT TagLen       \* SORT_TAG_BYTES

\* A prefix length fits a key byte.  The rest is arithmetic, but no prover here
\* knows what a power is.
ASSUME EngineAssumption == /\ TagLen \in Nat \ {0}
                           /\ KeyBits < ByteSize

VARIABLES
  arr,      \* the array being sorted: index -> [addr, pfxlen, fam, src]
  pending,  \* calls not yet started
  busy,     \* a partition loop is running
  seg,      \* ... on this frame
  start,    \* start_pos[]: where each bucket begins
  next,     \* next[]: the next slot to fill in each bucket
  i         \* the scan position

engineVars == <<arr, pending, busy, seg, start, next, i>>
scanVars == <<busy, seg, start, next, i>>

Keys == {"ASC", "DESC", "tag"}

KeyLen(key) == IF key = "tag" THEN TagLen ELSE AddrLen + 1

\* radix_key_byte: address bytes and length, or the reversed length first.
AscByte(c, pos) == IF pos < AddrLen THEN c.addr[pos] ELSE c.pfxlen
DescByte(c, pos) == IF pos = 0 THEN ByteSize - 1 - c.pfxlen ELSE c.addr[pos - 1]

\* radix_u32_byte of the tag, which lies in the family field while it is in use:
\* a shift to the right by so many bytes, and the lowest byte.
TagWeight(n) == 2^(ByteBits * n)
TagByte(c, pos) == (c.fam \div TagWeight(TagLen - 1 - pos)) % ByteSize

KeyByte(c, pos, key) == IF key = "ASC" THEN AscByte(c, pos)
                        ELSE IF key = "DESC" THEN DescByte(c, pos)
                        ELSE TagByte(c, pos)

Frame(lo, hi, pos, key) == [lo |-> lo, hi |-> hi, pos |-> pos, key |-> key]
NoFrame == Frame(0, 0, 0, "ASC")
Slots(f) == f.lo .. f.hi - 1
Digit(c, f) == KeyByte(c, f.pos, f.key)

\* Mutant: the last key byte is not sorted on.
TrivialAtLastByte(f) == f.hi - f.lo <= 1 \/ f.pos >= KeyLen(f.key) - 1

\* `if (end - start <= 1 || byte_pos >= key_len) return`
IsTrivial(f) == f.hi - f.lo <= 1 \/ f.pos >= KeyLen(f.key)

\* Mutant: the sums include the bucket itself.
BucketStartAfter(A, f, d) == f.lo + Cardinality({k \in Slots(f) : Digit(A[k], f) <= d})

\* Mutant: the sums start from zero in every segment.
BucketStartFromZero(A, f, d) == Cardinality({k \in Slots(f) : Digit(A[k], f) < d})

\* count[] and its prefix sums: a bucket begins after all smaller digits.
BucketStart(A, f, d) == f.lo + Cardinality({k \in Slots(f) : Digit(A[k], f) < d})

BucketEnd(d) == IF d < ByteSize - 1 THEN start[d + 1] ELSE seg.hi
InBucket(k, d) == start[d] <= k /\ k < BucketEnd(d)

\* Mutant: the displaced item is not brought back.
CopiedOut(A, x, y) == [A EXCEPT ![y] = A[x]]

Swapped(A, x, y) == [A EXCEPT ![x] = A[y], ![y] = A[x]]

----------------------------------------------------------------------------
NoLoop == /\ busy = FALSE
          /\ seg = NoFrame
          /\ start = [d \in Byte |-> 0]
          /\ next = start
          /\ i = 0

EngineInit == NoLoop /\ pending = {}
EngineIdle == ~busy /\ pending = {}

Leftmost(f) == /\ f \in pending
               /\ \A g \in pending : f.lo <= g.lo

\* The early return of a call with nothing to sort.
Return(f) == /\ ~busy
             /\ Leftmost(f)
             /\ IsTrivial(f)
             /\ pending' = pending \ {f}
             /\ UNCHANGED <<arr, scanVars>>

\* Count the digits, place the buckets, start the scan.
Enter(f) == /\ ~busy
            /\ Leftmost(f)
            /\ ~IsTrivial(f)
            /\ pending' = pending \ {f}
            /\ busy' = TRUE
            /\ seg' = f
            /\ start' = [d \in Byte |-> BucketStart(arr, f, d)]
            /\ next' = start'
            /\ i' = f.lo
            /\ UNCHANGED arr

\* The item at i is inside the range of its bucket: leave it.
Advance == /\ busy
           /\ i < seg.hi
           /\ InBucket(i, Digit(arr[i], seg))
           /\ i' = i + 1
           /\ UNCHANGED <<arr, pending, busy, seg, start, next>>

\* Mutant: the filled slot is not counted.
SwapOutUncounted == /\ busy
                    /\ i < seg.hi
                    /\ ~InBucket(i, Digit(arr[i], seg))
                    /\ arr' = Swapped(arr, i, next[Digit(arr[i], seg)])
                    /\ UNCHANGED <<pending, busy, seg, start, next, i>>

\* Otherwise send it to the next slot of its bucket and look at what came back.
SwapOut == /\ busy
           /\ i < seg.hi
           /\ LET d == Digit(arr[i], seg)
              IN  /\ ~InBucket(i, d)
                  /\ arr' = Swapped(arr, i, next[d])
                  /\ next' = [next EXCEPT ![d] = @ + 1]
           /\ UNCHANGED <<pending, busy, seg, start, i>>

\* The scan is over: recurse on every bucket of more than one item.
Buckets == {f \in {Frame(start[d], BucketEnd(d), seg.pos + 1, seg.key) : d \in Byte} :
              f.hi - f.lo > 1}
Recurse == /\ busy
           /\ i = seg.hi
           /\ pending' = pending \cup Buckets
           /\ busy' = FALSE
           /\ seg' = NoFrame
           /\ start' = [d \in Byte |-> 0]
           /\ next' = start'
           /\ i' = 0
           /\ UNCHANGED arr

EngineNext == \/ \E f \in pending : Return(f) \/ Enter(f)
              \/ Advance
              \/ SwapOut
              \/ Recurse

\* The call radix_sort_prefixes(prefixes, count, order) makes.
WholeArray(n, key) == {Frame(0, n, 0, key)}
=============================================================================
