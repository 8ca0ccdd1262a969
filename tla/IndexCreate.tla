---------------------------- MODULE IndexCreate ----------------------------
(***************************************************************************)
(* cidr_index_create and cidr_index_destroy of src/cidr_index.c: five      *)
(* allocations that may each fail, the tagged radix sort, the resolution   *)
(* of duplicates, the Patricia build into an arena, the branching factors, *)
(* and the packing into one array of nodes.  Both recursions are run one   *)
(* call per action from an explicit stack, because what can go wrong in    *)
(* them - a write past the arena or the packed array - goes wrong on the   *)
(* way.  `arr` of the sort is the library's own copy of the prefixes.      *)
(***************************************************************************)
EXTENDS PrefixArray, PatriciaTrie, Sequences

CONSTANTS SkipSize,     \* 2^8: skip is stored in a uint8_t, and exceeds any length
          NodeLimits    \* the limits the code is built with: UINT32_MAX - 1

ASSUME SkipAssumption == SkipSize \in Nat \ 0 .. KeyBits
ASSUME LimitAssumption == NodeLimits \subseteq Nat \ {0}

VARIABLES
  nodeLimit,    \* the limit of this build
  phase,
  heap,         \* the live allocations
  family,
  orig,         \* orig_map: sorted position -> position in the caller's array
  arena,        \* pat_nodes[0 .. pat_count - 1]
  calls,        \* stack of patricia_subtree_build / lctrie_pack_subtree calls
  packed,       \* nodes[]: the slots written so far
  packedNext,   \* packed_next
  published,    \* *out is the index
  ret

idxVars == <<phase, heap, family, orig, arena, calls, packed, packedNext, published, ret>>
given == <<input, count, nodeLimit>>
vars == <<engineVars, given, idxVars>>

Empty == [k \in {} |-> None]

Init == /\ ArrayInit
        /\ nodeLimit \in NodeLimits
        /\ phase = "call"
        /\ heap = {}
        /\ family = Unspec
        /\ orig = Empty
        /\ arena = Empty
        /\ calls = <<>>
        /\ packed = Empty
        /\ packedNext = 0
        /\ published = FALSE
        /\ ret = "none"

Leave(err) == /\ phase' = "done"
              /\ ret' = err
              /\ UNCHANGED <<engineVars, given, family, orig, arena, packed,
                             packedNext, published>>

\* The validation returns, before anything is allocated.
Refuse(err) == Leave(err) /\ UNCHANGED <<heap, calls>>

\* The `cleanup:` label; what was not allocated yet is NULL, and free(NULL)
\* does nothing.
Cleanup(err) == /\ heap' = heap \ {"copy", "nodes", "pat_nodes", "orig_map", "idx"}
                /\ calls' = <<>>
                /\ Leave(err)

----------------------------------------------------------------------------
RejectCount == /\ phase = "call"
               /\ count = 0 \/ count > nodeLimit
               /\ Refuse("INVAL")

RejectFamily == /\ phase = "call"
                /\ count \in 1 .. nodeLimit
                /\ \E err \in {"INVAL", "FAMILY"} : FamilyError(err) /\ Refuse(err)

Accept == /\ phase = "call"
          /\ count \in 1 .. nodeLimit
          /\ OneFamily
          /\ family' = arr[0].fam
          /\ phase' = "alloc"
          /\ UNCHANGED <<engineVars, given, heap, orig, arena, calls, packed,
                         packedNext, published, ret>>

\* malloc of the index, of its copy of the prefixes and of the map, in order.
Copying == <<"idx", "copy", "orig_map">>
Allocated == Cardinality(heap)

Allocate == /\ phase = "alloc"
            /\ Allocated < Len(Copying)
            /\ heap' = heap \cup {Copying[Allocated + 1]}
            /\ UNCHANGED <<engineVars, given, phase, family, orig, arena, calls,
                           packed, packedNext, published, ret>>

AllocateFails == /\ phase = "alloc"
                 /\ Allocated < Len(Copying)
                 /\ Cleanup("NOMEM")

\* The copy is tagged with the input positions and sorted.
BeginSort == /\ phase = "alloc"
             /\ Allocated = Len(Copying)
             /\ arr' = Tagged(arr)
             /\ pending' = WholeArray(count, "ASC")
             /\ phase' = "sort"
             /\ UNCHANGED <<scanVars, given, heap, family, orig, arena, calls,
                            packed, packedNext, published, ret>>

SortStep == /\ phase = "sort"
            /\ EngineNext
            /\ UNCHANGED <<given, idxVars>>

\* prefixes_resolve_duplicates: the tag of the first of each run of equals.
RunStart(k) == Min({j \in 0 .. k : \A m \in j .. k : SameKey(arr[j], arr[m])})

\* Pending build call: a range, the bits it shares, the link to set.
BuildCall(lo, hi, bit, parent, side) ==
  [lo |-> lo, hi |-> hi, bit |-> bit, parent |-> parent, side |-> side]

ResolveDuplicates == /\ phase = "sort"
                     /\ EngineIdle
                     /\ orig' = [k \in DOMAIN arr |-> arr[RunStart(k)].fam]
                     /\ arr' = WithFamily(arr, family)
                     /\ heap' = heap \cup {"pat_nodes"}
                     /\ calls' = <<BuildCall(0, count, 0, None, 0)>>
                     /\ phase' = "build"
                     /\ UNCHANGED <<pending, scanVars, given, family, arena, packed,
                                    packedNext, published, ret>>

ArenaFails == /\ phase = "sort"
              /\ EngineIdle
              /\ Cleanup("NOMEM")

----------------------------------------------------------------------------
(* patricia_subtree_build                                                  *)

Top == Head(calls)
MaxPatNodes == Min({2 * count + 2, nodeLimit})
PatCount == Cardinality(DOMAIN arena)

Link(T, parent, side, n) ==
  IF parent = None THEN T
  ELSE IF side = 0 THEN [T EXCEPT ![parent].left = n] ELSE [T EXCEPT ![parent].right = n]

\* `if (start == end) return CIDR_PAT_NONE`: nothing to do for an empty range.
UnlessEmpty(c) == IF c.lo < c.hi THEN <<c>> ELSE <<>>

\* Reserve a node, split the range, call on what extends past the split.
BuildNode ==
  /\ phase = "build"
  /\ calls # <<>>
  /\ PatCount < nodeLimit
  /\ LET n       == PatCount
         node    == NodeFor(arr, Top.lo, Top.hi, Top.bit)
         ext     == ExtStart(arr, Top.lo, Top.hi, node.bit)
         pivot   == Pivot(arr, Top.lo, Top.hi, node.bit)
         left    == BuildCall(ext, pivot, node.bit + 1, n, 0)
         right   == BuildCall(pivot, Top.hi, node.bit + 1, n, 1)
     IN  /\ arena' = [k \in 0 .. n |->
                        IF k = n THEN node ELSE Link(arena, Top.parent, Top.side, n)[k]]
         /\ calls' = UnlessEmpty(left) \o UnlessEmpty(right) \o Tail(calls)
  /\ UNCHANGED <<engineVars, given, phase, heap, family, orig, packed,
                 packedNext, published, ret>>

\* Mutant: returns without the cleanup.
BuildOverflowsLeaky == /\ phase = "build"
                       /\ calls # <<>>
                       /\ PatCount >= nodeLimit
                       /\ Refuse("INVAL")

BuildOverflows == /\ phase = "build"
                  /\ calls # <<>>
                  /\ PatCount >= nodeLimit
                  /\ Cleanup("INVAL")

\* patricia_dp_compute, bottom up: descendants come after their node in the
\* arena, and a node without a cost yet has all its descendants costed.
Uncosted == {n \in DOMAIN arena : arena[n].cost = 0}

CostNode == /\ phase = "build"
            /\ calls = <<>>
            /\ Uncosted # {}
            /\ LET n == Max(Uncosted)
                   choices == BranchChoices(arena, arr, n, nodeLimit)
               IN  \E best \in choices :
                     /\ \A other \in choices : Preferred(best, other)
                     /\ arena' = [arena EXCEPT ![n].cost = best[1], ![n].branch = best[2]]
            /\ UNCHANGED <<engineVars, given, phase, heap, family, orig, calls, packed,
                           packedNext, published, ret>>

CostOverflows == /\ phase = "build"
                 /\ calls = <<>>
                 /\ Uncosted # {}
                 /\ BranchChoices(arena, arr, Max(Uncosted), nodeLimit) = {}
                 /\ Cleanup("INVAL")

Costed == phase = "build" /\ calls = <<>> /\ Uncosted = {}

\* The packed array is allocated at the size the cost predicts.
PackCall(pat, slot, depth) == [pat |-> pat, slot |-> slot, depth |-> depth]

BeginPack == /\ Costed
             /\ heap' = heap \cup {"nodes"}
             /\ calls' = <<PackCall(0, 0, 0)>>
             /\ packedNext' = 1
             /\ phase' = "pack"
             /\ UNCHANGED <<engineVars, given, family, orig, arena, packed, published, ret>>

NodesFail == /\ Costed
             /\ Cleanup("NOMEM")

----------------------------------------------------------------------------
(* lctrie_pack_subtree                                                     *)

PackedNode(base, prefix, branch, skip) ==
  [base |-> base, prefix |-> prefix, branch |-> branch, skip |-> skip]
\* Mutant: skips one bit too few.
SkipShort(bit, depth) == (bit - depth - 1) % SkipSize

Skip(bit, depth) == (bit - depth) % SkipSize
DeadLeaf == PackedNode(0, None, 0, 0)

Written(slot, node) == [k \in DOMAIN packed \cup {slot} |->
                          IF k = slot THEN node ELSE packed[k]]

\* Write one node; if it branches, reserve its slots and go through them.
PackNode ==
  /\ phase = "pack"
  /\ calls # <<>>
  /\ Top.pat # None
  /\ LET pat   == arena[Top.pat]
         width == IF pat.branch = 0 THEN 0 ELSE 2^pat.branch
         slots == [k \in 1 .. width |->
                     PackCall(SlotTarget(arena, arr, Top.pat, pat.branch, k - 1),
                              packedNext + k - 1, pat.bit + pat.branch)]
     IN  /\ packed' = Written(Top.slot, PackedNode(IF width = 0 THEN 0 ELSE packedNext,
                                                  pat.prefix, pat.branch,
                                                  Skip(pat.bit, Top.depth)))
         /\ packedNext' = packedNext + width
         /\ calls' = slots \o Tail(calls)
  /\ UNCHANGED <<engineVars, given, phase, heap, family, orig, arena, published, ret>>

\* lctrie_pack_dead_leaf: no node for this slot.
PackDead ==
  /\ phase = "pack"
  /\ calls # <<>>
  /\ Top.pat = None
  /\ packed' = Written(Top.slot, DeadLeaf)
  /\ calls' = Tail(calls)
  /\ UNCHANGED <<engineVars, given, phase, heap, family, orig, arena, packedNext,
                 published, ret>>

\* The final count check, the transfer of ownership, and the arena's end.
Publish ==
  /\ phase = "pack"
  /\ calls = <<>>
  /\ IF packedNext = arena[0].cost
     THEN /\ heap' = heap \ {"pat_nodes"}
          /\ published' = TRUE
          /\ ret' = "OK"
     ELSE /\ heap' = heap \ {"copy", "nodes", "pat_nodes", "orig_map", "idx"}
          /\ ret' = "INVAL"
          /\ UNCHANGED published
  /\ phase' = "done"
  /\ arena' = Empty
  /\ UNCHANGED <<engineVars, given, family, orig, calls, packed, packedNext>>

\* cidr_index_destroy of the published index.
Destroy == /\ phase = "done"
           /\ published
           /\ heap' = heap \ {"nodes", "copy", "orig_map", "idx"}
           /\ published' = FALSE
           /\ phase' = "destroyed"
           /\ UNCHANGED <<engineVars, given, family, orig, arena, calls, packed,
                          packedNext, ret>>

CreateNext == \/ RejectCount \/ RejectFamily \/ Accept \/ Allocate \/ AllocateFails
              \/ BeginSort \/ SortStep \/ ResolveDuplicates \/ ArenaFails
              \/ BuildNode \/ BuildOverflows
              \/ CostNode \/ CostOverflows \/ NodesFail
              \/ BeginPack \/ PackNode \/ PackDead \/ Publish

Next == CreateNext \/ Destroy

Spec == Init /\ [][Next]_vars

----------------------------------------------------------------------------
\* Nothing is written past pat_nodes, which has 2 * count + 2 elements although
\* the guard of patricia_node_alloc only knows the global node limit.
ArenaFits == PatCount <= MaxPatNodes

\* Nothing is written past nodes, which is sized from the cost the dynamic
\* programme predicts, and no slot of it is left unwritten or written twice.
PackFits ==
  phase = "pack" =>
    /\ packedNext <= arena[0].cost
    /\ DOMAIN packed \subseteq 0 .. packedNext - 1
    /\ \A k \in DOMAIN calls : calls[k].slot \in 0 .. packedNext - 1 \ DOMAIN packed
    /\ \A k, l \in DOMAIN calls : k # l => calls[k].slot # calls[l].slot
    /\ calls = <<>> => DOMAIN packed = 0 .. arena[0].cost - 1

\* Neither of the two arrays is too small for what its recursion writes.
BuffersFit == ArenaFits /\ PackFits

\* Whatever allocation fails and whichever check refuses, a failed create owns
\* nothing and has not written *out; a destroyed index leaves nothing either.
NoLeak ==
  /\ phase = "done" /\ ret # "OK" => heap = {} /\ ~published
  /\ published => heap = {"idx", "copy", "orig_map", "nodes"}
  /\ phase = "destroyed" => heap = {}

\* Each Patricia node compresses correctly: both children lie below its bit,
\* and every prefix of the input ends at exactly one node, duplicates together.
PrefixesStored ==
  Costed =>
    /\ \A n \in DOMAIN arena, side \in 0 .. 1 :
         LET c == Child(arena[n], side)
         IN  c # None => /\ arena[c].bit > arena[n].bit
                         /\ AddrBit(arr[arena[c].repr].addr, arena[n].bit) = side
    /\ \A k \in DOMAIN arr : \E n \in DOMAIN arena :
         /\ arena[n].prefix # None
         /\ SameKey(arr[arena[n].prefix], arr[k])
         /\ arena[n].bit = arr[k].pfxlen
         /\ \A m \in DOMAIN arena \ {n} :
              arena[m].prefix # None => ~SameKey(arr[arena[m].prefix], arr[k])

\* A slot that falls back to a kept prefix is packed deeper than its own bit, and
\* the stored skip wraps.  Every skip leads either to the bit the node tests or
\* so far that the lookup stops there.
SkipLeadsToBit ==
  [][(phase = "pack" /\ calls # <<>> /\ Top.pat # None) =>
       LET reached == Top.depth + packed'[Top.slot].skip
       IN  reached = arena[Top.pat].bit \/ reached > KeyBits]_vars

\* ARCHITECTURE.md section 6.2 and the comment of prefixes_resolve_duplicates:
\* of equal prefixes the one with the lowest input index is the one reported.
LowestIndexWins ==
  published =>
    \A k \in DOMAIN orig : \A m \in DOMAIN input :
      SameKey(input[m], arr[k]) => orig[k] <= m
=============================================================================
