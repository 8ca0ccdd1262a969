--------------------------- MODULE BulkAggregate ---------------------------
(***************************************************************************)
(* cidr_bulk_aggregate of src/cidr_bulk.c: sort, drop duplicates, drop     *)
(* covered prefixes, merge siblings until a pass merges nothing, all in    *)
(* the caller's array.  Each action is one iteration of one of the loops.  *)
(***************************************************************************)
EXTENDS PrefixArray, PrefixSpans

VARIABLES
  phase,
  w,          \* write_idx
  r,          \* the read index i of the loop
  merged,     \* the pass has merged something
  outCount,   \* *out_count, -1 until it is written
  ret         \* the return value, "none" before the return

aggVars == <<phase, w, r, merged, outCount, ret>>
vars == <<engineVars, input, count, aggVars>>

Init == /\ ArrayInit
        /\ phase = "call"
        /\ w = 0
        /\ r = 0
        /\ merged = FALSE
        /\ outCount = -1
        /\ ret = "none"

----------------------------------------------------------------------------
ReturnOnEmpty == /\ phase = "call"
                 /\ count = 0
                 /\ outCount' = 0
                 /\ phase' = "done"
                 /\ ret' = "OK"
                 /\ UNCHANGED <<engineVars, input, count, w, r, merged>>

RejectFamily == /\ phase = "call"
                /\ count > 0
                /\ \E err \in {"INVAL", "FAMILY"} : FamilyError(err) /\ ret' = err
                /\ phase' = "done"
                /\ UNCHANGED <<engineVars, input, count, w, r, merged, outCount>>

BeginSort == /\ phase = "call"
             /\ count > 0
             /\ OneFamily
             /\ pending' = WholeArray(count, "ASC")
             /\ phase' = "sort"
             /\ UNCHANGED <<arr, scanVars, input, count, w, r, merged, outCount, ret>>

SortStep == /\ phase = "sort"
            /\ EngineNext
            /\ UNCHANGED <<input, count, aggVars>>

BeginDedupe == /\ phase = "sort"
               /\ EngineIdle
               /\ phase' = "dedupe"
               /\ w' = 0
               /\ r' = 1
               /\ UNCHANGED <<engineVars, input, count, merged, outCount, ret>>

\* Keep the item at r behind the last kept one.
Keep == /\ w' = w + 1
        /\ arr' = [arr EXCEPT ![w + 1] = arr[r]]
Skip == UNCHANGED <<w, arr>>

\* prefixes_equal_key with the last kept item.
Dedupe == /\ phase = "dedupe"
          /\ r < count
          /\ IF SameKey(arr[w], arr[r]) THEN Skip ELSE Keep
          /\ r' = r + 1
          /\ UNCHANGED <<pending, scanVars, input, count, phase, merged, outCount, ret>>

BeginCover == /\ phase = "dedupe"
              /\ r = count
              /\ count' = w + 1
              /\ phase' = "cover"
              /\ w' = 0
              /\ r' = 1
              /\ UNCHANGED <<engineVars, input, merged, outCount, ret>>

\* Mutant: compares with the item before, not with the last kept one.
DropCoveredByPrevious ==
  /\ phase = "cover"
  /\ r < count
  /\ IF PrefixMatches(arr[r - 1], arr[r].addr) THEN Skip ELSE Keep
  /\ r' = r + 1
  /\ UNCHANGED <<pending, scanVars, input, count, phase, merged, outCount, ret>>

\* bulk_prefix_contains of the last kept item and the next network address.
DropCovered == /\ phase = "cover"
               /\ r < count
               /\ IF PrefixMatches(arr[w], arr[r].addr) THEN Skip ELSE Keep
               /\ r' = r + 1
               /\ UNCHANGED <<pending, scanVars, input, count, phase, merged, outCount, ret>>

BeginMerge == /\ phase = "cover"
              /\ r = count
              /\ count' = w + 1
              /\ phase' = "merge"
              /\ merged' = FALSE
              /\ w' = 0
              /\ r' = 0
              /\ UNCHANGED <<engineVars, input, outCount, ret>>

\* The parent of the item at r takes the place of its sibling.
MergeSiblings ==
  /\ phase = "merge"
  /\ r < count
  /\ w > 0
  /\ AreSiblings(arr[w - 1], arr[r])
  /\ LET super == Supernet(arr[r])
     IN  arr' = [arr EXCEPT ![w - 1] = [arr[r] EXCEPT !.addr = super.addr,
                                                      !.pfxlen = super.pfxlen]]
  /\ merged' = TRUE
  /\ r' = r + 1
  /\ UNCHANGED <<pending, scanVars, input, count, phase, w, outCount, ret>>

MoveDown == /\ phase = "merge"
            /\ r < count
            /\ w > 0 => ~AreSiblings(arr[w - 1], arr[r])
            /\ arr' = [arr EXCEPT ![w] = arr[r]]
            /\ w' = w + 1
            /\ r' = r + 1
            /\ UNCHANGED <<pending, scanVars, input, count, phase, merged, outCount, ret>>

\* Mutant: the flag is not reset.
AnotherPassStaysMerged == /\ phase = "merge"
                          /\ r = count
                          /\ merged
                          /\ count' = w
                          /\ w' = 0
                          /\ r' = 0
                          /\ UNCHANGED <<engineVars, input, phase, merged, outCount, ret>>

\* `while (merged)`: another pass over what is left.
AnotherPass == /\ phase = "merge"
               /\ r = count
               /\ merged
               /\ count' = w
               /\ merged' = FALSE
               /\ w' = 0
               /\ r' = 0
               /\ UNCHANGED <<engineVars, input, phase, outCount, ret>>

\* Mutant: one pass is taken to be enough.
ReturnAfterOnePass == /\ phase = "merge"
                      /\ r = count
                      /\ count' = w
                      /\ outCount' = w
                      /\ phase' = "done"
                      /\ ret' = "OK"
                      /\ UNCHANGED <<engineVars, input, w, r, merged>>

ReturnResult == /\ phase = "merge"
                /\ r = count
                /\ ~merged
                /\ count' = w
                /\ outCount' = w
                /\ phase' = "done"
                /\ ret' = "OK"
                /\ UNCHANGED <<engineVars, input, w, r, merged>>

Next == \/ ReturnOnEmpty \/ RejectFamily \/ BeginSort \/ SortStep
        \/ BeginDedupe \/ Dedupe \/ BeginCover \/ DropCovered \/ BeginMerge
        \/ MergeSiblings \/ MoveDown \/ AnotherPass \/ ReturnResult

Spec == Init /\ [][Next]_vars
FairSpec == Spec /\ WF_vars(Next)

----------------------------------------------------------------------------
(* The prefixes the array still stands for: what was kept and what was not *)
(* read yet.  The slots in between hold leftovers.                         *)

LiveSlots ==
  CASE phase \in {"dedupe", "cover"} -> 0 .. w \cup r .. count - 1
    [] phase = "merge"               -> 0 .. w - 1 \cup r .. count - 1
    [] OTHER                         -> 0 .. count - 1

Bare(c) == [addr |-> c.addr, pfxlen |-> c.pfxlen]
Live == {Bare(arr[k]) : k \in LiveSlots}
InputSpan == SpanOf({Bare(input[k]) : k \in DOMAIN input})

\* At no moment of the in-place passes does the array lose or gain an address:
\* what has been kept and what is still to be read cover the input exactly.
CoverPreserved == SpanOf(Live) = InputSpan

\* The result is the canonical list: the largest blocks, ascending, no two
\* covering one another and no two siblings left to merge.
ResultIsCanonical ==
  ret = "OK" =>
    /\ outCount = count
    /\ {Bare(arr[k]) : k \in 0 .. outCount - 1} = Canonical(InputSpan)
    /\ \A k \in 0 .. outCount - 2 : PrefixCmp(arr[k], arr[k + 1]) = -1

\* The merge pass never compares a prefix with itself or with one it covers,
\* which prefixes_are_siblings takes for a sibling when the two are equal: the
\* passes before it leave the live prefixes disjoint and ascending.
MergeInputDisjoint ==
  phase = "merge" =>
    \A k, l \in LiveSlots :
      k < l => /\ Span(arr[k]) \cap Span(arr[l]) = {}
               /\ PrefixCmp(arr[k], arr[l]) = -1

\* Why it holds, loop by loop.  First the types, and where the two indices are
\* while a loop runs; a cell is a prefix even when it is a leftover.
TypeOK == /\ EngineTypeOK
          /\ phase \in {"call", "sort", "dedupe", "cover", "merge", "done"}
          /\ count \in Bound
          /\ w \in Bound
          /\ r \in Bound
          /\ merged \in BOOLEAN
          /\ outCount \in Bound \cup {-1}
          /\ ret \in {"none", "OK", "INVAL", "FAMILY"}

ShapeInv ==
  /\ TypeOK
  /\ PartitionInv
  /\ \A k \in DOMAIN arr : MaskApply(arr[k].addr, arr[k].pfxlen) = arr[k].addr
  /\ phase # "sort" => EngineIdle
  /\ phase \in {"call", "sort"} => count = Cardinality(DOMAIN input)
  /\ phase = "sort" => count > 0
  /\ phase \in {"dedupe", "cover"} => w < r /\ r <= count
  /\ phase = "merge" => w <= r /\ r <= count
  /\ ret = "none" <=> phase # "done"

\* The sort leaves the array ascending, the next pass makes what it keeps
\* strictly so, the one after that disjoint, and a pass that has merged nothing
\* has no siblings side by side.
AscendingInv ==
  /\ phase = "sort" => CallsInv("ASC") /\ OrderedApart("ASC")
  /\ phase = "dedupe" =>
       \A k, l \in LiveSlots :
         k < l => PrefixCmp(arr[k], arr[l]) \in IF l <= w THEN {-1} ELSE {-1, 0}
  /\ phase = "cover" =>
       \A k, l \in LiveSlots :
         k < l => /\ PrefixCmp(arr[k], arr[l]) = -1
                  /\ l <= w => Span(arr[k]) \cap Span(arr[l]) = {}
  /\ phase = "merge" /\ ~merged =>
       \A k \in 1 .. w - 1 : ~AreSiblings(arr[k - 1], arr[k])

\* The inductive invariant of the call.
IInv == /\ ShapeInv
        /\ AscendingInv
        /\ MergeInputDisjoint
        /\ CoverPreserved
        /\ ResultIsCanonical

\* Merging is a fixpoint loop without a counter: it ends.
Returns == <>(phase = "done")

\* The array implementation does what the set of prefixes may do.
Abs == INSTANCE AggregateSpec WITH
         live <- Live,
         status <- IF phase # "done" THEN "working"
                   ELSE IF ret = "OK" THEN "done" ELSE "refused"
ImplementsAggregateSpec == Abs!AbsSpec
=============================================================================
