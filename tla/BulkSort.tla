------------------------------ MODULE BulkSort ------------------------------
(***************************************************************************)
(* cidr_bulk_sort of src/cidr_bulk.c: validation, the radix sort, and for  *)
(* the descending order the tag pass that repairs runs of duplicates.      *)
(* The call is one thread's; its steps are those of the loops, so that the *)
(* invariants speak of every intermediate state of the caller's array.     *)
(***************************************************************************)
EXTENDS PrefixArray

CONSTANT Orders     \* the order arguments, valid or not

VARIABLES
  order,
  family,   \* the family read from the first prefix
  phase,    \* where the call is
  run,      \* run_start of the duplicate scan
  ret       \* the return value, "none" before the return

sortVars == <<input, count, order, family, phase, run, ret>>
vars == <<engineVars, sortVars>>

Init == /\ ArrayInit
        /\ order \in Orders
        /\ family = Unspec
        /\ phase = "call"
        /\ run = 0
        /\ ret = "none"

Leave(err) == /\ phase' = "done"
              /\ ret' = err

ReturnOnEmpty == /\ phase = "call"
                 /\ count = 0
                 /\ Leave("OK")
                 /\ UNCHANGED <<engineVars, input, count, order, family, run>>

RejectOrder == /\ phase = "call"
               /\ count > 0
               /\ order \notin {"ASC", "DESC"}
               /\ Leave("INVAL")
               /\ UNCHANGED <<engineVars, input, count, order, family, run>>

RejectFamily == /\ phase = "call"
                /\ count > 0
                /\ order \in {"ASC", "DESC"}
                /\ \E err \in {"INVAL", "FAMILY"} : FamilyError(err) /\ Leave(err)
                /\ UNCHANGED <<engineVars, input, count, order, family, run>>

Valid == phase = "call" /\ count > 0 /\ OneFamily

BeginAsc == /\ Valid
            /\ order = "ASC"
            /\ family' = arr[0].fam
            /\ phase' = "sort"
            /\ pending' = WholeArray(count, "ASC")
            /\ UNCHANGED <<arr, scanVars, input, count, order, run, ret>>

\* UINT32_MAX for tags of four bytes.
TagMax == TagWeight(TagLen) - 1

\* Mutant: the number of tags is tested after they were written.
RejectCountAfterTagging == /\ Valid
                           /\ order = "DESC"
                           /\ count > TagMax
                           /\ arr' = Tagged(arr)
                           /\ Leave("INVAL")
                           /\ UNCHANGED <<pending, scanVars, input, count, order, family, run>>

RejectCount == /\ Valid
               /\ order = "DESC"
               /\ count > TagMax
               /\ Leave("INVAL")
               /\ UNCHANGED <<engineVars, input, count, order, family, run>>

\* prefixes_prepare_order_tags: every index is written over its family field.
BeginDesc == /\ Valid
             /\ order = "DESC"
             /\ count <= TagMax
             /\ family' = arr[0].fam
             /\ arr' = Tagged(arr)
             /\ phase' = "sort"
             /\ pending' = WholeArray(count, "DESC")
             /\ UNCHANGED <<scanVars, input, count, order, run, ret>>

SortStep == /\ phase = "sort"
            /\ EngineNext
            /\ UNCHANGED sortVars

EndAsc == /\ phase = "sort"
          /\ EngineIdle
          /\ order = "ASC"
          /\ Leave("OK")
          /\ UNCHANGED <<engineVars, input, count, order, family, run>>

BeginRepair == /\ phase = "sort"
               /\ EngineIdle
               /\ order = "DESC"
               /\ phase' = "repair"
               /\ run' = 0
               /\ UNCHANGED <<engineVars, input, count, order, family, ret>>

IsRun(lo, hi) == /\ \A k \in lo .. hi - 1 : SameKey(arr[lo], arr[k])
                 /\ hi < count => ~SameKey(arr[lo], arr[hi])

\* One round of prefixes_restore_desc_duplicate_order.
RepairRun == /\ phase = "repair"
             /\ EngineIdle
             /\ run < count
             /\ \E hi \in run + 1 .. count :
                  /\ IsRun(run, hi)
                  /\ run' = hi
                  /\ pending' = IF hi - run > 1 THEN {Frame(run, hi, 0, "tag")} ELSE {}
             /\ UNCHANGED <<arr, scanVars, input, count, order, family, phase, ret>>

RepairStep == /\ phase = "repair"
              /\ EngineNext
              /\ UNCHANGED sortVars

\* prefixes_restore_family
RestoreFamily == /\ phase = "repair"
                 /\ EngineIdle
                 /\ run = count
                 /\ arr' = WithFamily(arr, family)
                 /\ Leave("OK")
                 /\ UNCHANGED <<pending, scanVars, input, count, order, family, run>>

Next == \/ ReturnOnEmpty \/ RejectOrder \/ RejectFamily \/ RejectCount
        \/ BeginAsc \/ BeginDesc \/ SortStep \/ EndAsc
        \/ BeginRepair \/ RepairRun \/ RepairStep \/ RestoreFamily

Spec == Init /\ [][Next]_vars

----------------------------------------------------------------------------
TypeOK ==
  /\ EngineTypeOK
  /\ count = Cardinality(DOMAIN input)
  /\ order \in Orders
  /\ family \in Family
  /\ phase \in {"call", "sort", "repair", "done"}
  /\ run \in Bound
  /\ ret \in {"none", "OK", "INVAL", "FAMILY"}

\* What every step preserves: outside the two sorting phases no call is open
\* and no tag is in use; while they last, the family that will be restored is
\* the one of every input entry.
Sorting == phase \in {"sort", "repair"}
OwnFamily == \A k \in DOMAIN arr : arr[k].fam = input[arr[k].src].fam
ShapeInv ==
  /\ TypeOK
  /\ PartitionInv
  /\ Permutes
  /\ ~Sorting => EngineIdle
  /\ phase = "call" => \A k \in DOMAIN arr : arr[k].src = k
  /\ ~Sorting \/ order = "ASC" => OwnFamily
  /\ Sorting => \A k \in DOMAIN input : input[k].fam = family

\* What cidr_bulk_sort promises on CIDR_OK: the array is ordered, and in the
\* descending order exact duplicates keep the order they had in the input.
Sorted ==
  ret = "OK" =>
    \A k, l \in DOMAIN arr : k < l =>
      /\ ~Before(arr[l], arr[k], order)
      /\ order = "DESC" /\ SameKey(arr[k], arr[l]) => arr[k].src < arr[l].src

\* The duplicates before `run` are in input order, but for those of the run
\* being sorted, and none of them has an equal beyond.
DuplicatesInv ==
  /\ \A f \in Open : /\ f.hi <= run
                     /\ \A k, l \in Slots(f) : SameKey(arr[k], arr[l])
  /\ \A k, l \in DOMAIN arr :
       k < l /\ SameKey(arr[k], arr[l]) /\ k < run =>
         l < run /\ (Together(k, l) \/ InOrder(arr[k], arr[l], "tag"))

\* What the order of the array is in each phase: the sort has placed what its
\* open calls leave apart; the repair exchanges equal keys only, and sorts
\* their tags, which are the positions in the input.
OrderInv ==
  /\ ret # "none" <=> phase = "done"
  /\ Sorting => order \in {"ASC", "DESC"}
  /\ Sorting /\ order = "DESC" => /\ count <= TagMax
                                  /\ \A k \in DOMAIN arr : arr[k].fam = arr[k].src
  /\ phase = "sort" => CallsInv(order) /\ OrderedApart(order)
  /\ phase = "repair" => /\ order = "DESC"
                         /\ CallsInv("tag")
                         /\ \A k, l \in DOMAIN arr : k < l => InOrder(arr[k], arr[l], order)
                         /\ DuplicatesInv
  /\ Sorted

IInv == ShapeInv /\ OrderInv

\* The order tags that borrow the family field never reach the caller: every
\* return, of success or of an error, leaves each entry its own family.
FamilyRestored == phase = "done" => OwnFamily

\* The partition loop is a `for` without an increment, so its end is not
\* evident: every call that has begun to sort returns.
Returns == Sorting ~> phase = "done"

\* Each call works on its own range only: what lies outside keeps its cells.
StaysInSegment ==
  [][busy => \A k \in DOMAIN arr \ Slots(seg) : arr'[k] = arr[k]]_vars
=============================================================================
