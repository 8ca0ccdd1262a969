---------------------------- MODULE IndexProofs ----------------------------
(***************************************************************************)
(* The index of src/cidr_index.c, built and looked up, for addresses and   *)
(* bytes of any width, any branching limit, any node limit and arrays of   *)
(* any length.  In this order: memory, the control of a lookup, the sorted *)
(* array, the Patricia trie, the dynamic programme, the packed array and   *)
(* its size, and what a lookup finds in it.                                *)
(***************************************************************************)
EXTENDS IndexLookup, RadixProofs

----------------------------------------------------------------------------
(* Memory.  What is live at each point of cidr_index_create: the            *)
(* allocations are made in one order, and nothing is freed before the end. *)

HeapInv ==
  /\ phase \in {"call", "alloc", "sort", "build", "pack", "done", "destroyed"}
  /\ phase = "call" => heap = {}
  /\ phase = "alloc" => heap \in {{}, {"idx"}, {"idx", "copy"}, {"idx", "copy", "orig_map"}}
  /\ phase = "sort" => heap = {"idx", "copy", "orig_map"}
  /\ phase = "build" => heap = {"idx", "copy", "orig_map", "pat_nodes"}
  /\ phase = "pack" => heap = {"idx", "copy", "orig_map", "pat_nodes", "nodes"}
  /\ phase = "done" => IF ret = "OK"
                       THEN published /\ heap = {"idx", "copy", "orig_map", "nodes"}
                       ELSE heap = {}
  /\ phase = "destroyed" => heap = {}
  /\ published => phase = "done" /\ ret = "OK"

\* The number of live allocations tells which one comes next.
LEMMA AllocationsCounted ==
  ASSUME HeapInv, phase = "alloc"
  PROVE  /\ Len(Copying) = 3
         /\ Copying[1] = "idx" /\ Copying[2] = "copy" /\ Copying[3] = "orig_map"
         /\ heap = {} => Allocated = 0
         /\ heap = {"idx"} => Allocated = 1
         /\ heap = {"idx", "copy"} => Allocated = 2
         /\ heap = {"idx", "copy", "orig_map"} => Allocated = 3
<1>1. Len(Copying) = 3 /\ Copying[1] = "idx" /\ Copying[2] = "copy" /\ Copying[3] = "orig_map"
  BY DEF Copying
<1>2. Cardinality({}) = 0 /\ IsFiniteSet({})
  BY FS_EmptySet
<1>3. Cardinality({"idx"}) = 1 /\ IsFiniteSet({"idx"})
  BY FS_Singleton
<1>4. /\ {"idx"} \cup {"copy"} = {"idx", "copy"}
      /\ {"idx", "copy"} \cup {"orig_map"} = {"idx", "copy", "orig_map"}
      /\ "copy" \notin {"idx"} /\ "orig_map" \notin {"idx", "copy"}
  OBVIOUS
<1>5. Cardinality({"idx", "copy"}) = 2 /\ IsFiniteSet({"idx", "copy"})
  <2>1. /\ IsFiniteSet({"idx"} \cup {"copy"})
        /\ Cardinality({"idx"} \cup {"copy"}) = 1 + 1
    BY <1>3, <1>4, FS_AddElement
  <2> QED BY <1>4, <2>1
<1>6. Cardinality({"idx", "copy", "orig_map"}) = 3
  <2>1. Cardinality({"idx", "copy"} \cup {"orig_map"}) = 2 + 1
    BY <1>5, <1>4, FS_AddElement
  <2> QED BY <1>4, <2>1
<1> QED BY <1>1, <1>2, <1>3, <1>5, <1>6 DEF Allocated

LEMMA HeapStep == HeapInv /\ [Next]_vars => HeapInv'
<1> SUFFICES ASSUME HeapInv, [Next]_vars PROVE HeapInv'
  OBVIOUS
<1> USE DEF HeapInv
<1>1. CASE RejectCount
  BY <1>1 DEF RejectCount, Refuse, Leave
<1>2. CASE RejectFamily
  BY <1>2 DEF RejectFamily, FamilyError, Refuse, Leave
<1>3. CASE Accept
  BY <1>3 DEF Accept
<1>4. CASE Allocate
  <2>1. Allocated # 3
    BY <1>4, AllocationsCounted DEF Allocate
  <2>2. /\ heap = {} => heap' = {"idx"}
        /\ heap = {"idx"} => heap' = {"idx", "copy"}
        /\ heap = {"idx", "copy"} => heap' = {"idx", "copy", "orig_map"}
    BY <1>4, AllocationsCounted DEF Allocate
  <2>3. heap # {"idx", "copy", "orig_map"}
    BY <1>4, <2>1, AllocationsCounted DEF Allocate
  <2> QED BY <1>4, <2>2, <2>3 DEF Allocate
<1>5. CASE AllocateFails
  BY <1>5 DEF AllocateFails, Cleanup, Leave
<1>6. CASE BeginSort
  <2>1. heap = {"idx", "copy", "orig_map"}
    BY <1>6, AllocationsCounted DEF BeginSort
  <2> QED BY <1>6, <2>1 DEF BeginSort
<1>7. CASE SortStep
  BY <1>7 DEF SortStep, idxVars
<1>8. CASE ResolveDuplicates
  BY <1>8 DEF ResolveDuplicates
<1>9. CASE ArenaFails
  BY <1>9 DEF ArenaFails, Cleanup, Leave
<1>10. CASE BuildNode
  BY <1>10 DEF BuildNode
<1>11. CASE BuildOverflows
  BY <1>11 DEF BuildOverflows, Cleanup, Leave
<1>12. CASE CostNode
  BY <1>12 DEF CostNode
<1>13. CASE CostOverflows
  BY <1>13 DEF CostOverflows, Cleanup, Leave
<1>14. CASE NodesFail
  BY <1>14 DEF NodesFail, Costed, Cleanup, Leave
<1>15. CASE BeginPack
  BY <1>15 DEF BeginPack, Costed
<1>16. CASE PackNode
  BY <1>16 DEF PackNode
<1>17. CASE Publish
  BY <1>17 DEF Publish
<1>18. CASE Destroy
  BY <1>18 DEF Destroy
<1>19. CASE PackDead
  BY <1>19 DEF PackDead
<1>20. CASE UNCHANGED vars
  BY <1>20 DEF vars, idxVars
<1> QED BY <1>1, <1>2, <1>3, <1>4, <1>5, <1>6, <1>7, <1>8, <1>9, <1>10, <1>11, <1>12,
           <1>13, <1>14, <1>15, <1>16, <1>17, <1>18, <1>19, <1>20 DEF Next, CreateNext

LEMMA SystemStep ==
  SystemNext => \/ CreateNext /\ UNCHANGED lookupVars
                \/ Destroy /\ lookup # "search" /\ UNCHANGED lookupVars
                \/ UNCHANGED vars /\ LookupNext
BY DEF SystemNext, CreateStep, DestroyStep, LookupNext, LookupEmpty, LookupRefused,
       LookupBegin, Call, Descend, Stop, LookupReturn

LEMMA HeapAlways == SystemSpec => []HeapInv
<1>1. LookupInit => HeapInv
  BY DEF LookupInit, Init, HeapInv
<1>2. HeapInv /\ [SystemNext]_allVars => HeapInv'
  BY HeapStep, SystemStep DEF Next, allVars
<1> QED BY <1>1, <1>2, PTL DEF SystemSpec

\* Whatever allocation fails and whichever check refuses, a create that failed
\* owns nothing, and a destroyed index leaves nothing.
THEOREM NothingLeaks == SystemSpec => []NoLeak
<1>1. HeapInv => NoLeak
  BY DEF HeapInv, NoLeak
<1> QED BY <1>1, HeapAlways, PTL

----------------------------------------------------------------------------
(* The control of a lookup: how far it is in its batch.                    *)

BatchOfFamily == \A k \in DOMAIN batch : batch[k].fam = family

LookupInv ==
  /\ lookup \in {"idle", "search", "returned"}
  /\ lookup = "idle" => DOMAIN matches = {} /\ j = 1 /\ at = 0 /\ bitPos = 0 /\ best = None
  /\ lookup # "idle" => phase \in {"done", "destroyed"} /\ batch \in Batches
  /\ lookup = "search" =>
       /\ published
       /\ j \in 1 .. Len(batch) + 1
       /\ DOMAIN matches = 1 .. j - 1
       /\ BatchOfFamily
  /\ AllOrNothing

LEMMA BatchShape ==
  ASSUME NEW b \in Batches
  PROVE  /\ Len(b) \in Nat
         /\ DOMAIN b = 1 .. Len(b)
         /\ \A k \in DOMAIN b : b[k].addr \in Address
         /\ Len(b) = 0 => b = <<>>
         /\ b = <<>> => DOMAIN b = {}
<1> DEFINE Q == [addr : Address, fam : Family]
<1>1. b \in Seq(Q)
  BY BatchAssumption
<1>2. \A q \in Q : q.addr \in Address
  OBVIOUS
<1> HIDE DEF Q
<1>3. /\ Len(b) \in Nat /\ b \in [1 .. Len(b) -> Q]
      /\ Len(b) = 0 => b = <<>>
      /\ b = <<>> => Len(b) = 0
  BY <1>1
<1> QED BY <1>2, <1>3

\* What a lookup in flight depends on is not changed by the build or by destroy.
LEMMA CreateIsOver ==
  ASSUME HeapInv, lookup # "idle" => phase \in {"done", "destroyed"}, lookup # "idle"
  PROVE  ~CreateNext
BY DEF CreateNext, RejectCount, RejectFamily, Accept, Allocate, AllocateFails, BeginSort,
       SortStep, ResolveDuplicates, ArenaFails, BuildNode, BuildOverflows, CostNode,
       CostOverflows, Costed, NodesFail, BeginPack, PackNode, PackDead, Publish

LEMMA LookupStep == HeapInv /\ LookupInv /\ [SystemNext]_allVars => LookupInv'
<1> SUFFICES ASSUME HeapInv, LookupInv, [SystemNext]_allVars PROVE LookupInv'
  OBVIOUS
<1> USE DEF LookupInv, AllOrNothing, BatchOfFamily
<1>1. CASE CreateNext /\ UNCHANGED lookupVars
  <2>1. lookup = "idle"
    BY <1>1, CreateIsOver
  <2> QED BY <1>1, <2>1 DEF lookupVars
<1>2. CASE Destroy /\ lookup # "search" /\ UNCHANGED lookupVars
  BY <1>2 DEF Destroy, lookupVars
<1>3. ASSUME NEW b \in Batches, LookupEmpty(b) PROVE LookupInv'
  BY <1>3, BatchShape DEF LookupEmpty, Call, HeapInv, vars, idxVars
<1>4. ASSUME NEW b \in Batches, LookupRefused(b) PROVE LookupInv'
  <2>1. /\ phase' = phase /\ phase = "done" /\ batch' = b
        /\ lookup' = "returned" /\ DOMAIN matches' = {} /\ lookupRet' # "OK"
    BY <1>4 DEF LookupRefused, Call, HeapInv, vars, idxVars
  <2> QED BY <2>1, <1>4
<1>5. ASSUME NEW b \in Batches, LookupBegin(b) PROVE LookupInv'
  <2>1. /\ phase' = phase /\ phase = "done" /\ published' /\ batch' = b /\ family' = family
        /\ lookup' = "search" /\ DOMAIN matches' = {} /\ j' = 1
        /\ \A k \in DOMAIN b : b[k].fam = family
    BY <1>5 DEF LookupBegin, Call, HeapInv, vars, idxVars, Misfit
  <2> QED BY <2>1, <1>5, BatchShape
<1>6. CASE Descend
  BY <1>6 DEF Descend, Searching, vars, idxVars
<1>7. CASE Stop
  <2>1. Len(batch) \in Nat
    BY <1>7, BatchShape DEF Stop, Searching
  <2>2. DOMAIN matches' = 1 .. j' - 1
    BY <1>7, <2>1 DEF Stop, Searching
  <2> QED BY <1>7, <2>1, <2>2 DEF Stop, Searching, vars, idxVars
<1>8. CASE LookupReturn
  BY <1>8, BatchShape DEF LookupReturn, vars, idxVars
<1>9. CASE UNCHANGED allVars
  BY <1>9 DEF allVars, lookupVars, vars, idxVars
<1> QED BY <1>1, <1>2, <1>3, <1>4, <1>5, <1>6, <1>7, <1>8, <1>9, SystemStep DEF LookupNext

LEMMA LookupAlways == SystemSpec => []LookupInv
<1>1. LookupInit => LookupInv
  BY DEF LookupInit, LookupInv, AllOrNothing, Empty
<1>2. HeapInv /\ LookupInv /\ [SystemNext]_allVars => LookupInv'
  BY LookupStep
<1> QED BY <1>1, <1>2, HeapAlways, PTL DEF SystemSpec

\* A batch is answered as a whole or refused without a trace, wherever in it an
\* address of another family stands.
THEOREM AllAnsweredOrNone == SystemSpec => []AllOrNothing
<1>1. LookupInv => AllOrNothing
  BY DEF LookupInv
<1> QED BY <1>1, LookupAlways, PTL

----------------------------------------------------------------------------
(* The array of the index: the sort's invariant, and what the sort and the *)
(* resolution of duplicates leave for good.                                *)

Built == phase \in {"build", "pack"} \/ published

\* Before the sort every cell is where it was, and during it tagged with where
\* it was; afterwards the array is in order and orig_map leads to equal keys.
ArrayInv ==
  /\ EngineTypeOK /\ PartitionInv /\ Permutes
  /\ count = Cardinality(DOMAIN input)
  /\ phase # "sort" => EngineIdle
  /\ phase \in {"alloc", "sort"} => count > 0
  /\ phase \in {"call", "alloc"} => \A k \in DOMAIN arr : arr[k].src = k
  /\ phase \in {"alloc", "sort"} => family \in Family \cup 0 .. count - 1
  /\ phase = "sort" => /\ CallsInv("ASC") /\ OrderedApart("ASC")
                       /\ \A k \in DOMAIN arr : arr[k].fam = arr[k].src
  /\ Built => /\ count > 0
              /\ \A k, l \in DOMAIN arr : k < l => PrefixCmp(arr[k], arr[l]) \in {-1, 0}
              /\ orig \in [DOMAIN arr -> DOMAIN input]
              /\ \A k \in DOMAIN arr : SameKey(arr[k], input[orig[k]])

LEMMA ArrayShape ==
  ASSUME ArrayInv
  PROVE  /\ IsPrefixArray(input) /\ count \in Nat
         /\ DOMAIN input = 0 .. count - 1 /\ DOMAIN arr = 0 .. count - 1
         /\ \A k \in 0 .. count - 1 : /\ IsPrefix(input[k]) /\ input[k].fam \in Family
                                      /\ IsPrefix(arr[k]) /\ arr[k] \in Cell
                                      /\ arr[k].src \in 0 .. count - 1
<1>1. IsPrefixArray(input) /\ count \in Nat /\ DOMAIN input = 0 .. count - 1
  BY Positions DEF ArrayInv, EngineTypeOK
<1>2. DOMAIN arr = 0 .. count - 1 /\ \A k \in DOMAIN arr : arr[k] \in Cell
  BY <1>1 DEF ArrayInv, EngineTypeOK
<1>3. \A k \in 0 .. count - 1 : IsPrefix(input[k]) /\ input[k].fam \in Family
  BY <1>1 DEF IsPrefixArray, IsPrefix, IsEntry, ArrayInv
<1>4. \A k \in 0 .. count - 1 : arr[k].src \in 0 .. count - 1 /\ SameKey(arr[k], input[arr[k].src])
  BY <1>1, <1>2 DEF Cell, ArrayInv, Permutes
<1>5. \A k \in 0 .. count - 1 : IsPrefix(arr[k])
  BY <1>3, <1>4 DEF IsPrefix, IsEntry, SameKey
<1> QED BY <1>1, <1>2, <1>3, <1>4, <1>5

\* Every action but those of the sort leaves the array alone.
LEMMA ArrayStays ==
  ASSUME ArrayInv, UNCHANGED <<engineVars, input, count, family, orig>>,
         phase' # "sort" => EngineIdle,
         phase' \in {"call", "alloc", "sort"} => phase' = phase,
         Built' => Built
  PROVE  ArrayInv'
<1>1. EngineTypeOK' /\ PartitionInv' /\ Permutes'
  BY EngineIdleStep DEF ArrayInv
<1>2. EngineIdle' = EngineIdle
  BY DEF EngineIdle, engineVars
<1>3. CallsInv("ASC") => CallsInv("ASC")'
  BY DEF CallsInv, Open, InBucket, BucketEnd, engineVars
<1>4. OrderedApart("ASC") => OrderedApart("ASC")'
  BY DEF OrderedApart, Together, Open, engineVars
<1>5. arr' = arr
  BY DEF engineVars
<1> HIDE DEF Built
<1> QED BY <1>1, <1>2, <1>3, <1>4, <1>5 DEF ArrayInv

LEMMA ArrayAtFirst == Init => ArrayInv
<1> SUFFICES ASSUME Init PROVE ArrayInv
  OBVIOUS
<1>1. /\ IsPrefixArray(input) /\ count = Cardinality(DOMAIN input)
      /\ phase = "call" /\ ~published
  BY ArraysAssumption DEF Init, ArrayInit
<1>2. /\ Cardinality(DOMAIN input) \in Nat
      /\ DOMAIN input = 0 .. Cardinality(DOMAIN input) - 1
      /\ input \in [DOMAIN input -> [addr : Address, pfxlen : Pfxlen, fam : Family]]
      /\ 0 \in Bound
  BY <1>1, Positions DEF IsPrefixArray, Bound
<1>3. /\ arr \in [DOMAIN input -> Cell]
      /\ \A k \in DOMAIN input : SameKey(arr[k], input[k]) /\ arr[k].src = k
  <2>1. arr = [k \in DOMAIN input |-> [addr |-> input[k].addr, pfxlen |-> input[k].pfxlen,
                                       fam |-> input[k].fam, src |-> k]]
    BY DEF Init, ArrayInit
  <2> QED BY <1>2, <2>1 DEF Cell, SameKey
<1>4. EngineTypeOK /\ PartitionInv /\ EngineIdle
  <2>1. NoFrame \in FrameType
    BY <1>2 DEF NoFrame, Frame, FrameType, Keys
  <2> QED BY <1>1, <1>2, <1>3, <2>1
      DEF Init, ArrayInit, EngineInit, NoLoop, EngineTypeOK, PartitionInv, EngineIdle
<1>5. Permutes
  BY <1>3 DEF Permutes
<1> QED BY <1>1, <1>3, <1>4, <1>5 DEF ArrayInv, Built

LEMMA ArrayAccept ==
  ASSUME ArrayInv, HeapInv, Accept
  PROVE  ArrayInv'
<1>1. /\ phase = "call" /\ phase' = "alloc" /\ count \in 1 .. nodeLimit /\ family' = arr[0].fam
      /\ UNCHANGED <<engineVars, input, count, published>> /\ arr' = arr /\ ~published
  BY DEF Accept, given, engineVars, HeapInv
<1>2. count > 0 /\ EngineIdle /\ count \in Nat /\ count = Cardinality(DOMAIN input)
  BY <1>1, ArrayShape DEF ArrayInv
<1>3. arr[0].fam \in Family \cup 0 .. count - 1
  <2>1. arr[0] \in Cell
    BY <1>2, ArrayShape
  <2> QED BY <1>2, <2>1 DEF Cell
<1>4. EngineTypeOK' /\ PartitionInv' /\ Permutes' /\ EngineIdle'
  BY <1>1, <1>2, EngineIdleStep DEF ArrayInv, EngineIdle, engineVars
<1> QED BY <1>1, <1>2, <1>3, <1>4 DEF ArrayInv, Built

LEMMA ArrayBeginSort ==
  ASSUME ArrayInv, HeapInv, BeginSort
  PROVE  ArrayInv'
<1>1. /\ phase = "alloc" /\ phase' = "sort" /\ arr' = Tagged(arr)
      /\ pending' = WholeArray(count, "ASC")
      /\ UNCHANGED <<scanVars, busy, seg, start, next, i, input, count, family, published>>
      /\ ~published
  BY DEF BeginSort, given, scanVars, HeapInv
<1>2. /\ count > 0 /\ EngineIdle /\ count \in Nat /\ count = Cardinality(DOMAIN input)
      /\ DOMAIN input = 0 .. count - 1 /\ DOMAIN arr = 0 .. count - 1
      /\ \A k \in 0 .. count - 1 : arr[k] \in Cell /\ arr[k].src = k
      /\ ~busy
  BY <1>1, ArrayShape DEF ArrayInv, EngineIdle
<1>3. /\ DOMAIN arr' = 0 .. count - 1
      /\ \A k \in 0 .. count - 1 : /\ arr'[k] = [arr[k] EXCEPT !.fam = k]
                                   /\ arr'[k] \in Cell /\ arr'[k].fam = k
                                   /\ arr'[k].addr = arr[k].addr /\ arr'[k].src = arr[k].src
                                   /\ arr'[k].pfxlen = arr[k].pfxlen
  <2>1. arr' = [k \in 0 .. count - 1 |-> [arr[k] EXCEPT !.fam = k]]
    BY <1>1, <1>2 DEF Tagged
  <2> QED BY <1>2, <2>1 DEF Cell
<1>4. EngineTypeOK'
  <2>1. Bound = 0 .. count
    BY <1>2 DEF Bound
  <2>2. WholeArray(count, "ASC") \subseteq FrameType
    <3>1. count \in Nat /\ count > 0
      BY <1>2
    <3> QED BY <2>1, <3>1 DEF WholeArray, Frame, FrameType, Keys
  <2>3. Bound' = Bound /\ FrameType' = FrameType /\ Cell' = Cell
    BY <1>1 DEF Bound, FrameType, Cell
  <2>4. arr' \in [DOMAIN input -> Cell]
    <3>1. arr' = [k \in 0 .. count - 1 |-> [arr[k] EXCEPT !.fam = k]]
      BY <1>1, <1>2 DEF Tagged
    <3> QED BY <1>2, <1>3, <3>1
  <2> QED BY <1>1, <2>2, <2>3, <2>4 DEF ArrayInv, EngineTypeOK, IsPrefixArray
<1>5. PartitionInv'
  BY <1>1, <1>2 DEF PartitionInv
<1>6. Permutes'
  <2>1. \A k \in 0 .. count - 1 : SameKey(arr[k], input[arr[k].src])
    BY <1>2 DEF ArrayInv, Permutes
  <2>2. /\ DOMAIN arr' = 0 .. count - 1 /\ input' = input
        /\ \A k \in 0 .. count - 1 : /\ arr'[k].addr = arr[k].addr /\ arr'[k].src = k
                                     /\ arr'[k].pfxlen = arr[k].pfxlen /\ arr[k].src = k
    BY <1>1, <1>2, <1>3
  <2> QED BY <2>1, <2>2 DEF Permutes, SameKey
<1>7. CallsInv("ASC")' /\ OrderedApart("ASC")'
  <2>1. CallsInv("ASC")' /\ \A k, l \in 0 .. count - 1 : Together(k, l)'
    BY <1>1, <1>2, OneCall DEF WholeArray, Keys
  <2> QED BY <1>3, <2>1 DEF OrderedApart
<1>8. family \in Family \cup 0 .. count - 1
  BY <1>1 DEF ArrayInv
<1> QED BY <1>1, <1>2, <1>3, <1>4, <1>5, <1>6, <1>7, <1>8 DEF ArrayInv, Built

LEMMA ArraySortStep ==
  ASSUME ArrayInv, HeapInv, SortStep
  PROVE  ArrayInv'
<1>1. /\ phase = "sort" /\ phase' = "sort" /\ EngineNext /\ ~published /\ ~published'
      /\ UNCHANGED <<input, count, family>>
  BY DEF SortStep, given, idxVars, HeapInv
<1>2. /\ EngineTypeOK /\ PartitionInv /\ Permutes /\ CallsInv("ASC") /\ OrderedApart("ASC")
      /\ DOMAIN input = 0 .. count - 1 /\ DOMAIN arr = DOMAIN input
  BY <1>1, ArrayShape DEF ArrayInv
<1>3. EngineTypeOK' /\ PartitionInv' /\ Permutes'
  BY <1>1, <1>2, EnginePreserves, EngineKeepsPermutes
<1>4. /\ DOMAIN arr' = DOMAIN input
      /\ \A k \in DOMAIN input : \E l \in DOMAIN input : arr'[k] = arr[l]
  BY <1>1, <1>2, CellsMove
<1>5. \A k \in DOMAIN arr' : arr'[k].fam = arr'[k].src
  <2> TAKE k \in DOMAIN arr'
  <2>1. PICK l \in DOMAIN input : arr'[k] = arr[l]
    BY <1>4
  <2> QED BY <1>1, <1>2, <2>1 DEF ArrayInv
<1>6. CallsInv("ASC")' /\ OrderedApart("ASC")'
  <2>1. PICK C : C = Cell
    OBVIOUS
  <2>2. PICK S : S = DOMAIN input
    OBVIOUS
  <2>3. PICK key : key = "ASC"
    OBVIOUS
  <2> DEFINE R == {e \in C \X C : InOrder(e[1], e[2], key)}
  <2>4. \A k \in S : arr[k] \in C
    BY <1>2, <2>1, <2>2 DEF EngineTypeOK
  <2>5. \A k, l \in S : InOrder(arr[k], arr[l], key) <=> <<arr[k], arr[l]>> \in R
    BY <2>4
  <2>6. ApartRelated(S, R) /\ \A f \in Open : Slots(f) \subseteq S /\ CallsInv(key)
    BY <1>2, <2>2, <2>3, <2>5, OpenFrames DEF ApartRelated, OrderedApart
  <2>7. CallsInv(key)' /\ ApartRelated(S, R)'
    <3> HIDE DEF R
    <3> QED BY <1>1, <1>2, <2>2, <2>3, <2>5, <2>6, EngineOrders
  <2>8. CallsInv("ASC")'
    BY <2>3, <2>7 DEF CallsInv
  <2> QED BY <1>4, <2>2, <2>3, <2>7, <2>8 DEF ApartRelated, OrderedApart
<1> QED BY <1>1, <1>3, <1>5, <1>6 DEF ArrayInv, Built

\* A run of equal keys starts at an equal key.
LEMMA RunStartIs ==
  ASSUME NEW k \in Nat
  PROVE  RunStart(k) \in 0 .. k /\ SameKey(arr[RunStart(k)], arr[k])
<1> DEFINE T == {x \in 0 .. k : \A m \in x .. k : SameKey(arr[x], arr[m])}
<1>1. k \in T
  BY DEF SameKey
<1>2. T \subseteq Nat
  OBVIOUS
<1>3. \E x \in T : \A y \in T : x <= y
  <2> HIDE DEF T
  <2> QED BY <1>1, <1>2, LeastElement
<1>4. RunStart(k) \in T
  BY <1>3 DEF RunStart, Min
<1> QED BY <1>4

LEMMA ArrayResolve ==
  ASSUME ArrayInv, HeapInv, ResolveDuplicates
  PROVE  ArrayInv'
<1>1. /\ phase = "sort" /\ phase' = "build" /\ EngineIdle /\ ~published /\ ~published'
      /\ orig' = [k \in DOMAIN arr |-> arr[RunStart(k)].fam]
      /\ arr' = WithFamily(arr, family)
      /\ UNCHANGED <<pending, busy, seg, start, next, i, input, count>>
  BY DEF ResolveDuplicates, given, scanVars, HeapInv
<1>2. /\ EngineTypeOK /\ Permutes /\ OrderedApart("ASC")
      /\ count > 0 /\ count \in Nat /\ count = Cardinality(DOMAIN input)
      /\ DOMAIN input = 0 .. count - 1 /\ DOMAIN arr = 0 .. count - 1
      /\ \A k \in 0 .. count - 1 : /\ arr[k] \in Cell /\ IsEntry(arr[k])
                                   /\ arr[k].fam = arr[k].src /\ arr[k].src \in 0 .. count - 1
      /\ family \in Family \cup 0 .. count - 1
  BY <1>1, ArrayShape DEF ArrayInv, IsPrefix
<1>3. /\ DOMAIN arr' = 0 .. count - 1
      /\ arr' \in [DOMAIN input -> Cell]
      /\ \A k \in 0 .. count - 1 : /\ arr'[k].addr = arr[k].addr /\ arr'[k].src = arr[k].src
                                   /\ arr'[k].pfxlen = arr[k].pfxlen
  <2>1. arr' = [k \in 0 .. count - 1 |-> [arr[k] EXCEPT !.fam = family]]
    BY <1>1, <1>2 DEF WithFamily
  <2>2. ASSUME NEW k \in 0 .. count - 1
        PROVE  /\ arr'[k] \in Cell
               /\ arr'[k].addr = arr[k].addr /\ arr'[k].src = arr[k].src
               /\ arr'[k].pfxlen = arr[k].pfxlen
    <3>1. arr[k] \in Cell /\ family \in Family \cup 0 .. Cardinality(DOMAIN input) - 1
      BY <1>2
    <3>2. arr'[k] = [arr[k] EXCEPT !.fam = family]
      BY <2>1
    <3> QED BY <3>1, <3>2 DEF Cell
  <2> QED BY <1>2, <2>1, <2>2
<1>4. EngineTypeOK' /\ PartitionInv' /\ EngineIdle'
  <2>1. Bound' = Bound /\ FrameType' = FrameType /\ Cell' = Cell
    BY <1>1 DEF Bound, FrameType, Cell
  <2>2. EngineIdle'
    BY <1>1 DEF EngineIdle
  <2>3. PartitionInv'
    BY <2>2 DEF EngineIdle, PartitionInv
  <2> QED BY <1>1, <1>2, <1>3, <2>1, <2>2, <2>3 DEF EngineTypeOK, IsPrefixArray
<1>5. Permutes'
  <2>1. /\ \A k \in 0 .. count - 1 : SameKey(arr[k], input[arr[k].src])
        /\ \A k, l \in 0 .. count - 1 : arr[k].src = arr[l].src => k = l
    BY <1>2 DEF Permutes
  <2> QED BY <1>1, <1>3, <2>1 DEF SameKey, Permutes
<1>6. \A k, l \in DOMAIN arr' : k < l => PrefixCmp(arr'[k], arr'[l]) \in {-1, 0}
  <2> SUFFICES ASSUME NEW k \in 0 .. count - 1, NEW l \in 0 .. count - 1, k < l
               PROVE  PrefixCmp(arr'[k], arr'[l]) \in {-1, 0}
    BY <1>3
  <2>1. InOrder(arr[k], arr[l], "ASC")
    BY <1>1, <1>2, NothingOpen DEF OrderedApart
  <2>2. PrefixCmp(arr[k], arr[l]) \in {-1, 0}
    BY <1>2, <2>1, KeyOrderIsCmp
  <2> QED BY <1>3, <2>2 DEF PrefixCmp
<1>7. \A k \in 0 .. count - 1 : /\ orig'[k] = arr[RunStart(k)].src
                               /\ RunStart(k) \in 0 .. count - 1
                               /\ SameKey(arr[RunStart(k)], arr[k])
  <2> TAKE k \in 0 .. count - 1
  <2>1. k \in Nat /\ RunStart(k) \in 0 .. k /\ SameKey(arr[RunStart(k)], arr[k])
    <3>1. k \in Nat
      BY <1>2
    <3> QED BY ONLY <3>1, RunStartIs
  <2>2. RunStart(k) \in 0 .. count - 1
    BY <1>2, <2>1
  <2>3. orig'[k] = arr[RunStart(k)].fam /\ arr[RunStart(k)].fam = arr[RunStart(k)].src
    BY <1>1, <1>2, <2>2
  <2> QED BY <2>1, <2>2, <2>3
<1>8. orig' \in [DOMAIN arr' -> DOMAIN input]
  BY <1>1, <1>2, <1>3, <1>7
<1>9. \A k \in DOMAIN arr' : SameKey(arr'[k], input[orig'[k]])
  <2> TAKE k \in DOMAIN arr'
  <2>1. SameKey(arr[RunStart(k)], input[arr[RunStart(k)].src])
    BY <1>2, <1>3, <1>7 DEF Permutes
  <2> QED BY <1>3, <1>7, <2>1 DEF SameKey
<1> QED BY <1>1, <1>2, <1>4, <1>5, <1>6, <1>8, <1>9 DEF ArrayInv

LEMMA ArrayStep == ArrayInv /\ HeapInv /\ [Next]_vars => ArrayInv'
<1> SUFFICES ASSUME ArrayInv, HeapInv, [Next]_vars PROVE ArrayInv'
  OBVIOUS
<1>1. CASE UNCHANGED vars
  <2>1. UNCHANGED <<engineVars, input, count, family, orig, phase, published>>
    BY <1>1 DEF vars, given, idxVars
  <2> QED BY <2>1, ArrayStays DEF ArrayInv, Built
<1>2. CASE RejectCount \/ RejectFamily
  <2>1. /\ UNCHANGED <<engineVars, input, count, family, orig, published>>
        /\ phase = "call" /\ phase' = "done"
    BY <1>2 DEF RejectCount, RejectFamily, FamilyError, Refuse, Leave, given
  <2> QED BY <2>1, ArrayStays DEF ArrayInv, Built
<1>3. CASE Accept
  BY <1>3, ArrayAccept
<1>4. CASE Allocate
  <2>1. /\ UNCHANGED <<engineVars, input, count, family, orig, published>>
        /\ phase = "alloc" /\ phase' = "alloc"
    BY <1>4 DEF Allocate, given
  <2> QED BY <2>1, ArrayStays DEF ArrayInv, Built
<1>5. CASE AllocateFails \/ ArenaFails \/ BuildOverflows \/ CostOverflows \/ NodesFail
  <2>1. /\ UNCHANGED <<engineVars, input, count, family, orig, published>>
        /\ phase = "sort" => EngineIdle
        /\ phase' = "done"
    BY <1>5 DEF AllocateFails, ArenaFails, BuildOverflows, CostOverflows, NodesFail, Costed,
                Cleanup, Leave, given
  <2> QED BY <2>1, ArrayStays DEF ArrayInv, Built
<1>6. CASE BeginSort
  BY <1>6, ArrayBeginSort
<1>7. CASE SortStep
  BY <1>7, ArraySortStep
<1>8. CASE ResolveDuplicates
  BY <1>8, ArrayResolve
<1>9. CASE BuildNode \/ CostNode \/ BeginPack \/ PackNode \/ PackDead
  <2>1. /\ UNCHANGED <<engineVars, input, count, family, orig, published>>
        /\ phase \in {"build", "pack"} /\ phase' \in {"build", "pack"}
    BY <1>9 DEF BuildNode, CostNode, BeginPack, Costed, PackNode, PackDead, given
  <2> QED BY <2>1, ArrayStays DEF ArrayInv, Built
<1>10. CASE Publish \/ Destroy
  <2>1. /\ UNCHANGED <<engineVars, input, count, family, orig>>
        /\ phase \in {"pack", "done"} /\ phase' \in {"done", "destroyed"}
        /\ phase = "done" => ~published'
    BY <1>10 DEF Publish, Destroy, given
  <2> QED BY <2>1, ArrayStays DEF ArrayInv, Built
<1> QED BY <1>1, <1>2, <1>3, <1>4, <1>5, <1>6, <1>7, <1>8, <1>9, <1>10 DEF Next, CreateNext

LEMMA ArrayAlways == SystemSpec => []ArrayInv
<1>1. LookupInit => ArrayInv
  BY ArrayAtFirst DEF LookupInit
<1>2. ArrayInv /\ HeapInv /\ [SystemNext]_allVars => ArrayInv'
  BY ArrayStep, SystemStep DEF Next, allVars
<1> QED BY <1>1, <1>2, HeapAlways, PTL DEF SystemSpec

----------------------------------------------------------------------------
(* A range of the sorted array, and how a node divides it.                 *)

RangeOf(c) == c.lo .. c.hi - 1

\* Entry k lies in the block of n bits around an address.
Shares(k, addr, n) == arr[k].pfxlen >= n /\ LeadingBits(arr[k].addr, n) = LeadingBits(addr, n)

LEMMA SortedShape ==
  ASSUME ArrayInv, Built
  PROVE  /\ count \in Nat /\ count > 0 /\ DOMAIN arr = 0 .. count - 1
         /\ \A k \in 0 .. count - 1 : /\ IsPrefix(arr[k]) /\ arr[k].addr \in Address
                                      /\ arr[k].pfxlen \in 0 .. KeyBits
                                      /\ Value(arr[k].addr) \in Nat
         /\ \A k, l \in 0 .. count - 1 : k < l =>
              /\ Value(arr[k].addr) <= Value(arr[l].addr)
              /\ arr[k].addr = arr[l].addr => arr[k].pfxlen <= arr[l].pfxlen
<1>1. /\ count \in Nat /\ count > 0 /\ DOMAIN arr = 0 .. count - 1
      /\ \A k \in 0 .. count - 1 : IsPrefix(arr[k])
  BY ArrayShape DEF ArrayInv
<1>2. \A k \in 0 .. count - 1 : /\ IsEntry(arr[k]) /\ arr[k].addr \in Address
                                /\ arr[k].pfxlen \in 0 .. KeyBits
                                /\ Value(arr[k].addr) \in Nat
  BY <1>1, ValueIsNat DEF IsPrefix, IsEntry, Pfxlen, MaxPfxlen
<1>3. ASSUME NEW k \in 0 .. count - 1, NEW l \in 0 .. count - 1, k < l
      PROVE  /\ Value(arr[k].addr) <= Value(arr[l].addr)
             /\ arr[k].addr = arr[l].addr => arr[k].pfxlen <= arr[l].pfxlen
  <2>1. PrefixCmp(arr[k], arr[l]) \in {-1, 0}
    BY <1>1, <1>3 DEF ArrayInv
  <2>2. \/ Value(arr[k].addr) < Value(arr[l].addr)
        \/ arr[k].addr = arr[l].addr /\ arr[k].pfxlen <= arr[l].pfxlen
    BY <1>2, <2>1, CmpIs, Shape
  <2> QED BY <1>2, <2>2
<1> QED BY <1>1, <1>2, <1>3

\* A range as the calls of patricia_subtree_build get it: every prefix of the
\* array that shares the bits before `bit` with the first one of the range.
IsRange(lo, hi, bit) ==
  /\ lo \in Nat /\ hi \in Nat /\ lo < hi /\ hi <= count /\ bit \in 0 .. KeyBits
  /\ \A k \in DOMAIN arr : k \in lo .. hi - 1 <=> Shares(k, arr[lo].addr, bit)

\* As long as no prefix of the range ends and no two part, all go on together.
LEMMA PathAgrees ==
  ASSUME ArrayInv, Built, NEW lo, NEW hi, NEW bit, IsRange(lo, hi, bit),
         NEW p \in bit .. KeyBits,
         \A n \in bit .. p - 1 : n \notin Stops(arr, lo, hi, bit)
  PROVE  \A k \in lo .. hi - 1 : Shares(k, arr[lo].addr, p)
<1> DEFINE R == lo .. hi - 1
           S == {d \in Nat : bit + d <= p => \A k \in R : Shares(k, arr[lo].addr, bit + d)}
<1>1. /\ R \subseteq 0 .. count - 1 /\ lo \in R /\ bit \in Nat
      /\ \A k \in R : Shares(k, arr[lo].addr, bit)
      /\ \A k \in R : arr[k].pfxlen \in 0 .. KeyBits /\ arr[k].addr \in Address
  <2>1. R \subseteq 0 .. count - 1 /\ lo \in R /\ bit \in Nat
    BY SortedShape, Shape DEF IsRange
  <2> QED BY <2>1, SortedShape DEF IsRange
<1>2. 0 \in S
  <2>1. bit + 0 = bit
    BY <1>1
  <2> QED BY <1>1, <2>1
<1>3. ASSUME NEW d \in Nat, d \in S
      PROVE  d + 1 \in S
  <2> SUFFICES ASSUME bit + (d + 1) <= p, NEW k \in R
               PROVE  Shares(k, arr[lo].addr, bit + (d + 1))
    OBVIOUS
  <2> DEFINE n == bit + d
  <2>1. n \in bit .. p - 1 /\ n \in 0 .. KeyBits - 1 /\ n + 1 = bit + (d + 1) /\ n <= p
    BY <1>1, Shape
  <2> HIDE DEF n
  <2>2. \A l \in R : Shares(l, arr[lo].addr, n)
    BY <1>3, <2>1 DEF n
  <2>3. n \in bit .. KeyBits - 1
    BY <1>1, <2>1
  <2>4. EndingAt(arr, lo, hi, n) = {} /\ ~Diverges(arr, lo, hi, n)
    BY <2>1, <2>3 DEF Stops
  <2>5. \A l \in R : arr[l].pfxlen > n
    BY <1>1, <2>1, <2>2, <2>4 DEF EndingAt, Shares
  <2>6. AddrBit(arr[k].addr, n) = AddrBit(arr[lo].addr, n)
    BY <1>1, <2>4, <2>5 DEF Diverges, Extending
  <2>7. LeadingBits(arr[k].addr, n + 1) = LeadingBits(arr[lo].addr, n + 1)
    BY <1>1, <2>1, <2>2, <2>6, OneMoreBit DEF Shares
  <2>8. arr[k].pfxlen >= n + 1
    BY <1>1, <2>1, <2>5
  <2> QED BY <2>1, <2>7, <2>8 DEF Shares
<1>4. Nat \subseteq S
  <2> HIDE DEF S
  <2> QED BY <1>2, <1>3, SetInduction
<1>5. p - bit \in S /\ bit + (p - bit) = p
  BY <1>1, <1>4
<1> QED BY <1>1, <1>5

\* Prefixes of one length that share its bits are one prefix.
LEMMA SameLength ==
  ASSUME ArrayInv, Built, NEW k \in 0 .. count - 1, NEW l \in 0 .. count - 1, NEW a \in Address,
         Shares(k, a, arr[l].pfxlen), Shares(l, a, arr[l].pfxlen), arr[k].pfxlen = arr[l].pfxlen
  PROVE  SameKey(arr[k], arr[l])
<1>1. IsPrefix(arr[k]) /\ IsPrefix(arr[l])
  BY SortedShape
<1>2. BlockOf(Value(arr[k].addr), arr[k].pfxlen) = BlockOf(Value(arr[l].addr), arr[l].pfxlen)
  BY DEF Shares, LeadingBits, BlockOf, Size
<1> QED BY <1>1, <1>2, BlockIsPrefix DEF SameKey

LEMMA LeastIs ==
  ASSUME NEW T, T \subseteq Nat, T # {}
  PROVE  Min(T) \in T /\ \A x \in T : Min(T) <= x
BY LeastElement DEF Min

\* The node of a range: all of the range goes through it, and what ends at its
\* bit is the prefix it stores.
LEMMA NodeIs ==
  ASSUME ArrayInv, Built, NEW lo, NEW hi, NEW bit, IsRange(lo, hi, bit)
  PROVE  LET node == NodeFor(arr, lo, hi, bit)
         IN  /\ node = Node(node.bit, node.prefix, lo)
             /\ node.bit \in bit .. KeyBits
             /\ \A k \in lo .. hi - 1 : Shares(k, arr[lo].addr, node.bit)
             /\ node.prefix # None => /\ node.prefix \in lo .. hi - 1
                                      /\ arr[node.prefix].pfxlen = node.bit
             /\ \A k \in lo .. hi - 1 :
                  arr[k].pfxlen = node.bit => /\ node.prefix # None
                                              /\ SameKey(arr[node.prefix], arr[k])
             /\ \/ node.prefix # None
                \/ node.bit < KeyBits /\ Diverges(arr, lo, hi, node.bit)
<1> DEFINE R == lo .. hi - 1
           stops == Stops(arr, lo, hi, bit)
           node == NodeFor(arr, lo, hi, bit)
<1>1. /\ R \subseteq 0 .. count - 1 /\ lo \in R /\ bit \in 0 .. KeyBits /\ KeyBits \in Nat
      /\ \A k \in R : arr[k].pfxlen \in 0 .. KeyBits /\ arr[k].addr \in Address
      /\ R \subseteq Nat
  BY SortedShape, Shape DEF IsRange
<1>2. stops \subseteq bit .. KeyBits - 1 /\ stops \subseteq Nat
  BY <1>1 DEF Stops
<1>3. CASE stops = {}
  <2>1. node = Node(KeyBits, lo, lo)
    BY <1>3 DEF NodeFor
  <2>2. node.bit = KeyBits /\ node.prefix = lo
    BY <2>1 DEF Node
  <2>3. KeyBits \in bit .. KeyBits
    BY <1>1
  <2>4. \A k \in R : Shares(k, arr[lo].addr, KeyBits)
    BY <1>3, <2>3, PathAgrees
  <2>5. \A k \in R : arr[k].pfxlen = KeyBits
    BY <1>1, <2>4 DEF Shares
  <2>6. \A k \in R : SameKey(arr[lo], arr[k])
    BY <1>1, <2>4, <2>5, SameLength
  <2>7. lo # None
    BY <1>1 DEF None
  <2> QED BY <1>1, <2>1, <2>2, <2>3, <2>4, <2>5, <2>6, <2>7
<1>4. CASE stops # {}
  <2> DEFINE split == Min(stops)
             here == EndingAt(arr, lo, hi, split)
  <2>1. split \in stops /\ \A x \in stops : split <= x
    BY <1>2, <1>4, LeastIs
  <2>2. /\ split \in bit .. KeyBits - 1 /\ split \in bit .. KeyBits
        /\ \A n \in bit .. split - 1 : n \notin stops
    BY <1>1, <1>2, <2>1
  <2> HIDE DEF split
  <2>3. \A k \in R : Shares(k, arr[lo].addr, split)
    BY <2>2, PathAgrees
  <2>4. /\ here \subseteq R
        /\ \A k \in R : k \in here <=> arr[k].pfxlen = split
        /\ here = {} => Diverges(arr, lo, hi, split)
    BY <2>1 DEF EndingAt, Stops
  <2>5. node = Node(split, IF here = {} THEN None ELSE Min(here), lo)
    BY <1>4 DEF NodeFor, split
  <2> HIDE DEF here, node
  <2>6. node.bit = split /\ node.prefix = IF here = {} THEN None ELSE Min(here)
    BY <2>5 DEF Node
  <2>7. here # {} => Min(here) \in here
    BY <1>1, <2>4, LeastIs
  <2>8. node.prefix # None <=> here # {}
    <3>1. here # {} => Min(here) \in Nat
      BY <1>1, <2>4, <2>7
    <3> QED BY <2>6, <3>1 DEF None
  <2>9. \A k \in here : SameKey(arr[node.prefix], arr[k])
    <3> TAKE k \in here
    <3>1. node.prefix \in here
      BY <2>6, <2>7
    <3> QED BY <1>1, <2>3, <2>4, <3>1, SameLength
  <2>10. node = Node(node.bit, node.prefix, lo)
    BY <2>5, <2>6
  <2>11. node.prefix # None => node.prefix \in here
    BY <2>6, <2>7, <2>8
  <2>12. /\ node.bit \in bit .. KeyBits
         /\ node.prefix = None => node.bit < KeyBits /\ Diverges(arr, lo, hi, node.bit)
    BY <1>1, <2>2, <2>4, <2>6, <2>8
  <2>13. /\ \A k \in R : Shares(k, arr[lo].addr, node.bit)
         /\ node.prefix # None => node.prefix \in R /\ arr[node.prefix].pfxlen = node.bit
         /\ \A k \in R : arr[k].pfxlen = node.bit => /\ node.prefix # None
                                                    /\ SameKey(arr[node.prefix], arr[k])
    BY <2>3, <2>4, <2>6, <2>8, <2>9, <2>11
  <2> QED BY <2>10, <2>12, <2>13 DEF node
<1> QED BY <1>3, <1>4

\* The entries of a range that end at its common bits come first, then the ones
\* whose next bit is zero.
LEMMA SplitIs ==
  ASSUME ArrayInv, Built, NEW lo, NEW hi, NEW bit, IsRange(lo, hi, bit),
         NEW b \in bit .. KeyBits, \A k \in lo .. hi - 1 : Shares(k, arr[lo].addr, b)
  PROVE  LET ext   == ExtStart(arr, lo, hi, b)
             pivot == Pivot(arr, lo, hi, b)
         IN  /\ ext \in lo .. hi /\ pivot \in ext .. hi
             /\ \A k \in lo .. hi - 1 : k < ext <=> arr[k].pfxlen = b
             /\ \A k \in ext .. hi - 1 : /\ b < KeyBits
                                         /\ AddrBit(arr[k].addr, b) \in 0 .. 1
                                         /\ k < pivot <=> AddrBit(arr[k].addr, b) = 0
<1> DEFINE R == lo .. hi - 1
           E == Extending(arr, lo, hi, b)
           ext == ExtStart(arr, lo, hi, b)
           pivot == Pivot(arr, lo, hi, b)
           P == {k \in ext .. hi - 1 : AddrBit(arr[k].addr, b) = 1}
<1>1. /\ lo \in Nat /\ hi \in Nat /\ lo < hi /\ KeyBits \in Nat /\ b \in 0 .. KeyBits
      /\ R \subseteq 0 .. count - 1
      /\ b \in Pfxlen
  <2>1. /\ lo \in Nat /\ hi \in Nat /\ lo < hi /\ hi <= count /\ bit \in 0 .. KeyBits
        /\ count \in Nat
    BY SortedShape DEF IsRange
  <2> QED BY <2>1, Shape DEF Pfxlen, MaxPfxlen
<1>2. \A k \in R : /\ arr[k].addr \in Address /\ IsPrefix(arr[k])
                   /\ Value(arr[k].addr) \in Nat
                   /\ arr[k].pfxlen \in b .. KeyBits
                   /\ LeadingBits(arr[k].addr, b) = LeadingBits(arr[lo].addr, b)
  BY <1>1, SortedShape DEF Shares
<1>3. \A k, l \in R : k < l => /\ Value(arr[k].addr) <= Value(arr[l].addr)
                               /\ arr[k].addr = arr[l].addr => arr[k].pfxlen <= arr[l].pfxlen
  BY <1>1, SortedShape
<1>4. /\ E \subseteq R /\ \A k \in R : k \in E <=> arr[k].pfxlen > b
      /\ ext \in E \cup {hi} /\ \A x \in E \cup {hi} : ext <= x
  <2>1. E \subseteq R /\ \A k \in R : k \in E <=> arr[k].pfxlen > b
    BY DEF Extending
  <2>2. E \cup {hi} \subseteq Nat
    BY <1>1, <2>1
  <2>3. ext = Min(E \cup {hi})
    BY DEF ExtStart
  <2> HIDE DEF E, ext
  <2> QED BY <2>1, <2>2, <2>3, LeastIs
<1> HIDE DEF E, ext
<1>5. ext \in lo .. hi
  BY <1>1, <1>4
<1>6. ASSUME NEW k \in R PROVE k < ext <=> arr[k].pfxlen = b
  <2>1. CASE k < ext
    <3>1. k \notin E
      BY <1>1, <1>4, <1>5, <2>1
    <3> QED BY <1>1, <1>2, <1>4, <2>1, <3>1
  <2>2. CASE ~(k < ext)
    <3> SUFFICES ASSUME arr[k].pfxlen = b PROVE FALSE
      BY <2>2
    <3>1. ext \in E /\ ext \in R /\ ext < k /\ arr[ext].pfxlen > b
      BY <1>1, <1>2, <1>4, <1>5, <2>2
    <3>2. /\ Value(arr[ext].addr) <= Value(arr[k].addr)
          /\ arr[ext].addr = arr[k].addr => arr[ext].pfxlen <= arr[k].pfxlen
      BY <1>3, <3>1
    <3>3. Value(arr[k].addr) = Size(b) * BlockOf(Value(arr[k].addr), b)
      BY <1>2, SpanOfPrefix
    <3>4. Size(b) * BlockOf(Value(arr[ext].addr), b) <= Value(arr[ext].addr)
      BY <1>1, <1>2, <3>1, Sizes
    <3>5. BlockOf(Value(arr[k].addr), b) = BlockOf(Value(arr[ext].addr), b)
      BY <1>2, <3>1 DEF LeadingBits, BlockOf, Size
    <3>6. Value(arr[k].addr) = Value(arr[ext].addr)
      BY <1>2, <3>1, <3>2, <3>3, <3>4, <3>5
    <3>7. arr[k].addr = arr[ext].addr
      BY <1>2, <3>1, <3>6, ValueIsInjective
    <3>8. arr[ext].pfxlen <= b
      BY <3>2, <3>7
    <3> QED BY <1>1, <1>2, <3>1, <3>8
  <2> QED BY <2>1, <2>2
<1>7. ASSUME NEW k \in ext .. hi - 1
      PROVE  /\ k \in R /\ arr[k].pfxlen > b /\ b \in 0 .. KeyBits - 1
             /\ AddrBit(arr[k].addr, b) \in 0 .. 1
  <2>1. k \in R /\ ~(k < ext)
    BY <1>1, <1>5
  <2>2. arr[k].pfxlen > b /\ b \in 0 .. KeyBits - 1
    BY <1>1, <1>2, <1>6, <2>1
  <2> QED BY <1>2, <2>1, <2>2, NextBit
<1>8. /\ P \subseteq ext .. hi - 1
      /\ pivot \in P \cup {hi} /\ \A x \in P \cup {hi} : pivot <= x
  <2>1. P \cup {hi} \subseteq Nat
    BY <1>1, <1>5
  <2>2. pivot = Min(P \cup {hi})
    BY DEF Pivot, ext
  <2> QED BY <2>1, <2>2, LeastIs
<1> HIDE DEF pivot
<1>9. pivot \in ext .. hi
  BY <1>1, <1>5, <1>8
<1>10. ASSUME NEW k \in ext .. hi - 1
       PROVE  k < pivot <=> AddrBit(arr[k].addr, b) = 0
  <2>1. CASE k < pivot
    <3>1. k \notin P
      BY <1>1, <1>5, <1>8, <1>9, <2>1
    <3> QED BY <1>7, <2>1, <3>1
  <2>2. CASE k = pivot
    <3>1. pivot \in P
      BY <1>1, <1>5, <1>8, <2>2
    <3> QED BY <1>1, <1>5, <2>2, <3>1
  <2>3. CASE k > pivot
    <3>1. pivot \in ext .. hi - 1 /\ pivot \in P
      BY <1>1, <1>5, <1>8, <1>9, <2>3
    <3>2. k \in R /\ pivot \in R /\ b \in 0 .. KeyBits - 1
      BY <1>7, <3>1
    <3>3. Value(arr[pivot].addr) <= Value(arr[k].addr)
      BY <1>3, <2>3, <3>2
    <3>4. LeadingBits(arr[pivot].addr, b + 1) <= LeadingBits(arr[k].addr, b + 1)
      <4>1. KeyBits - (b + 1) \in 0 .. KeyBits
        BY <1>1, <3>2
      <4> QED BY <1>2, <3>2, <3>3, <4>1, PowerIsPositive, DivisionAscends DEF LeadingBits
    <3>5. \A l \in {k, pivot} :
            /\ AddrBit(arr[l].addr, b) \in 0 .. 1
            /\ LeadingBits(arr[l].addr, b) \in Nat
            /\ LeadingBits(arr[l].addr, b + 1)
                 = 2 * LeadingBits(arr[l].addr, b) + AddrBit(arr[l].addr, b)
      BY <1>2, <3>2, NextBit
    <3>6. LeadingBits(arr[k].addr, b) = LeadingBits(arr[pivot].addr, b)
      BY <1>2, <3>2
    <3>7. AddrBit(arr[pivot].addr, b) = 1
      BY <3>1
    <3>8. AddrBit(arr[k].addr, b) = 1
      BY <3>4, <3>5, <3>6, <3>7
    <3> QED BY <1>1, <1>5, <1>9, <2>3, <3>8
  <2> QED BY <1>1, <1>5, <1>9, <2>1, <2>2, <2>3
<1>11. \A k \in ext .. hi - 1 : /\ b < KeyBits
                                /\ AddrBit(arr[k].addr, b) \in 0 .. 1
                                /\ k < pivot <=> AddrBit(arr[k].addr, b) = 0
  BY <1>1, <1>7, <1>10
<1> QED BY <1>5, <1>6, <1>9, <1>11 DEF ext, pivot

\* One side of a divided range is a range again.
LEMMA SideIsRange ==
  ASSUME ArrayInv, Built, NEW lo, NEW hi, NEW bit, IsRange(lo, hi, bit),
         NEW b \in bit .. KeyBits, \A k \in lo .. hi - 1 : Shares(k, arr[lo].addr, b),
         NEW x \in lo .. hi, NEW y \in lo .. hi, x < y, NEW side \in 0 .. 1,
         \A k \in lo .. hi - 1 : k \in x .. y - 1 <=>
           arr[k].pfxlen > b /\ AddrBit(arr[k].addr, b) = side
  PROVE  b < KeyBits /\ IsRange(x, y, b + 1)
<1> DEFINE R == lo .. hi - 1
<1>1. /\ lo \in Nat /\ hi \in Nat /\ hi <= count /\ x \in R /\ x \in x .. y - 1
      /\ count \in Nat /\ KeyBits \in Nat /\ bit \in 0 .. KeyBits /\ b \in 0 .. KeyBits
      /\ x .. y - 1 \subseteq R /\ R \subseteq 0 .. count - 1 /\ DOMAIN arr = 0 .. count - 1
      /\ bit <= b /\ x \in Nat /\ y \in Nat /\ y <= count /\ lo \in R
  <2>1. /\ lo \in Nat /\ hi \in Nat /\ lo < hi /\ hi <= count /\ bit \in 0 .. KeyBits
        /\ count \in Nat /\ DOMAIN arr = 0 .. count - 1
    BY SortedShape DEF IsRange
  <2>2. KeyBits \in Nat
    BY Shape
  <2>3. b \in bit .. KeyBits /\ x \in lo .. hi /\ y \in lo .. hi /\ x < y
    OBVIOUS
  <2>4. bit <= b /\ b \in 0 .. KeyBits
    BY ONLY <2>1, <2>2, <2>3
  <2>5. x \in Nat /\ y \in Nat /\ lo <= x /\ y <= hi /\ y <= count
    BY ONLY <2>1, <2>3
  <2>6. x \in R /\ lo \in R /\ x \in x .. y - 1
    BY ONLY <2>1, <2>3, <2>5
  <2>7. x .. y - 1 \subseteq R /\ R \subseteq 0 .. count - 1
    BY ONLY <2>1, <2>5
  <2> QED BY ONLY <2>1, <2>2, <2>4, <2>5, <2>6, <2>7
<1>2. \A k \in 0 .. count - 1 : arr[k].addr \in Address /\ arr[k].pfxlen \in 0 .. KeyBits
  BY SortedShape
<1>3. arr[x].pfxlen > b /\ AddrBit(arr[x].addr, b) = side
  BY <1>1
<1>4. b < KeyBits /\ b \in 0 .. KeyBits - 1 /\ b + 1 \in 0 .. KeyBits
  BY <1>1, <1>2, <1>3
<1>5. ASSUME NEW k \in x .. y - 1
      PROVE  Shares(k, arr[x].addr, b + 1)
  <2>1. /\ LeadingBits(arr[k].addr, b) = LeadingBits(arr[x].addr, b)
        /\ AddrBit(arr[k].addr, b) = AddrBit(arr[x].addr, b)
        /\ arr[k].pfxlen > b
    BY <1>1, <1>3 DEF Shares
  <2>2. arr[k].pfxlen >= b + 1
    BY <1>1, <1>2, <2>1
  <2> QED BY <1>1, <1>2, <1>4, <2>1, <2>2, OneMoreBit DEF Shares
<1>6. ASSUME NEW k \in DOMAIN arr, Shares(k, arr[x].addr, b + 1)
      PROVE  k \in x .. y - 1
  <2>1. /\ LeadingBits(arr[k].addr, b) = LeadingBits(arr[x].addr, b)
        /\ AddrBit(arr[k].addr, b) = AddrBit(arr[x].addr, b)
    BY <1>1, <1>2, <1>4, <1>6, OneMoreBit DEF Shares
  <2>2. LeadingBits(arr[x].addr, b) = LeadingBits(arr[lo].addr, b)
    BY <1>1 DEF Shares
  <2>3. LeadingBits(arr[k].addr, bit) = LeadingBits(arr[lo].addr, bit)
    <3>1. bit \in 0 .. b
      BY <1>1
    <3> QED BY <1>1, <1>2, <2>1, <2>2, <3>1, FewerBits
  <2>4. arr[k].pfxlen > b /\ arr[k].pfxlen >= bit
    BY <1>1, <1>2, <1>6 DEF Shares
  <2>5. k \in R
    BY <2>3, <2>4 DEF IsRange, Shares
  <2> QED BY <1>3, <2>1, <2>4, <2>5
<1> QED BY <1>1, <1>4, <1>5, <1>6 DEF IsRange

----------------------------------------------------------------------------
(* The Patricia trie T over the array: every node leads the prefixes that  *)
(* share its bits on to the child of their next bit, and stores the one    *)
(* that ends there.                                                        *)

LeadsTo(T, n, k) == Shares(k, arr[T[n].repr].addr, T[n].bit)
StoredAt(T, n, k) == T[n].prefix # None /\ SameKey(arr[T[n].prefix], arr[k])

NodeType(T) ==
  [left : DOMAIN T \cup {None}, right : DOMAIN T \cup {None},
   prefix : DOMAIN arr \cup {None}, repr : DOMAIN arr,
   bit : 0 .. KeyBits, cost : Nat, branch : 0 .. KeyBits]

\* c lies below n on one side, and was made after it.
IsBelow(T, n, side, c) ==
  /\ n < c
  /\ T[n].bit < T[c].bit
  /\ LeadsTo(T, n, T[c].repr)
  /\ AddrBit(arr[T[c].repr].addr, T[n].bit) = side

TrieOK(T) ==
  /\ T \in [DOMAIN T -> NodeType(T)]
  /\ \A n \in DOMAIN T :
       /\ T[n].bit + T[n].branch <= KeyBits
       /\ arr[T[n].repr].pfxlen >= T[n].bit
       /\ T[n].prefix # None => arr[T[n].prefix].pfxlen = T[n].bit
       /\ \A k \in DOMAIN arr : LeadsTo(T, n, k) /\ arr[k].pfxlen = T[n].bit => StoredAt(T, n, k)
       /\ \A side \in 0 .. 1 :
            Child(T[n], side) # None => IsBelow(T, n, side, Child(T[n], side))
  /\ \A n, m \in DOMAIN T : \A k \in DOMAIN arr :
       StoredAt(T, n, k) /\ StoredAt(T, m, k) => n = m

TrieInv ==
  /\ nodeLimit \in NodeLimits /\ ArenaFits
  /\ phase \in {"call", "alloc", "sort"} => arena = Empty
  /\ phase \in {"build", "pack"} =>
       /\ PatCount \in Nat /\ DOMAIN arena = 0 .. PatCount - 1
       /\ TrieOK(arena)
       /\ 0 \in DOMAIN arena => \A k \in DOMAIN arr : LeadsTo(arena, 0, k)

\* A call that is still to be made, for what goes to one side of its parent.
CallType == [lo : Nat, hi : Nat, bit : 0 .. KeyBits, parent : Nat \cup {None}, side : 0 .. 1]

GoesTo(T, n, side, k) == /\ LeadsTo(T, n, k)
                         /\ arr[k].pfxlen > T[n].bit
                         /\ AddrBit(arr[k].addr, T[n].bit) = side

PendingOK(c) ==
  /\ IsRange(c.lo, c.hi, c.bit)
  /\ c.parent = None => RangeOf(c) = DOMAIN arr
  /\ c.parent # None =>
       /\ c.parent \in DOMAIN arena
       /\ arena[c.parent].bit < c.bit
       /\ \A k \in DOMAIN arr : k \in RangeOf(c) <=> GoesTo(arena, c.parent, c.side, k)

\* The calls lie one after the other, and have what no node stores yet.
BuildInv ==
  phase = "build" =>
    /\ calls \in Seq(CallType)
    /\ \A d \in 1 .. Len(calls) : /\ PendingOK(calls[d])
                                  /\ calls[d].hi + (Len(calls) - d) <= count
    /\ \A d, e \in 1 .. Len(calls) : d < e => calls[d].hi <= calls[e].lo
    /\ \A k \in DOMAIN arr : \/ \E d \in 1 .. Len(calls) : k \in RangeOf(calls[d])
                             \/ \E n \in DOMAIN arena : StoredAt(arena, n, k)
    /\ \A d \in 1 .. Len(calls) : \A k \in RangeOf(calls[d]), n \in DOMAIN arena :
         ~StoredAt(arena, n, k)
    /\ IF calls = <<>> THEN PatCount + 1 <= 2 * count ELSE PatCount + 1 <= 2 * Top.lo + Len(calls)

\* A side of a node has the child its prefixes go to, or a call that makes it.
RouteInv ==
  phase \in {"build", "pack"} =>
    \A n \in DOMAIN arena, side \in 0 .. 1, k \in DOMAIN arr :
      GoesTo(arena, n, side, k) =>
        \/ Child(arena[n], side) # None /\ LeadsTo(arena, Child(arena[n], side), k)
        \/ phase = "build" /\ \E d \in 1 .. Len(calls) : calls[d].parent = n /\ calls[d].side = side

\* What a step of either recursion does to the stack: the top call gives way to
\* the calls it makes.
LEMMA StackIs ==
  ASSUME NEW Q, calls \in Seq(Q), calls # <<>>, NEW kids \in Seq(Q), NEW stack,
         stack = kids \o Tail(calls)
  PROVE  /\ stack \in Seq(Q)
         /\ Len(calls) \in Nat /\ Len(calls) >= 1 /\ Len(kids) \in Nat
         /\ Top = calls[1] /\ Top \in Q
         /\ Len(stack) = Len(kids) + (Len(calls) - 1)
         /\ \A d \in 1 .. Len(kids) : stack[d] = kids[d]
         /\ \A d \in Len(kids) + 1 .. Len(stack) : stack[d] = calls[d - Len(kids) + 1]
<1>1. /\ Tail(calls) \in Seq(Q) /\ Len(Tail(calls)) = Len(calls) - 1
      /\ Len(calls) \in Nat /\ Len(calls) >= 1 /\ Len(kids) \in Nat
      /\ Head(calls) = calls[1] /\ calls[1] \in Q
      /\ \A d \in 1 .. Len(calls) - 1 : Tail(calls)[d] = calls[d + 1]
  OBVIOUS
<1>2. /\ stack \in Seq(Q) /\ Len(stack) = Len(kids) + Len(Tail(calls))
      /\ \A d \in 1 .. Len(kids) : stack[d] = kids[d]
      /\ \A d \in Len(kids) + 1 .. Len(stack) : stack[d] = Tail(calls)[d - Len(kids)]
  BY <1>1
<1>3. ASSUME NEW d \in Len(kids) + 1 .. Len(stack)
      PROVE  /\ d - Len(kids) + 1 \in 2 .. Len(calls)
             /\ stack[d] = calls[d - Len(kids) + 1]
  <2>1. d - Len(kids) \in 1 .. Len(calls) - 1
    BY <1>1, <1>2
  <2> QED BY <1>1, <1>2, <2>1
<1> QED BY <1>1, <1>2, <1>3 DEF Top

----------------------------------------------------------------------------
(* One call of patricia_subtree_build.                                     *)

NewNode == NodeFor(arr, Top.lo, Top.hi, Top.bit)
NewExt == ExtStart(arr, Top.lo, Top.hi, NewNode.bit)
NewPivot == Pivot(arr, Top.lo, Top.hi, NewNode.bit)
LeftCall == BuildCall(NewExt, NewPivot, NewNode.bit + 1, PatCount, 0)
RightCall == BuildCall(NewPivot, Top.hi, NewNode.bit + 1, PatCount, 1)

LEMMA TopIs ==
  ASSUME BuildInv, phase = "build", calls # <<>>
  PROVE  /\ Len(calls) \in Nat /\ Len(calls) >= 1 /\ 1 \in 1 .. Len(calls)
         /\ Top = calls[1] /\ Top \in CallType /\ PendingOK(Top)
         /\ IsRange(Top.lo, Top.hi, Top.bit)
         /\ Top.lo \in Nat /\ Top.hi \in Nat /\ Top.bit \in 0 .. KeyBits /\ Top.side \in 0 .. 1
<1>1. calls \in Seq(CallType)
  BY DEF BuildInv
<1>2. /\ Len(calls) \in Nat /\ Len(calls) >= 1 /\ 1 \in 1 .. Len(calls)
      /\ Top = calls[1] /\ Top \in CallType
  BY <1>1 DEF Top
<1>3. PendingOK(Top)
  BY <1>2 DEF BuildInv
<1>4. Top.lo \in Nat /\ Top.hi \in Nat /\ Top.bit \in 0 .. KeyBits /\ Top.side \in 0 .. 1
  BY <1>2 DEF CallType
<1> QED BY <1>2, <1>3, <1>4 DEF PendingOK

\* What it finds in its range.
LEMMA RangeDivided ==
  ASSUME ArrayInv, Built, BuildInv, phase = "build", calls # <<>>
  PROVE  /\ NewNode = Node(NewNode.bit, NewNode.prefix, Top.lo)
         /\ NewNode.bit \in Top.bit .. KeyBits
         /\ RangeOf(Top) \subseteq DOMAIN arr /\ Top.lo \in RangeOf(Top)
         /\ \A k \in RangeOf(Top) : Shares(k, arr[Top.lo].addr, NewNode.bit)
         /\ NewNode.prefix # None => /\ NewNode.prefix \in RangeOf(Top)
                                     /\ arr[NewNode.prefix].pfxlen = NewNode.bit
         /\ \A k \in RangeOf(Top) :
              arr[k].pfxlen = NewNode.bit => /\ NewNode.prefix # None
                                             /\ SameKey(arr[NewNode.prefix], arr[k])
         /\ NewExt \in Top.lo .. Top.hi /\ NewPivot \in NewExt .. Top.hi
         /\ \A k \in RangeOf(Top) : k < NewExt <=> arr[k].pfxlen = NewNode.bit
         /\ \A k \in NewExt .. Top.hi - 1 :
              /\ NewNode.bit < KeyBits /\ AddrBit(arr[k].addr, NewNode.bit) \in 0 .. 1
              /\ k < NewPivot <=> AddrBit(arr[k].addr, NewNode.bit) = 0
         /\ Top.lo < NewExt \/ (NewExt < NewPivot /\ NewPivot < Top.hi)
<1> DEFINE R == RangeOf(Top)
<1>1. /\ IsRange(Top.lo, Top.hi, Top.bit)
      /\ Top.lo \in Nat /\ Top.hi \in Nat /\ Top.bit \in 0 .. KeyBits
  BY TopIs
<1>2. R \subseteq DOMAIN arr /\ Top.lo \in R /\ R = Top.lo .. Top.hi - 1
      /\ DOMAIN arr = 0 .. count - 1
  BY <1>1, SortedShape DEF RangeOf, IsRange
<1>3. /\ NewNode = Node(NewNode.bit, NewNode.prefix, Top.lo)
      /\ NewNode.bit \in Top.bit .. KeyBits
      /\ \A k \in R : Shares(k, arr[Top.lo].addr, NewNode.bit)
      /\ NewNode.prefix # None => NewNode.prefix \in R /\ arr[NewNode.prefix].pfxlen = NewNode.bit
      /\ \A k \in R : arr[k].pfxlen = NewNode.bit => /\ NewNode.prefix # None
                                                     /\ SameKey(arr[NewNode.prefix], arr[k])
      /\ \/ NewNode.prefix # None
         \/ NewNode.bit < KeyBits /\ Diverges(arr, Top.lo, Top.hi, NewNode.bit)
  BY <1>1, <1>2, NodeIs DEF NewNode
<1>4. /\ NewExt \in Top.lo .. Top.hi /\ NewPivot \in NewExt .. Top.hi
      /\ \A k \in R : k < NewExt <=> arr[k].pfxlen = NewNode.bit
      /\ \A k \in NewExt .. Top.hi - 1 :
           /\ NewNode.bit < KeyBits /\ AddrBit(arr[k].addr, NewNode.bit) \in 0 .. 1
           /\ k < NewPivot <=> AddrBit(arr[k].addr, NewNode.bit) = 0
  BY <1>1, <1>2, <1>3, SplitIs, SMTT(30) DEF NewExt, NewPivot
<1>5. Top.lo < NewExt \/ (NewExt < NewPivot /\ NewPivot < Top.hi)
  <2>1. CASE NewNode.prefix # None
    BY <1>1, <1>3, <1>4, <2>1 DEF RangeOf
  <2>2. CASE Diverges(arr, Top.lo, Top.hi, NewNode.bit)
    <3>1. PICK l, k \in Extending(arr, Top.lo, Top.hi, NewNode.bit) :
            AddrBit(arr[l].addr, NewNode.bit) # AddrBit(arr[k].addr, NewNode.bit)
      BY <2>2 DEF Diverges
    <3>2. /\ l \in R /\ arr[l].pfxlen > NewNode.bit
          /\ k \in R /\ arr[k].pfxlen > NewNode.bit
          /\ NewNode.bit \in Int
      BY <1>1, <1>2, <1>3 DEF Extending
    <3>3. \A x \in R : arr[x].pfxlen \in Int
      BY <1>2, SortedShape
    <3>4. l \in NewExt .. Top.hi - 1 /\ k \in NewExt .. Top.hi - 1
      BY <1>1, <1>4, <3>2, <3>3 DEF RangeOf
    <3> QED BY <1>1, <1>4, <3>1, <3>4
  <2> QED BY <1>3, <2>1, <2>2
<1> QED BY <1>2, <1>3, <1>4, <1>5

\* The calls it makes are calls as they should be, for parts of its range.
LEMMA SidesAreRanges ==
  ASSUME ArrayInv, Built, BuildInv, phase = "build", calls # <<>>, PatCount \in Nat
  PROVE  /\ LeftCall.lo < LeftCall.hi =>
              /\ LeftCall \in CallType
              /\ IsRange(LeftCall.lo, LeftCall.hi, LeftCall.bit)
              /\ RangeOf(LeftCall) \subseteq RangeOf(Top)
              /\ \A k \in RangeOf(LeftCall) : /\ arr[k].pfxlen > NewNode.bit
                                              /\ AddrBit(arr[k].addr, NewNode.bit) = 0
         /\ RightCall.lo < RightCall.hi =>
              /\ RightCall \in CallType
              /\ IsRange(RightCall.lo, RightCall.hi, RightCall.bit)
              /\ RangeOf(RightCall) \subseteq RangeOf(Top)
              /\ \A k \in RangeOf(RightCall) : /\ arr[k].pfxlen > NewNode.bit
                                               /\ AddrBit(arr[k].addr, NewNode.bit) = 1
<1> DEFINE b == NewNode.bit
<1>1. /\ IsRange(Top.lo, Top.hi, Top.bit)
      /\ Top.lo \in Nat /\ Top.hi \in Nat /\ Top.bit \in 0 .. KeyBits
  BY TopIs
<1>2. /\ LeftCall.lo = NewExt /\ LeftCall.hi = NewPivot /\ LeftCall.bit = b + 1
      /\ LeftCall = [lo |-> NewExt, hi |-> NewPivot, bit |-> b + 1, parent |-> PatCount, side |-> 0]
      /\ RightCall.lo = NewPivot /\ RightCall.hi = Top.hi /\ RightCall.bit = b + 1
      /\ RightCall = [lo |-> NewPivot, hi |-> Top.hi, bit |-> b + 1, parent |-> PatCount, side |-> 1]
  BY DEF LeftCall, RightCall, BuildCall
<1>3. /\ b \in Top.bit .. KeyBits
      /\ RangeOf(Top) = Top.lo .. Top.hi - 1 /\ RangeOf(Top) \subseteq DOMAIN arr
      /\ \A k \in Top.lo .. Top.hi - 1 : Shares(k, arr[Top.lo].addr, b)
      /\ NewExt \in Top.lo .. Top.hi /\ NewPivot \in NewExt .. Top.hi
      /\ \A k \in Top.lo .. Top.hi - 1 : k < NewExt <=> arr[k].pfxlen = b
      /\ \A k \in NewExt .. Top.hi - 1 :
           /\ AddrBit(arr[k].addr, b) \in 0 .. 1
           /\ k < NewPivot <=> AddrBit(arr[k].addr, b) = 0
  BY RangeDivided DEF RangeOf
<1>4. \A k \in Top.lo .. Top.hi - 1 : k \in Nat /\ arr[k].pfxlen \in Nat /\ arr[k].pfxlen >= b
  <2>1. \A k \in DOMAIN arr : arr[k].pfxlen \in Nat
    BY SortedShape
  <2> QED BY <1>1, <1>3, <2>1 DEF Shares
<1>5. b \in Nat /\ b <= KeyBits /\ KeyBits \in Nat /\ NewExt \in Nat /\ NewPivot \in Nat
  BY <1>1, <1>3, Shape
<1>6. \A k \in Top.lo .. Top.hi - 1 :
        /\ k \in NewExt .. NewPivot - 1 <=> arr[k].pfxlen > b /\ AddrBit(arr[k].addr, b) = 0
        /\ k \in NewPivot .. Top.hi - 1 <=> arr[k].pfxlen > b /\ AddrBit(arr[k].addr, b) = 1
  <2> TAKE k \in Top.lo .. Top.hi - 1
  <2>1. k \in NewExt .. Top.hi - 1 <=> arr[k].pfxlen > b
    BY <1>1, <1>3, <1>4, <1>5
  <2> QED BY <1>1, <1>3, <1>4, <1>5, <2>1
<1>7. ASSUME NewExt < NewPivot
      PROVE  b < KeyBits /\ IsRange(NewExt, NewPivot, b + 1)
  <2>1. NewExt \in Top.lo .. Top.hi /\ NewPivot \in Top.lo .. Top.hi /\ 0 \in 0 .. 1
    BY <1>1, <1>3
  <2> HIDE DEF b
  <2> QED BY <1>1, <1>3, <1>6, <1>7, <2>1, SideIsRange, SMTT(30)
<1>8. ASSUME NewPivot < Top.hi
      PROVE  b < KeyBits /\ IsRange(NewPivot, Top.hi, b + 1)
  <2>1. NewPivot \in Top.lo .. Top.hi /\ Top.hi \in Top.lo .. Top.hi /\ 1 \in 0 .. 1
    BY <1>1, <1>3, TopIs DEF IsRange
  <2> HIDE DEF b
  <2> QED BY <1>1, <1>3, <1>6, <1>8, <2>1, SideIsRange, SMTT(30)
<1>9. /\ NewExt .. NewPivot - 1 \subseteq Top.lo .. Top.hi - 1
      /\ NewPivot .. Top.hi - 1 \subseteq Top.lo .. Top.hi - 1
  BY <1>1, <1>3
<1>10. b < KeyBits => LeftCall \in CallType /\ RightCall \in CallType
  BY <1>1, <1>2, <1>5 DEF CallType
<1> HIDE DEF b
<1> QED BY <1>2, <1>3, <1>6, <1>7, <1>8, <1>9, <1>10 DEF RangeOf, b
LEMMA NewArena ==
  ASSUME TrieInv, BuildInv, BuildNode
  PROVE  /\ PatCount \in Nat /\ DOMAIN arena = 0 .. PatCount - 1
         /\ PatCount' = PatCount + 1 /\ DOMAIN arena' = 0 .. PatCount
         /\ arena'[PatCount] = NewNode
         /\ PatCount \notin DOMAIN arena /\ DOMAIN arena' = DOMAIN arena \cup {PatCount}
         /\ arena' \in [DOMAIN arena' -> NodeType(arena') \cup {NewNode}]
         /\ \A n \in DOMAIN arena :
              /\ arena'[n].prefix = arena[n].prefix /\ arena'[n].repr = arena[n].repr
              /\ arena'[n].bit = arena[n].bit /\ arena'[n].cost = arena[n].cost
              /\ arena'[n].branch = arena[n].branch
              /\ \A side \in 0 .. 1 :
                   Child(arena'[n], side) = IF n = Top.parent /\ side = Top.side THEN PatCount
                                            ELSE Child(arena[n], side)
<1>1. /\ PatCount \in Nat /\ DOMAIN arena = 0 .. PatCount - 1
      /\ arena \in [DOMAIN arena -> NodeType(arena)]
      /\ phase = "build" /\ calls # <<>> /\ arr' = arr
  BY DEF TrieInv, TrieOK, BuildNode, engineVars
<1>2. arena' = [k \in 0 .. PatCount |-> IF k = PatCount THEN NewNode
                                        ELSE Link(arena, Top.parent, Top.side, PatCount)[k]]
  BY DEF BuildNode, NewNode
<1>3. DOMAIN arena' = 0 .. PatCount /\ arena'[PatCount] = NewNode
  BY <1>1, <1>2
<1>4. PatCount' = PatCount + 1
  <2>1. Cardinality(0 .. PatCount) = PatCount - 0 + 1
    <3>1. 0 \in Int /\ PatCount \in Int /\ ~(0 > PatCount)
      BY <1>1
    <3> QED BY <3>1, FS_Interval
  <2> QED BY <1>1, <1>3, <2>1 DEF PatCount
<1>5. PatCount \notin DOMAIN arena /\ DOMAIN arena' = DOMAIN arena \cup {PatCount}
  BY <1>1, <1>3
<1>6. Top.side \in 0 .. 1
  BY <1>1, TopIs
<1>7. ASSUME NEW n \in DOMAIN arena
      PROVE  /\ arena'[n].prefix = arena[n].prefix /\ arena'[n].repr = arena[n].repr
             /\ arena'[n].bit = arena[n].bit /\ arena'[n].cost = arena[n].cost
             /\ arena'[n].branch = arena[n].branch
             /\ \A side \in 0 .. 1 :
                  Child(arena'[n], side) = IF n = Top.parent /\ side = Top.side THEN PatCount
                                           ELSE Child(arena[n], side)
             /\ arena'[n] \in NodeType(arena')
  <2>1. arena[n] \in NodeType(arena) /\ n \in 0 .. PatCount /\ n # PatCount /\ n # None
    BY <1>1, <1>5 DEF None
  <2>2. arena'[n] = Link(arena, Top.parent, Top.side, PatCount)[n]
    BY <1>2, <2>1
  <2>3. PatCount \in DOMAIN arena' /\ DOMAIN arena \subseteq DOMAIN arena'
    BY <1>5
  <2>4. CASE n # Top.parent
    <3>1. arena'[n] = arena[n]
      BY <1>1, <2>2, <2>4 DEF Link
    <3> QED BY <1>1, <2>1, <2>3, <2>4, <3>1 DEF NodeType
  <2>5. CASE n = Top.parent /\ Top.side = 0
    <3>1. arena'[n] = [arena[n] EXCEPT !.left = PatCount]
      BY <1>1, <2>1, <2>2, <2>5 DEF Link
    <3> QED BY <1>1, <2>1, <2>3, <2>5, <3>1 DEF NodeType, Child
  <2>6. CASE n = Top.parent /\ Top.side = 1
    <3>1. arena'[n] = [arena[n] EXCEPT !.right = PatCount]
      BY <1>1, <2>1, <2>2, <2>6 DEF Link
    <3> QED BY <1>1, <2>1, <2>3, <2>6, <3>1, SMTT(30) DEF NodeType, Child
  <2> QED BY <1>6, <2>4, <2>5, <2>6
<1>8. arena' \in [DOMAIN arena' -> NodeType(arena') \cup {NewNode}]
  <2>1. arena' = [n \in DOMAIN arena' |-> arena'[n]]
    BY <1>2, <1>3
  <2> QED BY <1>3, <1>5, <1>7, <2>1
<1> QED BY <1>1, <1>3, <1>4, <1>5, <1>7, <1>8

\* The calls it makes, in order.
NewCalls == UnlessEmpty(LeftCall) \o UnlessEmpty(RightCall)

LEMMA NewCallsAre ==
  ASSUME ArrayInv, Built, BuildInv, phase = "build", calls # <<>>, PatCount \in Nat
  PROVE  /\ NewCalls \in Seq(CallType) /\ Len(NewCalls) \in 0 .. 2
         /\ \A d \in 1 .. Len(NewCalls) :
              /\ \/ NewCalls[d] = LeftCall /\ LeftCall.lo < LeftCall.hi
                 \/ NewCalls[d] = RightCall /\ RightCall.lo < RightCall.hi
              /\ Top.lo <= NewCalls[d].lo
              /\ NewCalls[d].hi + (Len(NewCalls) - d) <= Top.hi
         /\ \A c \in {LeftCall, RightCall} :
              c.lo < c.hi => \E d \in 1 .. Len(NewCalls) : NewCalls[d] = c
         /\ \A d, e \in 1 .. Len(NewCalls) : d < e => NewCalls[d].hi <= NewCalls[e].lo
         /\ NewCalls # <<>> => Top.lo < NewCalls[1].lo \/ Len(NewCalls) = 2
         /\ NewCalls = <<>> <=> Len(NewCalls) = 0
<1>1. /\ LeftCall.lo = NewExt /\ LeftCall.hi = NewPivot
      /\ RightCall.lo = NewPivot /\ RightCall.hi = Top.hi
  BY DEF LeftCall, RightCall, BuildCall
<1>2. /\ Top.lo \in Nat /\ Top.hi \in Nat /\ Top.lo < Top.hi
      /\ NewExt \in Top.lo .. Top.hi /\ NewPivot \in NewExt .. Top.hi
      /\ Top.lo < NewExt \/ (NewExt < NewPivot /\ NewPivot < Top.hi)
  BY TopIs, RangeDivided DEF IsRange
<1>3. /\ NewExt < NewPivot => LeftCall \in CallType
      /\ NewPivot < Top.hi => RightCall \in CallType
  BY <1>1, SidesAreRanges
<1>4. NewCalls = (IF NewExt < NewPivot THEN <<LeftCall>> ELSE <<>>)
                   \o (IF NewPivot < Top.hi THEN <<RightCall>> ELSE <<>>)
  BY <1>1 DEF NewCalls, UnlessEmpty
<1>5. CASE NewExt < NewPivot /\ NewPivot < Top.hi
  <2>1. /\ NewCalls \in Seq(CallType) /\ Len(NewCalls) = 2
        /\ NewCalls[1] = LeftCall /\ NewCalls[2] = RightCall
    <3>1. NewCalls = <<LeftCall>> \o <<RightCall>>
      BY <1>4, <1>5
    <3>2. <<LeftCall>> \in Seq(CallType) /\ <<RightCall>> \in Seq(CallType)
      BY <1>3, <1>5
    <3>3. \A c, d : Len(<<c>>) = 1 /\ <<c>>[1] = c
      OBVIOUS
    <3> QED BY <3>1, <3>2, <3>3
  <2>2. /\ \A d \in 1 .. Len(NewCalls) : d = 1 \/ d = 2
        /\ 1 \in 1 .. Len(NewCalls) /\ 2 \in 1 .. Len(NewCalls)
        /\ NewCalls # <<>>
    BY <2>1
  <2>3. \A d \in 1 .. Len(NewCalls) :
          /\ \/ NewCalls[d] = LeftCall /\ LeftCall.lo < LeftCall.hi
             \/ NewCalls[d] = RightCall /\ RightCall.lo < RightCall.hi
          /\ Top.lo <= NewCalls[d].lo
          /\ NewCalls[d].hi + (Len(NewCalls) - d) <= Top.hi
    BY <1>1, <1>2, <1>5, <2>1, <2>2
  <2>4. \A c \in {LeftCall, RightCall} :
          c.lo < c.hi => \E d \in 1 .. Len(NewCalls) : NewCalls[d] = c
    BY <2>1, <2>2
  <2>5. \A d, e \in 1 .. Len(NewCalls) : d < e => NewCalls[d].hi <= NewCalls[e].lo
    BY <1>1, <1>2, <2>1, <2>2
  <2> QED BY <2>1, <2>2, <2>3, <2>4, <2>5
<1>6. CASE NewExt < NewPivot /\ ~(NewPivot < Top.hi)
  <2>1. NewCalls = <<LeftCall>>
    BY <1>4, <1>6
  <2> QED BY <1>1, <1>2, <1>3, <1>6, <2>1
<1>7. CASE ~(NewExt < NewPivot) /\ NewPivot < Top.hi
  <2>1. NewCalls = <<RightCall>>
    BY <1>4, <1>7
  <2> QED BY <1>1, <1>2, <1>3, <1>7, <2>1
<1>8. CASE ~(NewExt < NewPivot) /\ ~(NewPivot < Top.hi)
  <2>1. NewCalls = <<>>
    BY <1>4, <1>8
  <2> QED BY <1>1, <1>2, <1>3, <1>8, <2>1
<1> QED BY <1>5, <1>6, <1>7, <1>8

\* The calls after it: its own, and those that waited.
LEMMA NextCalls ==
  ASSUME ArrayInv, Built, TrieInv, BuildInv, BuildNode
  PROVE  /\ calls' \in Seq(CallType)
         /\ \A d \in 1 .. Len(calls') :
              /\ \/ calls'[d] = LeftCall /\ LeftCall.lo < LeftCall.hi
                 \/ calls'[d] = RightCall /\ RightCall.lo < RightCall.hi
                 \/ \E e \in 2 .. Len(calls) : calls'[d] = calls[e]
              /\ calls'[d].hi + (Len(calls') - d) <= count
         /\ \A d, e \in 1 .. Len(calls') : d < e => calls'[d].hi <= calls'[e].lo
         /\ \A c \in {LeftCall, RightCall} :
              c.lo < c.hi => \E d \in 1 .. Len(calls') : calls'[d] = c
         /\ \A e \in 2 .. Len(calls) : \E d \in 1 .. Len(calls') : calls'[d] = calls[e]
         /\ IF calls' = <<>> THEN PatCount + 2 <= 2 * count
            ELSE PatCount + 2 <= 2 * Top'.lo + Len(calls')
<1>1. /\ phase = "build" /\ calls # <<>> /\ PatCount \in Nat
      /\ calls \in Seq(CallType)
  BY DEF BuildNode, TrieInv, BuildInv
<1>2. PICK K : K = NewCalls
  OBVIOUS
<1>3. PICK Z : Z = calls'
  OBVIOUS
<1>4. Z = K \o Tail(calls)
  BY <1>2, <1>3 DEF BuildNode, NewCalls, LeftCall, RightCall, NewExt, NewPivot, NewNode
<1>5. /\ K \in Seq(CallType) /\ Len(K) \in 0 .. 2
      /\ \A d \in 1 .. Len(K) :
           /\ \/ K[d] = LeftCall /\ LeftCall.lo < LeftCall.hi
              \/ K[d] = RightCall /\ RightCall.lo < RightCall.hi
           /\ Top.lo <= K[d].lo
           /\ K[d].hi + (Len(K) - d) <= Top.hi
      /\ \A c \in {LeftCall, RightCall} :
           c.lo < c.hi => \E d \in 1 .. Len(K) : K[d] = c
      /\ \A d, e \in 1 .. Len(K) : d < e => K[d].hi <= K[e].lo
      /\ K # <<>> => Top.lo < K[1].lo \/ Len(K) = 2
      /\ K = <<>> <=> Len(K) = 0
  BY <1>1, <1>2, NewCallsAre
<1>6. /\ Z \in Seq(CallType)
      /\ Len(calls) \in Nat /\ Len(calls) >= 1
      /\ Top = calls[1] /\ Top \in CallType
      /\ Len(Z) = Len(K) + (Len(calls) - 1)
      /\ \A d \in 1 .. Len(K) : Z[d] = K[d]
      /\ \A d \in Len(K) + 1 .. Len(Z) : /\ d - Len(K) + 1 \in 2 .. Len(calls)
                                         /\ Z[d] = calls[d - Len(K) + 1]
  <2>1. PICK Q : Q = CallType
    OBVIOUS
  <2>2. calls \in Seq(Q) /\ K \in Seq(Q)
    BY <1>1, <1>5, <2>1
  <2>3. calls # <<>> /\ Z = K \o Tail(calls)
    BY <1>1, <1>4
  <2>4. /\ Z \in Seq(Q)
        /\ Len(calls) \in Nat /\ Len(calls) >= 1 /\ Len(K) \in Nat
        /\ Top = calls[1] /\ Top \in Q
        /\ Len(Z) = Len(K) + (Len(calls) - 1)
    BY <2>2, <2>3, StackIs
  <2>5. \A d \in 1 .. Len(K) : Z[d] = K[d]
    BY <2>2, <2>3, StackIs
  <2>6. \A d \in Len(K) + 1 .. Len(Z) : d - Len(K) + 1 \in 2 .. Len(calls)
    BY <2>4
  <2>7. \A d \in Len(K) + 1 .. Len(Z) : Z[d] = calls[d - Len(K) + 1]
    BY <2>2, <2>3, StackIs
  <2> QED BY <2>1, <2>4, <2>5, <2>6, <2>7
<1>7. PICK n, m, L : n = Len(K) /\ m = Len(calls) /\ L = Len(Z)
  OBVIOUS
<1>8. /\ n \in 0 .. 2 /\ m \in Nat /\ m >= 1 /\ L = n + (m - 1)
      /\ \A d \in 1 .. n : d \in 1 .. L /\ Z[d] = K[d]
      /\ \A d \in n + 1 .. L : \E e \in 2 .. m : e = d - n + 1 /\ Z[d] = calls[e]
  <2>1. n \in 0 .. 2 /\ m \in Nat /\ m >= 1 /\ L = n + (m - 1)
    BY <1>5, <1>6, <1>7
  <2>2. \A d \in 1 .. n : d \in 1 .. L /\ Z[d] = K[d]
    BY <1>6, <1>7, <2>1
  <2>3. \A d \in n + 1 .. L : d - n + 1 \in 2 .. m /\ Z[d] = calls[d - n + 1]
    BY <1>6, <1>7
  <2> QED BY <2>1, <2>2, <2>3
<1>9. /\ count \in Nat /\ PatCount \in Nat
      /\ \A e \in 1 .. m : /\ calls[e].lo \in Nat /\ calls[e].hi \in Nat
                           /\ calls[e].lo < calls[e].hi
                           /\ calls[e].hi + (m - e) <= count
      /\ \A d, e \in 1 .. m : d < e => calls[d].hi <= calls[e].lo
      /\ PatCount + 1 <= 2 * calls[1].lo + m
  <2>1. count \in Nat
    BY SortedShape
  <2>2. \A c \in CallType : c.lo \in Nat /\ c.hi \in Nat
    BY DEF CallType
  <2>3. \A e \in 1 .. m : calls[e].lo < calls[e].hi
    BY <1>1, <1>7 DEF BuildInv, PendingOK, IsRange
  <2>4. \A e \in 1 .. m : calls[e] \in CallType
    BY <1>1, <1>7
  <2>5. /\ \A e \in 1 .. m : calls[e].hi + (m - e) <= count
        /\ \A d, e \in 1 .. m : d < e => calls[d].hi <= calls[e].lo
        /\ PatCount + 1 <= 2 * Top.lo + m
    BY <1>1, <1>7 DEF BuildInv
  <2> QED BY <1>1, <1>6, <2>1, <2>2, <2>3, <2>4, <2>5
<1>10. /\ \A d \in 1 .. n :
            /\ \/ K[d] = LeftCall /\ LeftCall.lo < LeftCall.hi
               \/ K[d] = RightCall /\ RightCall.lo < RightCall.hi
            /\ calls[1].lo <= K[d].lo
            /\ K[d].hi + (n - d) <= calls[1].hi
            /\ K[d].lo \in Nat /\ K[d].hi \in Nat
       /\ \A d, e \in 1 .. n : d < e => K[d].hi <= K[e].lo
       /\ n > 0 => calls[1].lo < K[1].lo \/ n = 2
       /\ \A c \in {LeftCall, RightCall} : c.lo < c.hi => \E d \in 1 .. n : K[d] = c
  <2>1. \A d \in 1 .. n : K[d] \in CallType
    BY <1>5, <1>7
  <2>2. \A c \in CallType : c.lo \in Nat /\ c.hi \in Nat
    BY DEF CallType
  <2>3. \A d \in 1 .. n : K[d].lo \in Nat /\ K[d].hi \in Nat
    BY <2>1, <2>2
  <2>4. n > 0 => calls[1].lo < K[1].lo \/ n = 2
    BY <1>5, <1>6, <1>7
  <2> QED BY <1>5, <1>6, <1>7, <2>3, <2>4
<1>11. ASSUME NEW d \in 1 .. L
       PROVE  /\ \/ Z[d] = LeftCall /\ LeftCall.lo < LeftCall.hi
                 \/ Z[d] = RightCall /\ RightCall.lo < RightCall.hi
                 \/ \E e \in 2 .. m : Z[d] = calls[e]
              /\ Z[d].hi + (L - d) <= count
  <2>1. CASE d \in 1 .. n
    <3>1. Z[d] = K[d]
      BY <1>8, <2>1
    <3>2. calls[1].hi \in Nat /\ calls[1].hi + (m - 1) <= count
      BY <1>8, <1>9
    <3>3. K[d].hi \in Nat /\ K[d].hi + (n - d) <= calls[1].hi
      BY <1>10, <2>1
    <3>4. Z[d].hi + (L - d) <= count
      BY <1>8, <1>9, <3>1, <3>2, <3>3
    <3> QED BY <1>10, <2>1, <3>1, <3>4
  <2>2. CASE d \in n + 1 .. L
    <3>1. PICK e \in 2 .. m : e = d - n + 1 /\ Z[d] = calls[e]
      BY <1>8, <2>2
    <3>2. calls[e].hi \in Nat /\ calls[e].hi + (m - e) <= count
      BY <1>9, <3>1
    <3>3. Z[d].hi + (L - d) <= count
      BY <1>8, <3>1, <3>2
    <3> QED BY <3>1, <3>3
  <2> QED BY <1>8, <2>1, <2>2
<1>12. ASSUME NEW d \in 1 .. L, NEW e \in 1 .. L, d < e
       PROVE  Z[d].hi <= Z[e].lo
  <2>1. CASE e \in 1 .. n
    <3>1. d \in 1 .. n /\ Z[d] = K[d] /\ Z[e] = K[e]
      BY <1>8, <1>12, <2>1
    <3> QED BY <1>10, <1>12, <2>1, <3>1
  <2>2. CASE d \in 1 .. n /\ e \in n + 1 .. L
    <3>1. PICK f \in 2 .. m : Z[e] = calls[f]
      BY <1>8, <2>2
    <3>2. calls[1].hi <= calls[f].lo /\ calls[1].hi \in Nat /\ calls[f].lo \in Nat
      BY <1>8, <1>9, <3>1
    <3>3. Z[d] = K[d] /\ K[d].hi \in Nat /\ K[d].hi + (n - d) <= calls[1].hi
      BY <1>8, <1>10, <2>2
    <3>4. K[d].hi <= calls[1].hi
      BY <1>8, <2>2, <3>2, <3>3
    <3> QED BY <3>1, <3>2, <3>3, <3>4
  <2>3. CASE d \in n + 1 .. L
    <3>1. e \in n + 1 .. L
      BY <1>8, <1>12, <2>3
    <3>2. PICK f \in 2 .. m : f = d - n + 1 /\ Z[d] = calls[f]
      BY <1>8, <2>3
    <3>3. PICK g \in 2 .. m : g = e - n + 1 /\ Z[e] = calls[g]
      BY <1>8, <3>1
    <3>4. f \in 1 .. m /\ g \in 1 .. m /\ f < g
      BY <1>8, <1>12, <3>2, <3>3
    <3> QED BY <1>9, <3>2, <3>3, <3>4
  <2> QED BY <1>8, <2>1, <2>2, <2>3
<1>13. \A c \in {LeftCall, RightCall} : c.lo < c.hi => \E d \in 1 .. L : Z[d] = c
  <2> SUFFICES ASSUME NEW c \in {LeftCall, RightCall}, c.lo < c.hi
               PROVE  \E d \in 1 .. L : Z[d] = c
    OBVIOUS
  <2>1. PICK d \in 1 .. n : K[d] = c
    BY <1>10
  <2>2. d \in 1 .. L /\ Z[d] = K[d]
    BY <1>8
  <2> QED BY <2>1, <2>2
<1>14. ASSUME NEW e \in 2 .. m
       PROVE  \E d \in 1 .. L : Z[d] = calls[e]
  <2>1. PICK d : d = e + n - 1
    OBVIOUS
  <2>2. d \in n + 1 .. L /\ d \in 1 .. L /\ d - n + 1 = e
    BY <1>8, <2>1
  <2> QED BY <1>8, <2>2
<1>15. IF L = 0 THEN PatCount + 2 <= 2 * count ELSE PatCount + 2 <= 2 * Z[1].lo + L
  <2>1. CASE n > 0
    <3>1. 1 \in 1 .. n /\ L > 0
      BY <1>8, <2>1
    <3>2. Z[1] = K[1] /\ calls[1].lo <= K[1].lo
      BY <1>8, <1>10, <3>1
    <3>3. calls[1].lo < K[1].lo \/ n = 2
      BY <1>10, <2>1
    <3>4. K[1].lo \in Nat /\ calls[1].lo \in Nat /\ PatCount + 1 <= 2 * calls[1].lo + m
      BY <1>8, <1>9, <1>10, <3>1
    <3>5. PatCount + 2 <= 2 * K[1].lo + L
      <4> HIDE DEF PatCount
      <4> QED BY <1>8, <1>9, <2>1, <3>2, <3>3, <3>4
    <3> QED BY <3>1, <3>2, <3>5
  <2>2. CASE n = 0
    <3>1. /\ calls[1].lo \in Nat /\ calls[1].hi \in Nat /\ calls[1].lo < calls[1].hi
          /\ calls[1].hi + (m - 1) <= count
          /\ PatCount + 1 <= 2 * calls[1].lo + m
      BY <1>8, <1>9
    <3>2. CASE m = 1
      <4>1. L = 0
        BY <1>8, <2>2, <3>2
      <4> QED BY <1>9, <3>1, <3>2, <4>1
    <3>3. CASE m > 1
      <4>1. L > 0 /\ 1 \in n + 1 .. L /\ L = m - 1
        BY <1>8, <2>2, <3>3
      <4>2. PICK e \in 2 .. m : e = 1 - n + 1 /\ Z[1] = calls[e]
        BY <1>8, <4>1
      <4>3. calls[1].hi <= calls[e].lo /\ calls[e].lo \in Nat
        BY <1>8, <1>9, <4>2
      <4> QED BY <1>8, <1>9, <3>1, <4>1, <4>2, <4>3
    <3> QED BY <1>8, <3>2, <3>3
  <2> QED BY <1>8, <2>1, <2>2
<1>16. (Z = <<>> <=> L = 0) /\ (Z # <<>> => Top' = Z[1])
  <2>1. (Z = <<>> <=> L = 0) /\ (Z # <<>> => Head(Z) = Z[1])
    BY <1>6, <1>7
  <2> QED BY <1>3, <2>1 DEF Top
<1> QED BY <1>3, <1>6, <1>7, <1>11, <1>12, <1>13, <1>14, <1>15, <1>16

\* The new node, and which prefixes of the array lead through it.
LEMMA NewNodeIs ==
  ASSUME ArrayInv, Built, TrieInv, BuildInv, BuildNode
  PROVE  /\ NewNode \in NodeType(arena')
         /\ NewNode.left = None /\ NewNode.right = None /\ NewNode.cost = 0
         /\ NewNode.branch = 0 /\ NewNode.repr = Top.lo
         /\ \A k \in DOMAIN arr : k \in RangeOf(Top) <=> Shares(k, arr[Top.lo].addr, NewNode.bit)
         /\ \A k \in RangeOf(Top) : arr[k].pfxlen >= NewNode.bit
<1>1. phase = "build" /\ calls # <<>>
  BY DEF BuildNode
<1>2. /\ IsRange(Top.lo, Top.hi, Top.bit)
      /\ Top.lo \in Nat /\ Top.hi \in Nat /\ Top.bit \in 0 .. KeyBits
  BY <1>1, TopIs
<1>3. /\ NewNode = Node(NewNode.bit, NewNode.prefix, Top.lo)
      /\ NewNode.bit \in Top.bit .. KeyBits
      /\ RangeOf(Top) \subseteq DOMAIN arr /\ Top.lo \in RangeOf(Top)
      /\ \A k \in RangeOf(Top) : Shares(k, arr[Top.lo].addr, NewNode.bit)
      /\ NewNode.prefix # None => NewNode.prefix \in RangeOf(Top)
  BY <1>1, RangeDivided
<1>4. PICK b, p : b = NewNode.bit /\ p = NewNode.prefix
  OBVIOUS
<1>5. NewNode = [left |-> None, right |-> None, prefix |-> p, repr |-> Top.lo,
                 bit |-> b, cost |-> 0, branch |-> 0]
  BY <1>3, <1>4 DEF Node
<1>6. b \in 0 .. KeyBits /\ KeyBits \in Nat /\ 0 \in 0 .. KeyBits
      /\ p \in DOMAIN arr \cup {None} /\ Top.lo \in DOMAIN arr
  BY <1>2, <1>3, <1>4, Shape
<1>7. NewNode \in NodeType(arena')
  BY <1>5, <1>6 DEF NodeType
<1>8. ASSUME NEW k \in DOMAIN arr, Shares(k, arr[Top.lo].addr, NewNode.bit)
      PROVE  k \in RangeOf(Top)
  <2>1. Top.bit \in 0 .. b /\ b \in 0 .. KeyBits
    BY <1>2, <1>3, <1>4
  <2>2. /\ arr[k].addr \in Address /\ arr[Top.lo].addr \in Address
        /\ arr[k].pfxlen \in Nat
    BY <1>6, SortedShape
  <2>3. LeadingBits(arr[k].addr, Top.bit) = LeadingBits(arr[Top.lo].addr, Top.bit)
    BY <1>4, <1>8, <2>1, <2>2, FewerBits DEF Shares
  <2>4. arr[k].pfxlen >= Top.bit
    BY <1>2, <1>4, <1>8, <2>1, <2>2 DEF Shares
  <2> QED BY <1>2, <2>3, <2>4 DEF IsRange, Shares, RangeOf
<1>9. \A k \in RangeOf(Top) : arr[k].pfxlen >= NewNode.bit
  BY <1>3 DEF Shares
<1> QED BY <1>3, <1>5, <1>7, <1>8, <1>9

LEMMA BuildKeepsTrie ==
  ASSUME ArrayInv, HeapInv, TrieInv, BuildInv, BuildNode
  PROVE  TrieInv'
<1>1. /\ phase = "build" /\ phase' = "build" /\ calls # <<>> /\ Built
      /\ arr' = arr /\ count' = count /\ nodeLimit' = nodeLimit
      /\ PatCount < nodeLimit
  BY DEF BuildNode, engineVars, given, Built
<1>2. /\ PatCount \in Nat /\ DOMAIN arena = 0 .. PatCount - 1
      /\ PatCount' = PatCount + 1 /\ DOMAIN arena' = 0 .. PatCount
      /\ arena'[PatCount] = NewNode
      /\ PatCount \notin DOMAIN arena /\ DOMAIN arena' = DOMAIN arena \cup {PatCount}
      /\ arena' \in [DOMAIN arena' -> NodeType(arena') \cup {NewNode}]
      /\ \A n \in DOMAIN arena :
           /\ arena'[n].prefix = arena[n].prefix /\ arena'[n].repr = arena[n].repr
           /\ arena'[n].bit = arena[n].bit /\ arena'[n].branch = arena[n].branch
           /\ \A side \in 0 .. 1 :
                Child(arena'[n], side) = IF n = Top.parent /\ side = Top.side THEN PatCount
                                         ELSE Child(arena[n], side)
  BY NewArena
<1>3. /\ NewNode \in NodeType(arena')
      /\ NewNode.left = None /\ NewNode.right = None
      /\ NewNode.branch = 0 /\ NewNode.repr = Top.lo
      /\ \A k \in DOMAIN arr : k \in RangeOf(Top) <=> Shares(k, arr[Top.lo].addr, NewNode.bit)
  BY <1>1, NewNodeIs
<1>4. /\ RangeOf(Top) \subseteq DOMAIN arr /\ Top.lo \in RangeOf(Top)
      /\ NewNode.bit \in Top.bit .. KeyBits
      /\ NewNode.prefix # None => /\ NewNode.prefix \in RangeOf(Top)
                                  /\ arr[NewNode.prefix].pfxlen = NewNode.bit
      /\ \A k \in RangeOf(Top) :
           arr[k].pfxlen = NewNode.bit => /\ NewNode.prefix # None
                                          /\ SameKey(arr[NewNode.prefix], arr[k])
  BY <1>1, RangeDivided
<1>5. /\ Top = calls[1] /\ 1 \in 1 .. Len(calls) /\ PendingOK(Top) /\ Top.side \in 0 .. 1
      /\ Top.bit \in 0 .. KeyBits
  BY <1>1, TopIs
<1>6. \A k \in RangeOf(Top), n \in DOMAIN arena : ~StoredAt(arena, n, k)
  BY <1>1, <1>5 DEF BuildInv
<1>7. \A n \in DOMAIN arena, k \in DOMAIN arr :
        /\ LeadsTo(arena', n, k) <=> LeadsTo(arena, n, k)
        /\ StoredAt(arena', n, k) <=> StoredAt(arena, n, k)
  BY <1>1, <1>2 DEF LeadsTo, StoredAt, Shares
<1>8. \A k \in DOMAIN arr :
        /\ LeadsTo(arena', PatCount, k) <=> k \in RangeOf(Top)
        /\ StoredAt(arena', PatCount, k) <=> /\ NewNode.prefix # None
                                             /\ SameKey(arr[NewNode.prefix], arr[k])
  BY <1>1, <1>2, <1>3 DEF LeadsTo, StoredAt, Shares
<1> DEFINE N == NodeType(arena')
<1>9. arena' \in [DOMAIN arena' -> NodeType(arena')]
  BY <1>1, <1>2, <1>3 DEF NodeType
<1>10. ASSUME NEW n \in DOMAIN arena'
       PROVE  /\ arena'[n].bit + arena'[n].branch <= KeyBits
              /\ arr[arena'[n].repr].pfxlen >= arena'[n].bit
              /\ arena'[n].prefix # None => arr[arena'[n].prefix].pfxlen = arena'[n].bit
              /\ \A k \in DOMAIN arr :
                   LeadsTo(arena', n, k) /\ arr[k].pfxlen = arena'[n].bit => StoredAt(arena', n, k)
              /\ \A side \in 0 .. 1 :
                   Child(arena'[n], side) # None => IsBelow(arena', n, side, Child(arena'[n], side))
  <2>1. CASE n = PatCount
    <3>1. \A side \in 0 .. 1 : Child(arena'[n], side) = None
      BY <1>2, <1>3, <2>1 DEF Child
    <3>2. NewNode.bit + 0 <= KeyBits
      BY <1>4, <1>5, Shape
    <3>3. arr[Top.lo].pfxlen >= NewNode.bit
      <4>1. Top.lo \in RangeOf(Top)
        BY <1>1, TopIs DEF IsRange, RangeOf
      <4> QED BY <1>1, <4>1, NewNodeIs
    <3> QED BY <1>1, <1>2, <1>3, <1>4, <1>8, <2>1, <3>1, <3>2, <3>3
  <2>2. CASE n \in DOMAIN arena
    <3>1. /\ arena[n].bit + arena[n].branch <= KeyBits
          /\ arr[arena[n].repr].pfxlen >= arena[n].bit
          /\ arena[n].prefix # None => arr[arena[n].prefix].pfxlen = arena[n].bit
          /\ \A k \in DOMAIN arr : LeadsTo(arena, n, k) /\ arr[k].pfxlen = arena[n].bit
                                     => StoredAt(arena, n, k)
          /\ \A side \in 0 .. 1 :
               Child(arena[n], side) # None => IsBelow(arena, n, side, Child(arena[n], side))
      BY <1>1, <2>2 DEF TrieInv, TrieOK
    <3>2. ASSUME NEW side \in 0 .. 1, Child(arena'[n], side) # None
          PROVE  IsBelow(arena', n, side, Child(arena'[n], side))
      <4>1. CASE n = Top.parent /\ side = Top.side
        <5>1. Child(arena'[n], side) = PatCount /\ arena'[PatCount].repr = Top.lo
          BY <1>2, <1>3, <2>2, <4>1
        <5>2. GoesTo(arena, n, side, Top.lo) /\ arena[n].bit < Top.bit
          <6>1. n # None
            BY <1>2, <2>2 DEF None
          <6> QED BY <1>4, <1>5, <4>1, <6>1 DEF PendingOK
        <5>3. n < PatCount /\ arena[n].bit < NewNode.bit
          <6>1. arena[n].bit \in 0 .. KeyBits
            BY <1>1, <2>2 DEF TrieInv, TrieOK, NodeType
          <6> QED BY <1>2, <1>4, <1>5, <2>2, <5>2, <6>1, Shape, SMTT(30)
        <5>4. LeadsTo(arena', n, Top.lo)
          BY <1>4, <1>7, <2>2, <5>2 DEF GoesTo
        <5> QED BY <1>1, <1>2, <2>2, <5>1, <5>2, <5>3, <5>4 DEF IsBelow, GoesTo
      <4>2. CASE ~(n = Top.parent /\ side = Top.side)
        <5>1. PICK c : c = Child(arena[n], side)
          OBVIOUS
        <5>2. Child(arena'[n], side) = c /\ c # None /\ IsBelow(arena, n, side, c)
          BY <1>2, <2>2, <3>1, <3>2, <4>2, <5>1
        <5>3. c \in DOMAIN arena
          <6>1. arena[n] \in NodeType(arena)
            BY <1>1, <2>2 DEF TrieInv, TrieOK
          <6> QED BY <5>1, <5>2, <6>1 DEF NodeType, Child
        <5>4. arena[c].repr \in DOMAIN arr /\ arena'[c].repr = arena[c].repr
              /\ arena'[c].bit = arena[c].bit /\ arena'[n].bit = arena[n].bit
          <6>1. arena[c] \in NodeType(arena)
            BY <1>1, <5>3 DEF TrieInv, TrieOK
          <6> QED BY <1>2, <2>2, <5>3, <6>1 DEF NodeType
        <5>5. LeadsTo(arena', n, arena[c].repr)
          BY <1>7, <2>2, <5>2, <5>4 DEF IsBelow
        <5> QED BY <1>1, <5>2, <5>4, <5>5 DEF IsBelow
      <4> QED BY <4>1, <4>2
    <3> QED BY <1>1, <1>2, <1>7, <2>2, <3>1, <3>2
  <2> QED BY <1>2, <2>1, <2>2
<1>11. ASSUME NEW n \in DOMAIN arena', NEW m \in DOMAIN arena', NEW k \in DOMAIN arr,
              StoredAt(arena', n, k), StoredAt(arena', m, k)
       PROVE  n = m
  <2>1. ASSUME NEW q \in DOMAIN arena, StoredAt(arena, q, k), StoredAt(arena', PatCount, k)
        PROVE  FALSE
    <3>1. NewNode.prefix \in RangeOf(Top) /\ SameKey(arr[NewNode.prefix], arr[k])
      BY <1>1, <1>4, <1>8, <2>1
    <3>2. StoredAt(arena, q, NewNode.prefix)
      BY <2>1, <3>1 DEF StoredAt, SameKey
    <3> QED BY <1>6, <3>1, <3>2
  <2>2. CASE n \in DOMAIN arena /\ m \in DOMAIN arena
    BY <1>1, <1>7, <1>11, <2>2 DEF TrieInv, TrieOK
  <2> QED BY <1>1, <1>2, <1>7, <1>11, <2>1, <2>2
<1>12. TrieOK(arena)'
  <2>1. TrieOK(arena')
    BY <1>9, <1>10, <1>11 DEF TrieOK
  <2> QED BY <1>1, <2>1
      DEF TrieOK, NodeType, LeadsTo, StoredAt, Shares, IsBelow, SameKey
<1>13. ArenaFits'
  <2>1. PatCount + 1 <= 2 * count
    <3>1. /\ PatCount + 1 <= 2 * Top.lo + Len(calls)
          /\ Top.hi + (Len(calls) - 1) <= count
      BY <1>1, <1>5 DEF BuildInv
    <3>2. Top.lo \in Nat /\ Top.hi \in Nat /\ Top.lo < Top.hi /\ Len(calls) \in Nat
      BY <1>1, TopIs DEF IsRange
    <3>3. count \in Nat
      BY <1>1, SortedShape
    <3> QED BY <1>2, <3>1, <3>2, <3>3
  <2>2. count \in Nat /\ nodeLimit \in Nat
    BY <1>1, SortedShape, LimitAssumption DEF TrieInv
  <2>3. MaxPatNodes \in {2 * count + 2, nodeLimit} /\ MaxPatNodes' = MaxPatNodes
    <3>1. {2 * count + 2, nodeLimit} \subseteq Nat
      BY <2>2
    <3> QED BY <1>1, <3>1, LeastIs DEF MaxPatNodes
  <2>4. PatCount + 1 <= nodeLimit /\ PatCount + 1 <= 2 * count + 2
    BY <1>1, <1>2, <2>1, <2>2
  <2> QED BY <1>2, <2>3, <2>4 DEF ArenaFits
<1>14. \A k \in DOMAIN arr : LeadsTo(arena', 0, k)
  <2>1. CASE PatCount = 0
    <3>1. RangeOf(Top) = DOMAIN arr
      BY <1>2, <1>5, <2>1 DEF PendingOK
    <3> QED BY <1>8, <2>1, <3>1
  <2>2. CASE PatCount # 0
    <3>1. 0 \in DOMAIN arena
      BY <1>2, <2>2
    <3> QED BY <1>1, <1>7, <3>1 DEF TrieInv
  <2> QED BY <2>1, <2>2
<1>15. (\A k \in DOMAIN arr : LeadsTo(arena, 0, k))'
  BY <1>1, <1>14 DEF LeadsTo, Shares
<1> QED BY <1>1, <1>2, <1>12, <1>13, <1>15 DEF TrieInv

LEMMA BuildKeepsCalls ==
  ASSUME ArrayInv, HeapInv, TrieInv, BuildInv, BuildNode
  PROVE  BuildInv'
<1>1. /\ phase = "build" /\ phase' = "build" /\ calls # <<>> /\ Built
      /\ arr' = arr /\ count' = count
  BY DEF BuildNode, engineVars, given, Built
<1>2. /\ PatCount \in Nat /\ DOMAIN arena = 0 .. PatCount - 1
      /\ PatCount' = PatCount + 1 /\ arena'[PatCount] = NewNode
      /\ PatCount \notin DOMAIN arena /\ DOMAIN arena' = DOMAIN arena \cup {PatCount}
      /\ \A n \in DOMAIN arena :
           /\ arena'[n].prefix = arena[n].prefix /\ arena'[n].repr = arena[n].repr
           /\ arena'[n].bit = arena[n].bit
  BY NewArena
<1>3. /\ NewNode.repr = Top.lo
      /\ \A k \in DOMAIN arr : k \in RangeOf(Top) <=> Shares(k, arr[Top.lo].addr, NewNode.bit)
      /\ \A k \in RangeOf(Top) : arr[k].pfxlen >= NewNode.bit
  BY <1>1, NewNodeIs
<1>4. /\ RangeOf(Top) \subseteq DOMAIN arr
      /\ NewNode.bit \in Top.bit .. KeyBits
      /\ NewNode.prefix # None => /\ NewNode.prefix \in RangeOf(Top)
                                  /\ arr[NewNode.prefix].pfxlen = NewNode.bit
      /\ \A k \in RangeOf(Top) :
           arr[k].pfxlen = NewNode.bit => /\ NewNode.prefix # None
                                          /\ SameKey(arr[NewNode.prefix], arr[k])
      /\ NewExt \in Top.lo .. Top.hi /\ NewPivot \in NewExt .. Top.hi
      /\ \A k \in RangeOf(Top) : k < NewExt <=> arr[k].pfxlen = NewNode.bit
      /\ \A k \in NewExt .. Top.hi - 1 :
           /\ NewNode.bit < KeyBits /\ AddrBit(arr[k].addr, NewNode.bit) \in 0 .. 1
           /\ k < NewPivot <=> AddrBit(arr[k].addr, NewNode.bit) = 0
  BY <1>1, RangeDivided
<1>5. /\ Top = calls[1] /\ 1 \in 1 .. Len(calls) /\ PendingOK(Top) /\ Top.side \in 0 .. 1
      /\ Top.bit \in 0 .. KeyBits /\ Len(calls) \in Nat
      /\ Top.lo \in Nat /\ Top.hi \in Nat
  BY <1>1, TopIs
<1>6. /\ calls' \in Seq(CallType)
      /\ \A d \in 1 .. Len(calls') :
           /\ \/ calls'[d] = LeftCall /\ LeftCall.lo < LeftCall.hi
              \/ calls'[d] = RightCall /\ RightCall.lo < RightCall.hi
              \/ \E e \in 2 .. Len(calls) : calls'[d] = calls[e]
           /\ calls'[d].hi + (Len(calls') - d) <= count
      /\ \A d, e \in 1 .. Len(calls') : d < e => calls'[d].hi <= calls'[e].lo
      /\ \A c \in {LeftCall, RightCall} :
           c.lo < c.hi => \E d \in 1 .. Len(calls') : calls'[d] = c
      /\ \A e \in 2 .. Len(calls) : \E d \in 1 .. Len(calls') : calls'[d] = calls[e]
      /\ IF calls' = <<>> THEN PatCount + 2 <= 2 * count
         ELSE PatCount + 2 <= 2 * Top'.lo + Len(calls')
  BY <1>1, NextCalls
<1>7. /\ LeftCall.lo = NewExt /\ LeftCall.hi = NewPivot /\ LeftCall.bit = NewNode.bit + 1
      /\ LeftCall.parent = PatCount /\ LeftCall.side = 0
      /\ RightCall.lo = NewPivot /\ RightCall.hi = Top.hi /\ RightCall.bit = NewNode.bit + 1
      /\ RightCall.parent = PatCount /\ RightCall.side = 1
  BY DEF LeftCall, RightCall, BuildCall
<1>8. /\ \A n \in DOMAIN arena, k \in DOMAIN arr :
           /\ LeadsTo(arena', n, k) <=> LeadsTo(arena, n, k)
           /\ StoredAt(arena', n, k) <=> StoredAt(arena, n, k)
      /\ \A k \in DOMAIN arr :
           /\ LeadsTo(arena', PatCount, k) <=> k \in RangeOf(Top)
           /\ StoredAt(arena', PatCount, k) <=> /\ NewNode.prefix # None
                                                /\ SameKey(arr[NewNode.prefix], arr[k])
  BY <1>2, <1>3 DEF LeadsTo, StoredAt
<1>9. \A k \in RangeOf(Top) :
        /\ k < NewExt \/ k \in NewExt .. NewPivot - 1 \/ k \in NewPivot .. Top.hi - 1
        /\ k \in NewExt .. NewPivot - 1 <=> /\ arr[k].pfxlen > NewNode.bit
                                            /\ AddrBit(arr[k].addr, NewNode.bit) = 0
        /\ k \in NewPivot .. Top.hi - 1 <=> /\ arr[k].pfxlen > NewNode.bit
                                            /\ AddrBit(arr[k].addr, NewNode.bit) = 1
  <2> TAKE k \in RangeOf(Top)
  <2>1. /\ k \in Top.lo .. Top.hi - 1 /\ NewNode.bit \in Int /\ arr[k].pfxlen \in Int
        /\ Top.lo \in Int /\ Top.hi \in Int /\ NewExt \in Int /\ NewPivot \in Int
    BY <1>1, <1>4, <1>5, SortedShape, SMTT(30) DEF RangeOf
  <2>2. k \in NewExt .. Top.hi - 1 <=> arr[k].pfxlen > NewNode.bit
    BY <1>3, <1>4, <2>1
  <2>3. k \in NewExt .. NewPivot - 1 <=> k \in NewExt .. Top.hi - 1 /\ k < NewPivot
    BY <1>4, <2>1
  <2>4. k \in NewPivot .. Top.hi - 1 <=> k \in NewExt .. Top.hi - 1 /\ ~(k < NewPivot)
    BY <1>4, <2>1
  <2>5. k < NewExt \/ k \in NewExt .. NewPivot - 1 \/ k \in NewPivot .. Top.hi - 1
    BY <2>1
  <2> QED BY <1>4, <2>2, <2>3, <2>4, <2>5
\* The calls of the new node are as they should be, and the others stay so.
<1>10. ASSUME NEW c \in {LeftCall, RightCall}, c.lo < c.hi
       PROVE  /\ PendingOK(c)'
              /\ RangeOf(c) \subseteq RangeOf(Top)
              /\ \A k \in RangeOf(c) : arr[k].pfxlen > NewNode.bit
  <2>1. /\ IsRange(c.lo, c.hi, c.bit) /\ RangeOf(c) \subseteq RangeOf(Top)
        /\ c.parent = PatCount /\ c.bit = NewNode.bit + 1
    BY <1>1, <1>2, <1>7, <1>10, SidesAreRanges
  <2>2. IsRange(c.lo, c.hi, c.bit)'
    BY <1>1, <2>1 DEF IsRange, Shares
  <2>3. c.parent # None /\ c.parent \in DOMAIN arena' /\ arena'[c.parent].bit < c.bit
    <3>1. NewNode.bit \in Int
      BY <1>4, <1>5
    <3> QED BY <1>2, <2>1, <3>1 DEF None
  <2>4. ASSUME NEW k \in DOMAIN arr
        PROVE  k \in RangeOf(c) <=> GoesTo(arena', PatCount, c.side, k)
    <3>1. k \in RangeOf(c) <=> /\ k \in RangeOf(Top) /\ arr[k].pfxlen > NewNode.bit
                               /\ AddrBit(arr[k].addr, NewNode.bit) = c.side
      BY <1>7, <1>9, <1>10, <2>1 DEF RangeOf
    <3> QED BY <1>2, <1>8, <3>1 DEF GoesTo
  <2>5. (\A k \in DOMAIN arr : k \in RangeOf(c) <=> GoesTo(arena, c.parent, c.side, k))'
    BY <1>1, <2>1, <2>4 DEF GoesTo, LeadsTo, Shares, RangeOf
  <2>6. PendingOK(c)'
    BY <2>2, <2>3, <2>5 DEF PendingOK
  <2>7. \A k \in RangeOf(c) : arr[k].pfxlen > NewNode.bit
    BY <1>2, <1>4, <2>1, <2>4 DEF GoesTo
  <2> QED BY <2>1, <2>6, <2>7
<1>11. ASSUME NEW e \in 2 .. Len(calls), NEW c, c = calls[e]
       PROVE  /\ PendingOK(c)'
              /\ RangeOf(c) \subseteq DOMAIN arr
              /\ \A k \in RangeOf(c) : k \notin RangeOf(Top)
  <2>1. e \in 1 .. Len(calls) /\ 1 < e
    BY <1>5
  <2>2. PendingOK(c) /\ c \in CallType /\ Top.hi <= c.lo
    BY <1>1, <1>5, <1>11, <2>1 DEF BuildInv
  <2>3. IsRange(c.lo, c.hi, c.bit)'
    BY <1>1, <2>2 DEF PendingOK, IsRange, Shares
  <2>4. /\ RangeOf(c) \subseteq DOMAIN arr
        /\ \A k \in RangeOf(c) : k \notin RangeOf(Top)
    <3>1. c.lo \in Nat /\ c.hi \in Nat /\ c.hi <= count
      BY <2>2 DEF PendingOK, IsRange
    <3>2. DOMAIN arr = 0 .. count - 1 /\ count \in Nat
      BY <1>1, SortedShape
    <3> QED BY <1>5, <2>2, <3>1, <3>2, SMTT(30) DEF RangeOf
  <2>5. (c.parent = None => RangeOf(c) = DOMAIN arr)'
    BY <1>1, <2>2 DEF PendingOK, RangeOf
  <2>6. ASSUME c.parent # None
        PROVE  /\ c.parent \in DOMAIN arena'
               /\ arena'[c.parent].bit < c.bit
               /\ (\A k \in DOMAIN arr : k \in RangeOf(c) <=> GoesTo(arena, c.parent, c.side, k))'
    <3>1. /\ c.parent \in DOMAIN arena /\ arena[c.parent].bit < c.bit
          /\ \A k \in DOMAIN arr : k \in RangeOf(c) <=> GoesTo(arena, c.parent, c.side, k)
      BY <2>2, <2>6 DEF PendingOK
    <3>2. \A k \in DOMAIN arr :
            GoesTo(arena', c.parent, c.side, k) <=> GoesTo(arena, c.parent, c.side, k)
      BY <1>2, <1>8, <3>1 DEF GoesTo
    <3> QED BY <1>1, <1>2, <3>1, <3>2 DEF GoesTo, LeadsTo, Shares, RangeOf
  <2>7. PendingOK(c)'
    BY <2>3, <2>5, <2>6 DEF PendingOK
  <2> QED BY <2>4, <2>7
<1>12. ASSUME NEW d \in 1 .. Len(calls'), NEW c, c = calls'[d]
       PROVE  /\ PendingOK(c)'
              /\ \A k \in RangeOf(c), n \in DOMAIN arena' : ~StoredAt(arena', n, k)
  <2>1. CASE c \in {LeftCall, RightCall} /\ c.lo < c.hi
    <3>1. /\ PendingOK(c)' /\ RangeOf(c) \subseteq RangeOf(Top)
          /\ \A k \in RangeOf(c) : arr[k].pfxlen > NewNode.bit
      BY <1>10, <2>1
    <3>2. ASSUME NEW k \in RangeOf(c), NEW n \in DOMAIN arena', StoredAt(arena', n, k)
          PROVE  FALSE
      <4>1. k \in DOMAIN arr /\ k \in RangeOf(Top) /\ arr[k].pfxlen > NewNode.bit
        BY <1>4, <3>1
      <4>2. CASE n = PatCount
        <5>1. /\ NewNode.prefix # None /\ SameKey(arr[NewNode.prefix], arr[k])
              /\ arr[NewNode.prefix].pfxlen = NewNode.bit /\ NewNode.bit \in Int
          BY <1>4, <1>5, <1>8, <3>2, <4>1, <4>2
        <5> QED BY <4>1, <5>1 DEF SameKey
      <4>3. CASE n \in DOMAIN arena
        BY <1>1, <1>5, <1>8, <3>2, <4>1, <4>3 DEF BuildInv
      <4> QED BY <1>2, <4>2, <4>3
    <3> QED BY <3>1, <3>2
  <2>2. CASE \E e \in 2 .. Len(calls) : c = calls[e]
    <3>1. PICK e \in 2 .. Len(calls) : c = calls[e]
      BY <2>2
    <3>2. /\ PendingOK(c)' /\ RangeOf(c) \subseteq DOMAIN arr
          /\ \A k \in RangeOf(c) : k \notin RangeOf(Top)
      BY <1>11, <3>1
    <3>3. e \in 1 .. Len(calls)
      BY <1>5
    <3>4. ASSUME NEW k \in RangeOf(c), NEW n \in DOMAIN arena', StoredAt(arena', n, k)
          PROVE  FALSE
      <4>1. k \in DOMAIN arr /\ k \notin RangeOf(Top)
        BY <3>2
      <4>2. CASE n = PatCount
        <5>1. /\ NewNode.prefix \in RangeOf(Top) /\ SameKey(arr[NewNode.prefix], arr[k])
              /\ NewNode.prefix \in DOMAIN arr
          BY <1>4, <1>8, <3>4, <4>1, <4>2
        <5>2. k \in RangeOf(Top)
          BY <1>3, <4>1, <5>1 DEF SameKey, Shares
        <5> QED BY <4>1, <5>2
      <4>3. CASE n \in DOMAIN arena
        BY <1>1, <1>8, <3>1, <3>3, <3>4, <4>1, <4>3 DEF BuildInv
      <4> QED BY <1>2, <4>2, <4>3
    <3> QED BY <3>2, <3>4
  <2> QED BY <1>6, <1>12, <2>1, <2>2
<1>13. ASSUME NEW k \in DOMAIN arr
       PROVE  \/ \E d \in 1 .. Len(calls') : k \in RangeOf(calls'[d])
              \/ \E n \in DOMAIN arena' : StoredAt(arena', n, k)
  <2>1. CASE k \in RangeOf(Top)
    <3>1. CASE arr[k].pfxlen = NewNode.bit
      BY <1>2, <1>4, <1>8, <2>1, <3>1
    <3>2. CASE arr[k].pfxlen # NewNode.bit
      <4>1. k \in NewExt .. NewPivot - 1 \/ k \in NewPivot .. Top.hi - 1
        BY <1>4, <1>9, <2>1, <3>2
      <4>2. PICK c \in {LeftCall, RightCall} : k \in RangeOf(c) /\ c.lo < c.hi
        <5>1. NewExt \in Int /\ NewPivot \in Int
          BY <1>4, <1>5
        <5>2. k \in RangeOf(LeftCall) \/ k \in RangeOf(RightCall)
          BY <1>7, <4>1 DEF RangeOf
        <5>3. k \in RangeOf(LeftCall) => LeftCall.lo < LeftCall.hi
          BY <1>7, <5>1 DEF RangeOf
        <5>4. k \in RangeOf(RightCall) => RightCall.lo < RightCall.hi
          BY <1>5, <1>7, <5>1 DEF RangeOf
        <5> QED BY <5>2, <5>3, <5>4
      <4> QED BY <1>6, <4>2
    <3> QED BY <3>1, <3>2
  <2>2. CASE k \notin RangeOf(Top)
    <3>1. CASE \E n \in DOMAIN arena : StoredAt(arena, n, k)
      BY <1>2, <1>8, <3>1
    <3>2. CASE \E d \in 1 .. Len(calls) : k \in RangeOf(calls[d])
      <4>1. PICK d \in 1 .. Len(calls) : k \in RangeOf(calls[d])
        BY <3>2
      <4>2. d \in 2 .. Len(calls)
        BY <1>5, <2>2, <4>1
      <4> QED BY <1>6, <4>1, <4>2
    <3> QED BY <1>1, <3>1, <3>2 DEF BuildInv
  <2> QED BY <2>1, <2>2
<1>14. /\ (\A d \in 1 .. Len(calls) : PendingOK(calls[d]))'
       /\ (\A d \in 1 .. Len(calls) : \A k \in RangeOf(calls[d]), n \in DOMAIN arena :
             ~StoredAt(arena, n, k))'
       /\ (\A k \in DOMAIN arr : \/ \E d \in 1 .. Len(calls) : k \in RangeOf(calls[d])
                                 \/ \E n \in DOMAIN arena : StoredAt(arena, n, k))'
  <2>1. (\A d \in 1 .. Len(calls) : PendingOK(calls[d]))'
    BY <1>12
  <2> QED BY <1>1, <1>12, <1>13, <2>1 DEF StoredAt, SameKey, RangeOf
<1> QED BY <1>1, <1>2, <1>6, <1>14 DEF BuildInv

LEMMA BuildKeepsRoutes ==
  ASSUME ArrayInv, HeapInv, TrieInv, BuildInv, RouteInv, BuildNode
  PROVE  RouteInv'
<1>1. /\ phase = "build" /\ phase' = "build" /\ calls # <<>> /\ Built /\ arr' = arr
  BY DEF BuildNode, engineVars, Built
<1>2. /\ PatCount \in Nat /\ DOMAIN arena = 0 .. PatCount - 1
      /\ arena'[PatCount] = NewNode
      /\ PatCount \notin DOMAIN arena /\ DOMAIN arena' = DOMAIN arena \cup {PatCount}
      /\ \A n \in DOMAIN arena :
           /\ arena'[n].repr = arena[n].repr /\ arena'[n].bit = arena[n].bit
           /\ \A side \in 0 .. 1 :
                Child(arena'[n], side) = IF n = Top.parent /\ side = Top.side THEN PatCount
                                         ELSE Child(arena[n], side)
  BY NewArena
<1>3. /\ NewNode.repr = Top.lo
      /\ \A k \in DOMAIN arr : k \in RangeOf(Top) <=> Shares(k, arr[Top.lo].addr, NewNode.bit)
      /\ \A k \in RangeOf(Top) : arr[k].pfxlen >= NewNode.bit
  BY <1>1, NewNodeIs
<1>4. /\ NewNode.bit \in Top.bit .. KeyBits
      /\ NewExt \in Top.lo .. Top.hi /\ NewPivot \in NewExt .. Top.hi
      /\ \A k \in RangeOf(Top) : k < NewExt <=> arr[k].pfxlen = NewNode.bit
      /\ \A k \in NewExt .. Top.hi - 1 : k < NewPivot <=> AddrBit(arr[k].addr, NewNode.bit) = 0
  BY <1>1, RangeDivided
<1>5. /\ Top = calls[1] /\ PendingOK(Top) /\ Top.side \in 0 .. 1
      /\ Top.bit \in 0 .. KeyBits /\ Len(calls) \in Nat
      /\ Top.lo \in Nat /\ Top.hi \in Nat
  BY <1>1, TopIs
<1>6. /\ \A c \in {LeftCall, RightCall} :
           c.lo < c.hi => \E d \in 1 .. Len(calls') : calls'[d] = c
      /\ \A e \in 2 .. Len(calls) : \E d \in 1 .. Len(calls') : calls'[d] = calls[e]
  BY <1>1, NextCalls
<1>7. /\ LeftCall.lo = NewExt /\ LeftCall.hi = NewPivot
      /\ LeftCall.parent = PatCount /\ LeftCall.side = 0
      /\ RightCall.lo = NewPivot /\ RightCall.hi = Top.hi
      /\ RightCall.parent = PatCount /\ RightCall.side = 1
  BY DEF LeftCall, RightCall, BuildCall
<1>8. /\ \A n \in DOMAIN arena, k \in DOMAIN arr : LeadsTo(arena', n, k) <=> LeadsTo(arena, n, k)
      /\ \A k \in DOMAIN arr : LeadsTo(arena', PatCount, k) <=> k \in RangeOf(Top)
  BY <1>2, <1>3 DEF LeadsTo
<1>9. ASSUME NEW n \in DOMAIN arena', NEW side \in 0 .. 1, NEW k \in DOMAIN arr,
             GoesTo(arena', n, side, k)
      PROVE  \/ Child(arena'[n], side) # None /\ LeadsTo(arena', Child(arena'[n], side), k)
             \/ \E d \in 1 .. Len(calls') : calls'[d].parent = n /\ calls'[d].side = side
  <2>1. CASE n = PatCount
    <3>1. /\ k \in RangeOf(Top) /\ arr[k].pfxlen > NewNode.bit
          /\ AddrBit(arr[k].addr, NewNode.bit) = side
      BY <1>2, <1>8, <1>9, <2>1 DEF GoesTo
    <3>2. /\ k \in Top.lo .. Top.hi - 1 /\ NewNode.bit \in Int /\ arr[k].pfxlen \in Int
          /\ Top.lo \in Int /\ Top.hi \in Int /\ NewExt \in Int /\ NewPivot \in Int
      BY <1>1, <1>4, <1>5, <3>1, SortedShape, SMTT(30) DEF RangeOf
    <3>3. k \in NewExt .. Top.hi - 1
      BY <1>4, <3>1, <3>2
    <3>4. CASE side = 0
      <4>1. LeftCall.lo < LeftCall.hi
        BY <1>4, <1>7, <3>1, <3>2, <3>3, <3>4
      <4> QED BY <1>6, <1>7, <2>1, <3>4, <4>1
    <3>5. CASE side = 1
      <4>1. RightCall.lo < RightCall.hi
        BY <1>4, <1>7, <3>1, <3>2, <3>3, <3>5
      <4> QED BY <1>6, <1>7, <2>1, <3>5, <4>1
    <3> QED BY <3>4, <3>5
  <2>2. CASE n \in DOMAIN arena /\ n = Top.parent /\ side = Top.side
    <3>1. GoesTo(arena, n, side, k) /\ n # None
      BY <1>2, <1>8, <1>9, <2>2 DEF GoesTo, None
    <3>2. k \in RangeOf(Top)
      BY <1>5, <2>2, <3>1 DEF PendingOK
    <3>3. Child(arena'[n], side) = PatCount /\ PatCount # None
      BY <1>2, <2>2 DEF None
    <3> QED BY <1>8, <3>2, <3>3
  <2>3. CASE n \in DOMAIN arena /\ ~(n = Top.parent /\ side = Top.side)
    <3>1. GoesTo(arena, n, side, k)
      BY <1>2, <1>8, <1>9, <2>3 DEF GoesTo
    <3>2. PICK c : c = Child(arena[n], side)
      OBVIOUS
    <3>3. Child(arena'[n], side) = c /\ c \in DOMAIN arena \cup {None}
      <4>1. arena[n] \in NodeType(arena)
        BY <1>1, <2>3 DEF TrieInv, TrieOK
      <4>2. Child(arena'[n], side) = c
        BY <1>2, <2>3, <3>2
      <4> QED BY <3>2, <4>1, <4>2 DEF NodeType, Child
    <3>4. CASE c # None /\ LeadsTo(arena, c, k)
      BY <1>8, <3>3, <3>4
    <3>5. CASE \E d \in 1 .. Len(calls) : calls[d].parent = n /\ calls[d].side = side
      <4>1. PICK d \in 1 .. Len(calls) : calls[d].parent = n /\ calls[d].side = side
        BY <3>5
      <4>2. d \in 2 .. Len(calls)
        BY <1>5, <2>3, <4>1
      <4> QED BY <1>6, <4>1, <4>2
    <3> QED BY <1>1, <2>3, <3>1, <3>2, <3>4, <3>5 DEF RouteInv
  <2> QED BY <1>2, <2>1, <2>2, <2>3
<1>10. \A n \in DOMAIN arena', side \in 0 .. 1, k \in DOMAIN arr :
         /\ GoesTo(arena, n, side, k)' <=> GoesTo(arena', n, side, k)
         /\ LeadsTo(arena, Child(arena[n], side), k)' <=> LeadsTo(arena', Child(arena'[n], side), k)
  BY <1>1 DEF GoesTo, LeadsTo, Shares, Child
<1> QED BY <1>1, <1>9, <1>10 DEF RouteInv, Child

----------------------------------------------------------------------------
(* What the slots of a node stand for.                                     *)

LEMMA MaxOfTwo ==
  ASSUME NEW a \in Int, NEW b \in Int
  PROVE  Max({a, b}) = IF a >= b THEN a ELSE b
BY DEF Max

LEMMA MinOfTwo ==
  ASSUME NEW a \in Int, NEW b \in Int
  PROVE  Min({a, b}) = IF a <= b THEN a ELSE b
BY DEF Min

\* The walk from a node stays among the nodes below it, which were made later.
Below(T, n) == {m \in DOMAIN T : n < m /\ T[n].bit < T[m].bit}
WalkState(T, n) == [child : Below(T, n) \cup {None}, used : Nat]
WalkStart(T, n, branch, slot) == [child |-> Child(T[n], SlotBit(slot, branch, 0)), used |-> 1]
WalkRound(T, n, branch, slot, s) == MatchRound(T, arr, T[n].bit, branch, slot, s)
IsWalk(w, T, n, branch, slot) ==
  w = [k \in 0 .. branch |-> IF k = 0 THEN WalkStart(T, n, branch, slot)
                             ELSE WalkRound(T, n, branch, slot, w[k - 1])]

LEMMA RoundIsTyped ==
  ASSUME NEW T, TrieOK(T), DOMAIN T \subseteq Nat, NEW n \in DOMAIN T, NEW branch \in Nat, NEW slot, NEW s \in WalkState(T, n)
  PROVE  WalkRound(T, n, branch, slot, s) \in WalkState(T, n)
<1>1. \A m \in DOMAIN T : /\ T[m].bit \in Nat
                              /\ T[m].left \in DOMAIN T \cup {None}
                              /\ T[m].right \in DOMAIN T \cup {None}
                              /\ \A side \in 0 .. 1 : Child(T[m], side) \in Below(T, m) \cup {None}
  <2>1. \A m \in DOMAIN T : /\ T[m].bit \in Nat
                                /\ T[m].left \in DOMAIN T \cup {None}
                                /\ T[m].right \in DOMAIN T \cup {None}
    BY Shape DEF TrieOK, NodeType
  <2>2. \A m \in DOMAIN T : \A side \in 0 .. 1 : Child(T[m], side) \in Below(T, m) \cup {None}
    BY <2>1 DEF TrieOK, IsBelow, Child, Below
  <2> QED BY <2>1, <2>2
<1>2. CASE s.child = None \/ s.used >= branch
  BY <1>2 DEF WalkRound, MatchRound
<1>3. CASE s.child # None /\ s.used < branch
  <2> DEFINE node == T[s.child]
             ends == Min({branch, Max({s.used, node.bit - T[n].bit})})
             below == Child(node, SlotBit(slot, branch, ends))
  <2>1. s.child \in DOMAIN T /\ s.child \in Below(T, n) /\ s.used \in Nat
    BY <1>3 DEF WalkState, Below
  <2>2. ends \in Nat
    <3>1. PICK r : r = node.bit - T[n].bit
      OBVIOUS
    <3>2. PICK u : u = s.used
      OBVIOUS
    <3>3. r \in Int /\ u \in Nat
      BY <1>1, <2>1, <3>1, <3>2
    <3>4. PICK m : m = Max({u, r})
      OBVIOUS
    <3>5. m \in Nat
      <4>1. m = IF u >= r THEN u ELSE r
        BY <3>3, <3>4, MaxOfTwo
      <4> QED BY <3>3, <4>1
    <3>6. Min({branch, m}) \in Nat
      <4>1. Min({branch, m}) = IF branch <= m THEN branch ELSE m
        BY <3>5, MinOfTwo
      <4> QED BY <3>5, <4>1
    <3> QED BY <3>1, <3>2, <3>4, <3>6
  <2>3. below \in Below(T, n) \cup {None}
    <3>1. below \in {Child(node, 0), Child(node, 1)}
      BY DEF Child
    <3>2. below \in Below(T, s.child) \cup {None}
      BY <1>1, <2>1, <3>1
    <3>3. Below(T, s.child) \subseteq Below(T, n)
      BY <1>1, <2>1 DEF Below
    <3> HIDE DEF below
    <3> QED BY <3>2, <3>3
  <2>4. \A c \in Below(T, n) \cup {None} : \A u \in Nat : [child |-> c, used |-> u] \in WalkState(T, n)
    BY DEF WalkState
  <2>5. WalkRound(T, n, branch, slot, s) \in
          {[child |-> None, used |-> branch], [child |-> s.child, used |-> branch],
           [child |-> below, used |-> ends + 1]}
    <3>1. WalkRound(T, n, branch, slot, s) =
            IF \E k \in s.used .. ends - 1 :
                 SlotBit(slot, branch, k) # AddrBit(arr[node.repr].addr, T[n].bit + k)
            THEN [child |-> None, used |-> branch]
            ELSE IF ends = branch THEN [child |-> s.child, used |-> branch]
            ELSE IF below = None
            THEN [child |-> IF node.prefix # None THEN s.child ELSE None, used |-> branch]
            ELSE [child |-> below, used |-> ends + 1]
      <4>1. ~(s.child = None \/ s.used >= branch)
        BY <1>3, <2>1
      <4> QED BY <4>1, Zenon DEF WalkRound, MatchRound
    <3> HIDE DEF ends, below, node
    <3> QED BY <3>1, Zenon
  <2> HIDE DEF ends, below
  <2> QED BY <2>1, <2>2, <2>3, <2>4, <2>5
<1> QED BY <1>2, <1>3 DEF WalkState

Walk(T, n, branch, slot) == CHOOSE w : IsWalk(w, T, n, branch, slot)

\* The walk through the pattern of a slot.
LEMMA WalkIs ==
  ASSUME NEW T, TrieOK(T), DOMAIN T \subseteq Nat, NEW n \in DOMAIN T, NEW branch \in Nat, NEW slot
  PROVE  /\ Walk(T, n, branch, slot) \in [0 .. branch -> WalkState(T, n)]
         /\ Walk(T, n, branch, slot)[0] = WalkStart(T, n, branch, slot)
         /\ \A k \in 1 .. branch : Walk(T, n, branch, slot)[k] =
                                     WalkRound(T, n, branch, slot, Walk(T, n, branch, slot)[k - 1])
         /\ SlotTarget(T, arr, n, branch, slot) = Walk(T, n, branch, slot)[branch].child
<1>1. PICK D : D = WalkState(T, n)
  OBVIOUS
<1>2. WalkStart(T, n, branch, slot) \in D
  <2>1. WalkStart(T, n, branch, slot).child \in {Child(T[n], 0), Child(T[n], 1)}
    BY DEF WalkStart, Child
  <2>2. \A side \in 0 .. 1 : Child(T[n], side) \in Below(T, n) \cup {None}
    BY DEF TrieOK, NodeType, IsBelow, Child, Below
  <2> QED BY <1>1, <2>1, <2>2 DEF WalkStart, WalkState
<1>3. PICK first : first = WalkStart(T, n, branch, slot)
  OBVIOUS
<1>4. PICK step : step = [x \in (1 .. branch) \X D |-> WalkRound(T, n, branch, slot, x[2])]
  OBVIOUS
<1>5. first \in D /\ step \in [(1 .. branch) \X D -> D]
  BY <1>1, <1>2, <1>3, <1>4, RoundIsTyped
<1>6. PICK f \in [0 .. branch -> D] : /\ f[0] = first
                                      /\ \A k \in 1 .. branch : f[k] = step[<<k, f[k - 1]>>]
  <2>1. PICK f : f = Loop(branch, D, first, step)
    OBVIOUS
  <2>2. IsLoop(f, branch, D, first, step)
    BY <1>5, <2>1, LoopExists
  <2> QED BY <2>2 DEF IsLoop
<1>7. ASSUME NEW k \in 1 .. branch
      PROVE  f[k] = WalkRound(T, n, branch, slot, f[k - 1])
  <2>1. f[k - 1] \in D
    BY <1>6
  <2>2. PICK x : x = <<k, f[k - 1]>>
    OBVIOUS
  <2>3. x \in (1 .. branch) \X D /\ x[2] = f[k - 1]
    BY <2>1, <2>2
  <2>4. step[x] = WalkRound(T, n, branch, slot, x[2])
    BY <1>4, <2>3
  <2> QED BY <1>6, <2>2, <2>3, <2>4
<1>8. IsWalk(f, T, n, branch, slot)
  <2>1. \A k \in 0 .. branch : f[k] = IF k = 0 THEN WalkStart(T, n, branch, slot)
                                      ELSE WalkRound(T, n, branch, slot, f[k - 1])
    BY <1>3, <1>6, <1>7
  <2>2. f = [k \in 0 .. branch |-> f[k]]
    BY <1>6
  <2> QED BY <2>1, <2>2 DEF IsWalk
<1>9. PICK w : w = Walk(T, n, branch, slot)
  OBVIOUS
<1>10. IsWalk(w, T, n, branch, slot)
  BY <1>8, <1>9 DEF Walk
<1>11. /\ w[0] = first
       /\ \A k \in 1 .. branch : w[k] = WalkRound(T, n, branch, slot, w[k - 1])
  BY <1>3, <1>10 DEF IsWalk
<1>12. w \in [0 .. branch -> D]
  <2> DEFINE S == {k \in 0 .. branch : w[k] \in D}
  <2>1. 0 \in S /\ \A k \in 1 .. branch : k - 1 \in S => k \in S
    BY <1>1, <1>5, <1>11, RoundIsTyped
  <2>2. 0 .. branch \subseteq S
    <3> HIDE DEF S
    <3> QED BY <2>1, RoundByRound
  <2>3. w = [k \in 0 .. branch |-> w[k]]
    BY <1>10 DEF IsWalk
  <2> QED BY <2>2, <2>3
<1>13. SlotTarget(T, arr, n, branch, slot) = w[branch].child
  BY <1>9 DEF SlotTarget, Walk, IsWalk, WalkStart, WalkRound
<1> QED BY <1>1, <1>3, <1>9, <1>11, <1>12, <1>13

LEMMA SlotTargetIs ==
  ASSUME NEW T, TrieOK(T), DOMAIN T \subseteq Nat, NEW n \in DOMAIN T, NEW branch \in Nat, NEW slot
  PROVE  SlotTarget(T, arr, n, branch, slot) \in Below(T, n) \cup {None}
<1>1. PICK w : w = Walk(T, n, branch, slot)
  OBVIOUS
<1>2. w \in [0 .. branch -> WalkState(T, n)] /\ SlotTarget(T, arr, n, branch, slot) = w[branch].child
  BY <1>1, WalkIs
<1>3. w[branch] \in WalkState(T, n)
  BY <1>2
<1> QED BY <1>2, <1>3 DEF WalkState

\* The packed size of a node is the sum the loop over its slots makes.
IsSum(f, T, n, branch, width) ==
  f = [k \in 0 .. width |-> IF k = 0 THEN 1
                            ELSE f[k - 1] + SlotCost(T, arr, n, branch, k - 1)]

Sum(T, n, branch) == CHOOSE f : IsSum(f, T, n, branch, 2^branch)

LEMMA CostIs ==
  ASSUME NEW T, TrieOK(T), DOMAIN T \subseteq Nat, NEW n \in DOMAIN T, NEW branch \in 0 .. KeyBits
  PROVE  /\ Sum(T, n, branch) \in [0 .. 2^branch -> Nat \ {0}]
         /\ Sum(T, n, branch)[0] = 1
         /\ \A k \in 1 .. 2^branch :
              Sum(T, n, branch)[k] = Sum(T, n, branch)[k - 1] + SlotCost(T, arr, n, branch, k - 1)
         /\ BranchCost(T, arr, n, branch) = Sum(T, n, branch)[2^branch]
         /\ BranchCost(T, arr, n, branch) \in Nat \ {0}
<1>1. PICK width : width = 2^branch
  OBVIOUS
<1>2. width \in Nat /\ branch \in Nat
  BY <1>1, PowerIsPositive, Shape
<1>3. \A slot : SlotCost(T, arr, n, branch, slot) \in Nat
  <2> SUFFICES ASSUME NEW slot PROVE SlotCost(T, arr, n, branch, slot) \in Nat
    OBVIOUS
  <2>1. PICK m : m = SlotTarget(T, arr, n, branch, slot)
    OBVIOUS
  <2>2. m \in DOMAIN T \cup {None}
    BY <1>2, <2>1, SlotTargetIs DEF Below
  <2>3. SlotCost(T, arr, n, branch, slot) = IF m = None THEN 1 ELSE T[m].cost
    BY <2>1 DEF SlotCost
  <2>4. \A x \in DOMAIN T : T[x].cost \in Nat
    BY DEF TrieOK, NodeType
  <2> QED BY <2>2, <2>3, <2>4
<1>4. PICK step : step = [x \in (1 .. width) \X (Nat \ {0}) |->
                            x[2] + SlotCost(T, arr, n, branch, x[1] - 1)]
  OBVIOUS
<1>5. PICK D : D = Nat \ {0}
  OBVIOUS
<1>6. step \in [(1 .. width) \X D -> D]
  BY <1>3, <1>4, <1>5
<1>7. PICK f \in [0 .. width -> D] : /\ f[0] = 1
                                     /\ \A k \in 1 .. width : f[k] = step[<<k, f[k - 1]>>]
  <2>1. PICK f : f = Loop(width, D, 1, step)
    OBVIOUS
  <2>2. 1 \in D
    BY <1>5
  <2>3. IsLoop(f, width, D, 1, step)
    BY <1>2, <1>6, <2>1, <2>2, LoopExists
  <2> QED BY <2>3 DEF IsLoop
<1>8. ASSUME NEW k \in 1 .. width
      PROVE  f[k] = f[k - 1] + SlotCost(T, arr, n, branch, k - 1)
  <2>1. f[k - 1] \in D
    BY <1>2, <1>7
  <2>2. PICK x : x = <<k, f[k - 1]>>
    OBVIOUS
  <2>3. x \in (1 .. width) \X (Nat \ {0}) /\ x[1] = k /\ x[2] = f[k - 1]
    BY <1>5, <2>1, <2>2
  <2>4. step[x] = x[2] + SlotCost(T, arr, n, branch, x[1] - 1)
    BY <1>4, <2>3
  <2> QED BY <1>7, <2>2, <2>3, <2>4
<1>9. IsSum(f, T, n, branch, width)
  <2>1. \A k \in 0 .. width : f[k] = IF k = 0 THEN 1
                                     ELSE f[k - 1] + SlotCost(T, arr, n, branch, k - 1)
    BY <1>2, <1>7, <1>8
  <2>2. f = [k \in 0 .. width |-> f[k]]
    BY <1>7
  <2> QED BY <2>1, <2>2 DEF IsSum
<1>10. PICK s : s = Sum(T, n, branch)
  OBVIOUS
<1>11. IsSum(s, T, n, branch, width)
  BY <1>1, <1>9, <1>10 DEF Sum
<1>12. /\ s[0] = 1
       /\ \A k \in 1 .. width : s[k] = s[k - 1] + SlotCost(T, arr, n, branch, k - 1)
  BY <1>2, <1>11 DEF IsSum
<1>13. s \in [0 .. width -> D]
  <2> DEFINE S == {k \in 0 .. width : s[k] \in D}
  <2>1. 0 \in S
    BY <1>2, <1>5, <1>12
  <2>2. ASSUME NEW k \in 1 .. width, k - 1 \in S
        PROVE  k \in S
    <3>1. s[k - 1] \in D /\ SlotCost(T, arr, n, branch, k - 1) \in Nat
      BY <1>3, <2>2
    <3> QED BY <1>5, <1>12, <3>1
  <2>3. 0 .. width \subseteq S
    <3> HIDE DEF S
    <3> QED BY <1>2, <2>1, <2>2, RoundByRound
  <2>4. s = [k \in 0 .. width |-> s[k]]
    BY <1>11 DEF IsSum
  <2> QED BY <2>3, <2>4
<1>14. BranchCost(T, arr, n, branch) = s[width] /\ s[width] \in D
  <2>1. BranchCost(T, arr, n, branch) = s[width]
    BY <1>1, <1>10 DEF BranchCost, Sum, IsSum
  <2>2. s[width] \in D
    BY <1>2, <1>13
  <2> QED BY <2>1, <2>2
<1> QED BY <1>1, <1>5, <1>10, <1>12, <1>13, <1>14

\* What the slots lead to depends on the shape of the trie only, and what a
\* branching factor costs on the costs of the nodes below as well.
SameShape(T, U) ==
  /\ DOMAIN U = DOMAIN T
  /\ \A n \in DOMAIN T : /\ U[n].left = T[n].left /\ U[n].right = T[n].right
                         /\ U[n].prefix = T[n].prefix /\ U[n].repr = T[n].repr
                         /\ U[n].bit = T[n].bit

SameRoutes(T, U) ==
  \A n \in DOMAIN T : /\ \A k : LeadsTo(U, n, k) <=> LeadsTo(T, n, k)
                      /\ \A k : StoredAt(U, n, k) <=> StoredAt(T, n, k)
                      /\ \A side : Child(U[n], side) = Child(T[n], side)
NodesFit(T) == /\ T \in [DOMAIN T -> NodeType(T)]
               /\ \A n \in DOMAIN T : T[n].bit + T[n].branch <= KeyBits
SameCostsBelow(T, U, n) == \A m \in DOMAIN T : n < m => U[m].cost = T[m].cost

LEMMA SameShapeSameTrie ==
  ASSUME NEW T, NEW U, TrieOK(T), SameShape(T, U), NodesFit(U)
  PROVE  TrieOK(U) /\ SameRoutes(T, U)
<1>1. \A n \in DOMAIN T : \A k : LeadsTo(U, n, k) <=> LeadsTo(T, n, k)
  BY DEF SameShape, LeadsTo
<1>2. \A n \in DOMAIN T : \A k : StoredAt(U, n, k) <=> StoredAt(T, n, k)
  BY DEF SameShape, StoredAt
<1>3. \A n \in DOMAIN T : \A side : Child(U[n], side) = Child(T[n], side)
  BY DEF SameShape, Child
<1>4. ASSUME NEW n \in DOMAIN U
      PROVE  /\ arr[U[n].repr].pfxlen >= U[n].bit
             /\ U[n].prefix # None => arr[U[n].prefix].pfxlen = U[n].bit
             /\ \A k \in DOMAIN arr : LeadsTo(U, n, k) /\ arr[k].pfxlen = U[n].bit => StoredAt(U, n, k)
  BY <1>1, <1>2 DEF SameShape, TrieOK
<1>5. ASSUME NEW n \in DOMAIN U, NEW side \in 0 .. 1, Child(U[n], side) # None
      PROVE  IsBelow(U, n, side, Child(U[n], side))
  <2>1. PICK c : c = Child(T[n], side)
    OBVIOUS
  <2>2. n \in DOMAIN T /\ Child(U[n], side) = c /\ c # None
    BY <1>3, <1>5, <2>1 DEF SameShape
  <2>3. IsBelow(T, n, side, c)
    BY <2>1, <2>2 DEF TrieOK
  <2>4. c \in DOMAIN T
    BY <2>1, <2>2 DEF TrieOK, NodeType, Child
  <2>5. U[c].bit = T[c].bit /\ U[n].bit = T[n].bit /\ U[c].repr = T[c].repr
    BY <2>2, <2>4 DEF SameShape
  <2>6. LeadsTo(U, n, T[c].repr) <=> LeadsTo(T, n, T[c].repr)
    BY <1>1, <2>2
  <2> QED BY <2>2, <2>3, <2>5, <2>6 DEF IsBelow
<1>6. \A n, m \in DOMAIN U : \A k \in DOMAIN arr : StoredAt(U, n, k) /\ StoredAt(U, m, k) => n = m
  <2>1. DOMAIN U = DOMAIN T
    BY DEF SameShape
  <2> QED BY <1>2, <2>1 DEF TrieOK
<1>7. TrieOK(U)
  BY <1>4, <1>5, <1>6 DEF TrieOK, NodesFit
<1> QED BY <1>1, <1>2, <1>3, <1>7 DEF SameRoutes

LEMMA SameShapeSameSlots ==
  ASSUME NEW T, TrieOK(T), NEW U, TrieOK(U), SameShape(T, U), DOMAIN T \subseteq Nat,
         NEW n \in DOMAIN T, NEW branch \in Nat, NEW slot
  PROVE  SlotTarget(U, arr, n, branch, slot) = SlotTarget(T, arr, n, branch, slot)
<1>1. PICK w \in [0 .. branch -> WalkState(T, n)] :
        /\ w[0] = WalkStart(T, n, branch, slot)
        /\ \A k \in 1 .. branch : w[k] = WalkRound(T, n, branch, slot, w[k - 1])
        /\ SlotTarget(T, arr, n, branch, slot) = w[branch].child
  <2>1. PICK f : f = Walk(T, n, branch, slot)
    OBVIOUS
  <2> QED BY <2>1, WalkIs
<1>2. n \in DOMAIN U /\ DOMAIN U \subseteq Nat
  BY DEF SameShape
<1>3. PICK v \in [0 .. branch -> WalkState(U, n)] :
        /\ v[0] = WalkStart(U, n, branch, slot)
        /\ \A k \in 1 .. branch : v[k] = WalkRound(U, n, branch, slot, v[k - 1])
        /\ SlotTarget(U, arr, n, branch, slot) = v[branch].child
  <2>1. PICK f : f = Walk(U, n, branch, slot)
    OBVIOUS
  <2> QED BY <1>2, <2>1, WalkIs, SMTT(30)
<1>4. WalkStart(U, n, branch, slot) = WalkStart(T, n, branch, slot)
  BY DEF WalkStart, Child, SameShape
<1>5. ASSUME NEW s \in WalkState(T, n)
      PROVE  WalkRound(U, n, branch, slot, s) = WalkRound(T, n, branch, slot, s)
  <2>1. U[n].bit = T[n].bit
    BY DEF SameShape
  <2>2. CASE s.child = None
    BY <2>2 DEF WalkRound, MatchRound
  <2>3. CASE s.child # None
    <3>1. s.child \in DOMAIN T
      BY <2>3 DEF WalkState, Below
    <3>2. /\ U[s.child].bit = T[s.child].bit /\ U[s.child].repr = T[s.child].repr
          /\ U[s.child].prefix = T[s.child].prefix
          /\ \A side : Child(U[s.child], side) = Child(T[s.child], side)
      BY <3>1 DEF SameShape, Child
    <3> QED BY <2>1, <3>2 DEF WalkRound, MatchRound
  <2> QED BY <2>2, <2>3
<1>6. v[branch] = w[branch]
  <2> DEFINE S == {k \in 0 .. branch : v[k] = w[k]}
  <2>1. 0 \in S
    BY <1>1, <1>3, <1>4
  <2>2. ASSUME NEW k \in 1 .. branch, k - 1 \in S
        PROVE  k \in S
    <3>1. w[k - 1] \in WalkState(T, n) /\ v[k - 1] = w[k - 1]
      BY <2>2
    <3>2. WalkRound(U, n, branch, slot, w[k - 1]) = WalkRound(T, n, branch, slot, w[k - 1])
      BY <1>5, <3>1
    <3> QED BY <1>1, <1>3, <3>1, <3>2
  <2>3. 0 .. branch \subseteq S
    <3> HIDE DEF S
    <3> QED BY <2>1, <2>2, RoundByRound
  <2> QED BY <2>3
<1> QED BY <1>1, <1>3, <1>6

LEMMA SameShapeSameCost ==
  ASSUME NEW T, NEW U, TrieOK(T), TrieOK(U), SameShape(T, U), DOMAIN T \subseteq Nat,
         NEW n \in DOMAIN T, SameCostsBelow(T, U, n), NEW branch \in 0 .. KeyBits
  PROVE  BranchCost(U, arr, n, branch) = BranchCost(T, arr, n, branch)
<1>1. branch \in Nat /\ 2^branch \in Nat
  BY PowerIsPositive, Shape
<1>2. \A slot : SlotCost(U, arr, n, branch, slot) = SlotCost(T, arr, n, branch, slot)
  <2> SUFFICES ASSUME NEW slot
               PROVE  SlotCost(U, arr, n, branch, slot) = SlotCost(T, arr, n, branch, slot)
    OBVIOUS
  <2>1. PICK m : m = SlotTarget(T, arr, n, branch, slot)
    OBVIOUS
  <2>2. SlotTarget(U, arr, n, branch, slot) = m
    BY <1>1, <2>1, SameShapeSameSlots
  <2>3. m \in Below(T, n) \cup {None}
    BY <1>1, <2>1, SlotTargetIs
  <2> QED BY <2>1, <2>2, <2>3 DEF SlotCost, Below, SameCostsBelow
<1>3. PICK t : t = Sum(T, n, branch)
  OBVIOUS
<1>4. PICK u : u = Sum(U, n, branch)
  OBVIOUS
<1>5. /\ t[0] = 1 /\ BranchCost(T, arr, n, branch) = t[2^branch]
      /\ \A k \in 1 .. 2^branch : t[k] = t[k - 1] + SlotCost(T, arr, n, branch, k - 1)
  <2>1. n \in DOMAIN T /\ DOMAIN T \subseteq Nat
    OBVIOUS
  <2> QED BY <1>3, <2>1, CostIs, SMTT(30)
<1>6. /\ u[0] = 1 /\ BranchCost(U, arr, n, branch) = u[2^branch]
      /\ \A k \in 1 .. 2^branch : u[k] = u[k - 1] + SlotCost(U, arr, n, branch, k - 1)
  <2>1. n \in DOMAIN U /\ DOMAIN U \subseteq Nat
    BY DEF SameShape
  <2> QED BY <1>4, <2>1, CostIs
<1>7. u[2^branch] = t[2^branch]
  <2> DEFINE S == {k \in 0 .. 2^branch : u[k] = t[k]}
  <2>1. 0 \in S
    BY <1>1, <1>5, <1>6
  <2>2. \A k \in 1 .. 2^branch : k - 1 \in S => k \in S
    BY <1>1, <1>2, <1>5, <1>6
  <2>3. 0 .. 2^branch \subseteq S
    <3> HIDE DEF S
    <3> QED BY <1>1, <2>1, <2>2, RoundByRound
  <2> QED BY <1>1, <2>3
<1> QED BY <1>5, <1>6, <1>7

----------------------------------------------------------------------------
(* One step of the dynamic programme: the last node without a cost.        *)

LEMMA GreatestIs ==
  ASSUME NEW n \in Nat, NEW S, S \subseteq 0 .. n, S # {}
  PROVE  Max(S) \in S /\ \A x \in S : Max(S) >= x
<1> DEFINE T == {n - x : x \in S}
<1>1. T \subseteq Nat /\ T # {}
  <2>1. \A x \in S : n - x \in Nat
    OBVIOUS
  <2> QED BY <2>1
<1>2. PICK t \in T : \A u \in T : t <= u
  BY <1>1, LeastElement
<1>3. PICK x \in S : t = n - x
  BY <1>2
<1>4. \A y \in S : x >= y
  <2> TAKE y \in S
  <2>1. n - x <= n - y
    BY <1>2, <1>3
  <2> QED BY <2>1
<1> QED BY <1>3, <1>4 DEF Max

LEMMA CostNodeIs ==
  ASSUME TrieInv, CostNode
  PROVE  \E n \in DOMAIN arena, c \in Nat \ {0}, b \in 0 .. KeyBits :
           /\ arena[n].cost = 0 /\ \A m \in DOMAIN arena : m > n => arena[m].cost # 0
           /\ arena' = [arena EXCEPT ![n].cost = c, ![n].branch = b]
           /\ arena[n].bit + b <= KeyBits
           /\ c = IF b = 0 THEN 1 ELSE BranchCost(arena, arr, n, b)
           /\ b = 0 => IsLeaf(arena[n])
<1>1. /\ phase = "build" /\ Uncosted # {}
      /\ PatCount \in Nat /\ DOMAIN arena = 0 .. PatCount - 1 /\ TrieOK(arena)
  BY DEF CostNode, TrieInv
<1>2. PICK n : n = Max(Uncosted)
  OBVIOUS
<1>3. n \in Uncosted /\ \A m \in Uncosted : n >= m
  <2>1. Uncosted \subseteq 0 .. PatCount
    BY <1>1 DEF Uncosted
  <2> QED BY <1>1, <1>2, <2>1, GreatestIs
<1>4. PICK choice \in BranchChoices(arena, arr, n, nodeLimit) :
        arena' = [arena EXCEPT ![n].cost = choice[1], ![n].branch = choice[2]]
  BY <1>2 DEF CostNode
<1>5. /\ n \in DOMAIN arena /\ arena[n].cost = 0
      /\ \A m \in DOMAIN arena : m > n => arena[m].cost # 0
      /\ arena[n].bit \in 0 .. KeyBits
  BY <1>1, <1>3 DEF Uncosted, TrieOK, NodeType
<1>6. CASE IsLeaf(arena[n])
  <2>1. choice = <<1, 0>>
    BY <1>4, <1>6 DEF BranchChoices
  <2>2. arena' = [arena EXCEPT ![n].cost = 1, ![n].branch = 0]
    BY <1>4, <2>1
  <2>3. 1 \in Nat \ {0} /\ 0 \in 0 .. KeyBits /\ arena[n].bit + 0 <= KeyBits
    BY <1>5, Shape
  <2>4. 1 = IF 0 = 0 THEN 1 ELSE BranchCost(arena, arr, n, 0)
    OBVIOUS
  <2> QED BY <1>5, <1>6, <2>2, <2>3, <2>4, Zenon
<1>7. CASE ~IsLeaf(arena[n])
  <2>1. PICK b \in 1 .. Min({MaxBranch, KeyBits - arena[n].bit}) :
          choice = <<BranchCost(arena, arr, n, b), b>>
    BY <1>4, <1>7 DEF BranchChoices
  <2>2. b \in 1 .. KeyBits - arena[n].bit
    <3>1. PICK r : r = KeyBits - arena[n].bit
      OBVIOUS
    <3>2. r \in Int
      BY <1>5, <3>1, Shape
    <3>3. Min({MaxBranch, r}) <= r /\ Min({MaxBranch, r}) \in Int
      BY <3>2, MinOfTwo, TrieAssumption
    <3> QED BY <2>1, <3>1, <3>2, <3>3
  <2>3. b \in 0 .. KeyBits /\ b # 0 /\ arena[n].bit + b <= KeyBits
    BY <1>5, <2>2, Shape
  <2>4. PICK c : c = BranchCost(arena, arr, n, b)
    OBVIOUS
  <2>5. c \in Nat \ {0}
    <3>1. DOMAIN arena \subseteq Nat
      BY <1>1
    <3> QED BY <1>1, <1>5, <2>3, <2>4, <3>1, CostIs
  <2>6. arena' = [arena EXCEPT ![n].cost = c, ![n].branch = b]
    BY <1>4, <2>1, <2>4
  <2>7. c = IF b = 0 THEN 1 ELSE BranchCost(arena, arr, n, b)
    BY <2>3, <2>4
  <2> QED BY <1>5, <2>3, <2>5, <2>6, <2>7
<1> QED BY <1>6, <1>7

\* The costs are computed from the last node to the first, each from those of
\* the nodes below.
CostInv ==
  phase \in {"build", "pack"} =>
    /\ phase = "build" /\ calls # <<>> => \A n \in DOMAIN arena : arena[n].cost = 0
    /\ \A n, m \in DOMAIN arena : n < m /\ arena[n].cost # 0 => arena[m].cost # 0
    /\ \A n \in DOMAIN arena :
         arena[n].cost # 0 => arena[n].cost = IF arena[n].branch = 0 THEN 1
                                              ELSE BranchCost(arena, arr, n, arena[n].branch)
    /\ \A n \in DOMAIN arena : arena[n].cost # 0 /\ arena[n].branch = 0 => IsLeaf(arena[n])
    /\ phase = "pack" => \A n \in DOMAIN arena : arena[n].cost # 0

LEMMA CostKeeps ==
  ASSUME HeapInv, TrieInv, BuildInv, RouteInv, CostInv, CostNode
  PROVE  TrieInv' /\ BuildInv' /\ RouteInv' /\ CostInv'
<1>1. /\ phase = "build" /\ phase' = "build" /\ calls = <<>> /\ calls' = calls
      /\ arr' = arr /\ count' = count /\ nodeLimit' = nodeLimit
  BY DEF CostNode, engineVars, given
<1>2. /\ PatCount \in Nat /\ DOMAIN arena = 0 .. PatCount - 1 /\ TrieOK(arena)
      /\ 0 \in DOMAIN arena => \A k \in DOMAIN arr : LeadsTo(arena, 0, k)
  BY <1>1 DEF TrieInv
<1>3. PICK n \in DOMAIN arena, c \in Nat \ {0}, b \in 0 .. KeyBits :
        /\ arena[n].cost = 0 /\ \A m \in DOMAIN arena : m > n => arena[m].cost # 0
        /\ arena' = [arena EXCEPT ![n].cost = c, ![n].branch = b]
        /\ arena[n].bit + b <= KeyBits
        /\ c = IF b = 0 THEN 1 ELSE BranchCost(arena, arr, n, b)
        /\ b = 0 => IsLeaf(arena[n])
  BY CostNodeIs
<1>4. PICK T : T = arena
  OBVIOUS
<1>5. PICK U : U = arena'
  OBVIOUS
<1>6. /\ TrieOK(T) /\ T \in [DOMAIN T -> NodeType(T)] /\ n \in DOMAIN T
      /\ \A m \in DOMAIN T : T[m].bit + T[m].branch <= KeyBits
      /\ U = [T EXCEPT ![n].cost = c, ![n].branch = b] /\ T[n].bit + b <= KeyBits
  BY <1>2, <1>3, <1>4, <1>5 DEF TrieOK
<1>7. /\ DOMAIN U = DOMAIN T
      /\ \A m \in DOMAIN T \ {n} : U[m] = T[m]
      /\ U[n] = [T[n] EXCEPT !.cost = c, !.branch = b]
  BY <1>6
<1>8. /\ U[n].left = T[n].left /\ U[n].right = T[n].right /\ U[n].prefix = T[n].prefix
      /\ U[n].repr = T[n].repr /\ U[n].bit = T[n].bit /\ U[n].cost = c /\ U[n].branch = b
      /\ U[n] \in NodeType(T)
  <2>1. T[n] \in NodeType(T)
    BY <1>6
  <2> QED BY <1>7, <2>1 DEF NodeType
<1>9. SameShape(T, U)
  BY <1>7, <1>8 DEF SameShape
<1>10. U \in [DOMAIN U -> NodeType(U)]
  <2>1. U = [m \in DOMAIN U |-> U[m]]
    BY <1>6
  <2>2. NodeType(U) = NodeType(T)
    BY <1>7 DEF NodeType
  <2>3. \A m \in DOMAIN U : U[m] \in NodeType(U)
    BY <1>6, <1>7, <1>8, <2>2
  <2> QED BY <2>1, <2>3
<1>11. NodesFit(U)
  <2>1. \A m \in DOMAIN U : U[m].bit + U[m].branch <= KeyBits
    BY <1>6, <1>7, <1>8
  <2> QED BY <1>10, <2>1 DEF NodesFit
<1>12. /\ TrieOK(U)
       /\ \A m \in DOMAIN T : \A k : LeadsTo(U, m, k) <=> LeadsTo(T, m, k)
       /\ \A m \in DOMAIN T : \A k : StoredAt(U, m, k) <=> StoredAt(T, m, k)
       /\ \A m \in DOMAIN T : \A side : Child(U[m], side) = Child(T[m], side)
  <2>1. TrieOK(U) /\ SameRoutes(T, U)
    BY <1>6, <1>9, <1>11, SameShapeSameTrie
  <2> QED BY <2>1 DEF SameRoutes
<1>13. PatCount' = PatCount /\ MaxPatNodes' = MaxPatNodes
  BY <1>1, <1>4, <1>5, <1>7 DEF PatCount, MaxPatNodes
<1>14. TrieInv'
  <2>1. TrieOK(arena)'
    <3>1. TrieOK(arena')
      BY <1>5, <1>12
    <3> QED BY <1>1, <3>1 DEF TrieOK, NodeType, LeadsTo, StoredAt, Shares, IsBelow, SameKey
  <2>2. DOMAIN arena' = 0 .. PatCount' - 1
    BY <1>2, <1>4, <1>5, <1>7, <1>13
  <2>3. 0 \in DOMAIN arena' => \A k \in DOMAIN arr' : LeadsTo(arena, 0, k)'
    BY <1>1, <1>2, <1>4, <1>5, <1>7, <1>12 DEF LeadsTo, Shares
  <2> QED BY <1>1, <1>2, <1>13, <2>1, <2>2, <2>3 DEF TrieInv, ArenaFits
<1>15. BuildInv'
  <2>1. \A x \in DOMAIN arena : \A k : StoredAt(arena, x, k)' <=> StoredAt(arena, x, k)
    BY <1>1, <1>4, <1>5, <1>12 DEF StoredAt
  <2>2. DOMAIN arena' = DOMAIN arena
    BY <1>4, <1>5, <1>7
  <2>3. /\ calls' \in Seq(CallType) /\ Len(calls') = 0
        /\ PatCount' + 1 <= 2 * count'
        /\ \A k \in DOMAIN arr : \E x \in DOMAIN arena : StoredAt(arena, x, k)
    BY <1>1, <1>13 DEF BuildInv
  <2>4. \A k \in DOMAIN arr' : \E x \in DOMAIN arena' : StoredAt(arena, x, k)'
    BY <1>1, <2>1, <2>2, <2>3
  <2> QED BY <1>1, <2>3, <2>4 DEF BuildInv
<1>16. RouteInv'
  <2>1. ASSUME NEW x \in DOMAIN arena', NEW side \in 0 .. 1, NEW k \in DOMAIN arr',
               GoesTo(arena, x, side, k)'
        PROVE  Child(arena[x], side)' # None /\ LeadsTo(arena, Child(arena[x], side), k)'
    <3>1. x \in DOMAIN T /\ U[x].bit = T[x].bit
      BY <1>5, <1>7, <1>9, <2>1 DEF SameShape
    <3>2. GoesTo(T, x, side, k)
      BY <1>1, <1>5, <1>12, <2>1, <3>1 DEF GoesTo, LeadsTo, Shares
    <3>3. PICK m : m = Child(T[x], side)
      OBVIOUS
    <3>4. m # None /\ LeadsTo(T, m, k)
      BY <1>1, <1>4, <3>1, <3>2, <3>3 DEF RouteInv
    <3>5. m \in DOMAIN T /\ Child(U[x], side) = m
      BY <1>6, <1>12, <3>1, <3>3, <3>4 DEF NodeType, Child
    <3>6. LeadsTo(U, m, k)
      BY <1>12, <3>4, <3>5
    <3> QED BY <1>1, <1>5, <3>4, <3>5, <3>6 DEF LeadsTo, Shares, Child
  <2> QED BY <1>1, <2>1 DEF RouteInv
<1>17. CostInv'
  <2>1. ASSUME NEW m \in DOMAIN T
        PROVE  /\ m < n => U[m].cost = 0
               /\ m >= n => /\ U[m].cost # 0
                            /\ U[m].cost = IF U[m].branch = 0 THEN 1
                                           ELSE BranchCost(U, arr, m, U[m].branch)
    <3>1. m < n => T[m].cost = 0
      BY <1>1, <1>3, <1>4 DEF CostInv
    <3>2. m > n => T[m].cost # 0
      BY <1>3, <1>4
    <3>3. /\ n \in Nat /\ m \in Nat /\ DOMAIN T \subseteq Nat
      BY <1>2, <1>4
    <3>4. T[m].branch \in 0 .. KeyBits
      BY <1>6 DEF NodeType
    <3>5. CASE m = n
      <4>1. BranchCost(U, arr, n, b) = BranchCost(T, arr, n, b)
        <5>1. SameCostsBelow(T, U, n)
          BY <1>7, <3>3 DEF SameCostsBelow
        <5>2. TrieOK(T) /\ TrieOK(U) /\ SameShape(T, U)
          BY <1>6, <1>9, <1>12
        <5>3. n \in DOMAIN T /\ DOMAIN T \subseteq Nat
          BY <1>6, <3>3
        <5> QED BY <3>4, <5>1, <5>2, <5>3, SameShapeSameCost
      <4> QED BY <1>3, <1>4, <1>8, <3>3, <3>5, <4>1
    <3>6. CASE m < n
      BY <1>7, <3>1, <3>3, <3>6
    <3>7. CASE m > n
      <4>1. BranchCost(U, arr, m, T[m].branch) = BranchCost(T, arr, m, T[m].branch)
        <5>1. SameCostsBelow(T, U, m)
          BY <1>7, <3>3, <3>7 DEF SameCostsBelow
        <5>2. TrieOK(T) /\ TrieOK(U) /\ SameShape(T, U)
          BY <1>6, <1>9, <1>12
        <5>3. n \in DOMAIN T /\ DOMAIN T \subseteq Nat
          BY <1>6, <3>3
        <5> QED BY <3>4, <5>1, <5>2, <5>3, SameShapeSameCost
      <4>2. U[m] = T[m]
        BY <1>7, <3>3, <3>7
      <4>3. T[m].cost = IF T[m].branch = 0 THEN 1 ELSE BranchCost(T, arr, m, T[m].branch)
        BY <1>1, <1>4, <3>2, <3>7 DEF CostInv
      <4> QED BY <3>2, <3>3, <3>7, <4>1, <4>2, <4>3
    <3> QED BY <3>3, <3>5, <3>6, <3>7
  <2>2. DOMAIN T \subseteq Nat /\ n \in Nat
    BY <1>2, <1>4
  <2>3. \A x, m \in DOMAIN U : x < m /\ U[x].cost # 0 => U[m].cost # 0
    <3> SUFFICES ASSUME NEW x \in DOMAIN U, NEW m \in DOMAIN U, x < m, U[x].cost # 0
                 PROVE  U[m].cost # 0
      OBVIOUS
    <3>1. x \in Nat /\ m \in Nat /\ x \in DOMAIN T /\ m \in DOMAIN T
      BY <1>7, <2>2
    <3>2. x >= n
      BY <2>1, <2>2, <3>1
    <3>3. m >= n
      BY <2>2, <3>1, <3>2
    <3> QED BY <2>1, <3>1, <3>3
  <2>4. \A m \in DOMAIN U : U[m].cost # 0 =>
          U[m].cost = IF U[m].branch = 0 THEN 1 ELSE BranchCost(U, arr, m, U[m].branch)
    <3> SUFFICES ASSUME NEW m \in DOMAIN U, U[m].cost # 0
                 PROVE  U[m].cost = IF U[m].branch = 0 THEN 1
                                    ELSE BranchCost(U, arr, m, U[m].branch)
      OBVIOUS
    <3>1. m \in Nat /\ m \in DOMAIN T
      BY <1>7, <2>2
    <3>2. m >= n
      BY <2>1, <2>2, <3>1
    <3> QED BY <2>1, <3>1, <3>2
  <2>5. \A m \in DOMAIN U : U[m].cost # 0 /\ U[m].branch = 0 => IsLeaf(U[m])
    <3> SUFFICES ASSUME NEW m \in DOMAIN U, U[m].cost # 0, U[m].branch = 0
                 PROVE  IsLeaf(U[m])
      OBVIOUS
    <3>1. m \in DOMAIN T /\ U[m].left = T[m].left /\ U[m].right = T[m].right
      BY <1>7, <1>9 DEF SameShape
    <3>2. IsLeaf(T[m])
      <4>1. CASE m = n
        BY <1>3, <1>4, <1>8, <4>1
      <4>2. CASE m # n
        <5>1. T[m].cost # 0 /\ T[m].branch = 0
          BY <1>7, <3>1, <4>2
        <5> QED BY <1>1, <1>4, <3>1, <5>1 DEF CostInv
      <4> QED BY <4>1, <4>2
    <3> QED BY <3>1, <3>2 DEF IsLeaf
  <2>6. (\A m \in DOMAIN arena : arena[m].cost # 0 /\ arena[m].branch = 0 => IsLeaf(arena[m]))'
    BY <1>5, <2>5 DEF IsLeaf
  <2>7. (\A m \in DOMAIN arena : arena[m].cost # 0 =>
           arena[m].cost = IF arena[m].branch = 0 THEN 1
                           ELSE BranchCost(arena, arr, m, arena[m].branch))'
    BY <1>1, <1>5, <2>4
  <2>8. (\A x, m \in DOMAIN arena : x < m /\ arena[x].cost # 0 => arena[m].cost # 0)'
    BY <1>5, <2>3
  <2> QED BY <1>1, <2>6, <2>7, <2>8 DEF CostInv
<1> QED BY <1>14, <1>15, <1>16, <1>17

----------------------------------------------------------------------------
(* The trie as the other steps of cidr_index_create find and leave it.     *)

LEMMA BuildKeepsCosts ==
  ASSUME ArrayInv, HeapInv, TrieInv, BuildInv, CostInv, BuildNode
  PROVE  CostInv'
<1>1. /\ phase = "build" /\ phase' = "build" /\ calls # <<>> /\ Built
  BY DEF BuildNode, Built
<1>2. /\ DOMAIN arena' = DOMAIN arena \cup {PatCount}
      /\ arena'[PatCount] = NewNode
      /\ \A n \in DOMAIN arena : arena'[n].cost = arena[n].cost
  BY NewArena
<1>3. NewNode.cost = 0
  BY <1>1, NewNodeIs
<1>4. \A n \in DOMAIN arena' : arena'[n].cost = 0
  BY <1>1, <1>2, <1>3 DEF CostInv
<1> QED BY <1>1, <1>4 DEF CostInv

LEMMA ResolveStarts ==
  ASSUME ArrayInv, HeapInv, TrieInv, ResolveDuplicates
  PROVE  TrieInv' /\ BuildInv' /\ RouteInv' /\ CostInv'
<1>1. /\ phase = "sort" /\ phase' = "build" /\ arena = Empty /\ arena' = Empty
      /\ calls' = <<BuildCall(0, count, 0, None, 0)>>
      /\ count' = count /\ nodeLimit' = nodeLimit
  BY DEF ResolveDuplicates, given, TrieInv
<1>2. /\ arr' = WithFamily(arr, family)
      /\ count \in Nat /\ count > 0 /\ DOMAIN arr = 0 .. count - 1
      /\ \A k \in 0 .. count - 1 : arr[k].addr \in Address /\ arr[k].pfxlen \in 0 .. KeyBits
  <2>1. arr' = WithFamily(arr, family) /\ count > 0
    BY DEF ResolveDuplicates, ArrayInv
  <2>2. \A k \in 0 .. count - 1 : arr[k] \in Cell
    BY ArrayShape
  <2> QED BY <2>1, <2>2, ArrayShape DEF Cell, Pfxlen, MaxPfxlen
<1>3. /\ DOMAIN arr' = 0 .. count - 1
      /\ \A k \in 0 .. count - 1 : arr'[k].addr \in Address /\ arr'[k].pfxlen \in 0 .. KeyBits
  <2>1. \A k \in 0 .. count - 1 : arr'[k] = [arr[k] EXCEPT !.fam = family] /\ arr[k] \in Cell
    BY <1>2, ArrayShape DEF WithFamily
  <2>2. \A k \in 0 .. count - 1 : arr'[k].addr = arr[k].addr /\ arr'[k].pfxlen = arr[k].pfxlen
    BY <2>1 DEF Cell
  <2>3. DOMAIN arr' = DOMAIN arr
    BY <1>2 DEF WithFamily
  <2> QED BY <1>2, <2>2, <2>3
<1>4. PICK c : c = BuildCall(0, count, 0, None, 0)
  OBVIOUS
<1>5. c.lo = 0 /\ c.hi = count /\ c.bit = 0 /\ c.parent = None /\ c.side = 0
  BY <1>4 DEF BuildCall
<1>6. /\ calls' \in Seq(CallType) /\ Len(calls') = 1 /\ calls'[1] = c /\ calls' # <<>>
      /\ Head(calls') = c
  <2>1. c \in CallType
    BY <1>2, <1>4, Shape DEF BuildCall, CallType
  <2> QED BY <1>1, <1>4, <2>1
<1>7. IsRange(c.lo, c.hi, c.bit)'
  <2>1. \A k \in 0 .. count - 1 : LeadingBits(arr'[k].addr, 0) = 0
    BY <1>3, NoBits
  <2>2. \A k \in 0 .. count - 1 : Shares(k, arr[0].addr, 0)'
    <3>1. 0 \in 0 .. count - 1
      BY <1>2
    <3> QED BY <1>3, <2>1, <3>1, Shape DEF Shares
  <2>3. (\A k \in DOMAIN arr : k \in 0 .. count - 1 <=> Shares(k, arr[0].addr, 0))'
    BY <1>1, <1>3, <2>2
  <2>4. IsRange(0, count, 0)'
    BY <1>1, <1>2, <2>3, Shape DEF IsRange
  <2> QED BY <1>1, <1>5, <2>4 DEF IsRange
<1>8. PendingOK(c)'
  BY <1>1, <1>3, <1>5, <1>7 DEF PendingOK, RangeOf
<1>9. DOMAIN arena' = {} /\ PatCount' = 0
  BY <1>1, FS_EmptySet DEF Empty, PatCount
<1>10. TrieInv'
  <2>1. ArenaFits'
    <3>1. MaxPatNodes = Min({2 * count + 2, nodeLimit}) /\ nodeLimit \in Nat
      BY LimitAssumption DEF MaxPatNodes, TrieInv
    <3>2. MaxPatNodes \in Nat
      <4>1. 2 * count + 2 \in Nat
        BY <1>2
      <4> QED BY <3>1, <4>1, MinOfTwo
    <3>3. MaxPatNodes' = MaxPatNodes
      BY <1>1 DEF MaxPatNodes
    <3> QED BY <1>9, <3>2, <3>3 DEF ArenaFits
  <2>2. TrieOK(arena)'
    BY <1>1, <1>9 DEF TrieOK, Empty
  <2> QED BY <1>1, <1>9, <2>1, <2>2 DEF TrieInv
<1>11. BuildInv'
  <2>1. \A d \in 1 .. Len(calls') : calls'[d] = c /\ d = 1
    BY <1>6
  <2>2. \A d \in 1 .. Len(calls') : PendingOK(calls[d])'
    BY <1>8, <2>1 DEF PendingOK
  <2>3. \A d \in 1 .. Len(calls') : calls'[d].hi + (Len(calls') - d) <= count'
    BY <1>1, <1>2, <1>5, <1>6, <2>1
  <2>4. \A k \in DOMAIN arr' : \E d \in 1 .. Len(calls') : k \in RangeOf(calls'[d])
    <3>1. 1 \in 1 .. Len(calls')
      BY <1>6
    <3> QED BY <1>3, <1>5, <1>6, <3>1 DEF RangeOf
  <2>5. PatCount' + 1 <= 2 * Top'.lo + Len(calls')
    BY <1>5, <1>6, <1>9 DEF Top
  <2>6. /\ \A d, e \in 1 .. Len(calls') : d < e => calls'[d].hi <= calls'[e].lo
        /\ \A d \in 1 .. Len(calls') : \A k \in RangeOf(calls'[d]), n \in DOMAIN arena' :
             ~StoredAt(arena, n, k)'
    BY <1>9, <2>1
  <2> QED BY <1>1, <1>6, <2>2, <2>3, <2>4, <2>5, <2>6 DEF BuildInv
<1> QED BY <1>1, <1>9, <1>10, <1>11 DEF RouteInv, CostInv

TrieInvs == TrieInv /\ BuildInv /\ RouteInv /\ CostInv

\* Steps that leave the trie alone, within a phase or out of the build.
LEMMA TrieStays ==
  ASSUME TrieInvs, UNCHANGED <<arr, count, nodeLimit, arena>>,
         \/ phase' = phase /\ (phase = "build" => calls' = calls)
         \/ phase' = "pack" /\ Costed
         \/ phase' \in {"done", "destroyed"}
         \/ phase' \in {"call", "alloc", "sort"} /\ phase \in {"call", "alloc", "sort"}
  PROVE  TrieInvs'
<1>1. ArenaFits' = ArenaFits /\ PatCount' = PatCount
  BY DEF ArenaFits, PatCount, MaxPatNodes
<1>2. TrieOK(arena)' = TrieOK(arena)
  BY DEF TrieOK, NodeType, LeadsTo, StoredAt, IsBelow, Shares, Child
<1>3. \A k : LeadsTo(arena, 0, k)' = LeadsTo(arena, 0, k)
  BY DEF LeadsTo, Shares
<1>4. TrieInv'
  BY <1>1, <1>2, <1>3 DEF TrieInvs, TrieInv, Costed
<1>5. BuildInv'
  <2> SUFFICES ASSUME phase' = "build" PROVE BuildInv'
    BY DEF BuildInv
  <2>1. phase = "build" /\ calls' = calls
    OBVIOUS
  <2>2. /\ Top' = Top
        /\ \A d : PendingOK(calls[d])' = PendingOK(calls[d])
        /\ \A k, n : StoredAt(arena, n, k)' = StoredAt(arena, n, k)
        /\ \A d : RangeOf(calls[d])' = RangeOf(calls[d])
    BY <2>1 DEF Top, PendingOK, IsRange, RangeOf, GoesTo, LeadsTo, Shares, StoredAt
  <2> QED BY <1>1, <2>1, <2>2 DEF TrieInvs, BuildInv
<1>6. \A n, side, k : GoesTo(arena, n, side, k)' = GoesTo(arena, n, side, k)
  BY DEF GoesTo, LeadsTo, Shares
<1>7. \A n, side, k : LeadsTo(arena, Child(arena[n], side), k)' = LeadsTo(arena, Child(arena[n], side), k)
  BY DEF LeadsTo, Shares, Child
<1>8. \A n, side : Child(arena[n], side)' = Child(arena[n], side)
  BY DEF Child
<1>9. RouteInv'
  <2>1. ASSUME NEW n \in DOMAIN arena', NEW side \in 0 .. 1, NEW k \in DOMAIN arr',
               GoesTo(arena, n, side, k)', phase' \in {"build", "pack"}
        PROVE  \/ Child(arena[n], side)' # None /\ LeadsTo(arena, Child(arena[n], side), k)'
               \/ /\ phase' = "build"
                  /\ \E d \in 1 .. Len(calls') : calls'[d].parent = n /\ calls'[d].side = side
    <3>1. phase \in {"build", "pack"} /\ n \in DOMAIN arena /\ k \in DOMAIN arr
          /\ GoesTo(arena, n, side, k)
      BY <1>6, <2>1 DEF Costed
    <3>2. \/ Child(arena[n], side) # None /\ LeadsTo(arena, Child(arena[n], side), k)
          \/ phase = "build" /\ \E d \in 1 .. Len(calls) : calls[d].parent = n /\ calls[d].side = side
      BY <3>1 DEF TrieInvs, RouteInv
    <3>3. CASE Child(arena[n], side) # None /\ LeadsTo(arena, Child(arena[n], side), k)
      BY <1>7, <1>8, <3>3
    <3>4. CASE phase = "build" /\ \E d \in 1 .. Len(calls) : calls[d].parent = n /\ calls[d].side = side
      <4>1. Len(calls) # 0
        BY <3>4
      <4>2. phase' = "build" /\ calls' = calls
        BY <2>1, <3>4, <4>1 DEF Costed
      <4> QED BY <3>4, <4>2
    <3> QED BY <3>2, <3>3, <3>4
  <2> QED BY <2>1 DEF RouteInv
<1>10. CostInv'
  <2>1. CASE phase' = phase /\ (phase = "build" => calls' = calls)
    BY <2>1 DEF TrieInvs, CostInv
  <2>2. CASE phase' = "pack" /\ Costed
    BY <2>2 DEF TrieInvs, CostInv, Costed, Uncosted
  <2> QED BY <2>1, <2>2 DEF CostInv
<1> QED BY <1>4, <1>5, <1>9, <1>10 DEF TrieInvs

LEMMA TrieAtFirst == Init => TrieInvs
<1> SUFFICES ASSUME Init PROVE TrieInvs
  OBVIOUS
<1>1. phase = "call" /\ arena = Empty /\ nodeLimit \in NodeLimits /\ ArrayInv
  BY ArrayAtFirst DEF Init
<1>2. PatCount = 0
  BY <1>1, FS_EmptySet DEF PatCount, Empty
<1>3. MaxPatNodes \in Nat
  <2>1. 2 * count + 2 \in Nat /\ nodeLimit \in Nat
    BY <1>1, ArrayShape, LimitAssumption
  <2> QED BY <2>1, MinOfTwo DEF MaxPatNodes
<1> QED BY <1>1, <1>2, <1>3 DEF TrieInvs, TrieInv, BuildInv, RouteInv, CostInv, ArenaFits

LEMMA TrieStep == ArrayInv /\ HeapInv /\ TrieInvs /\ [Next]_vars => TrieInvs'
<1> SUFFICES ASSUME ArrayInv, HeapInv, TrieInvs, [Next]_vars PROVE TrieInvs'
  OBVIOUS
<1>1. CASE UNCHANGED vars
  <2>1. UNCHANGED <<arr, count, nodeLimit, arena, phase, calls>>
    BY <1>1 DEF vars, given, idxVars, engineVars
  <2> QED BY <2>1, TrieStays
<1>2. CASE RejectCount \/ RejectFamily
  <2>1. UNCHANGED <<arr, count, nodeLimit, arena>> /\ phase' = "done"
    BY <1>2 DEF RejectCount, RejectFamily, Refuse, Leave, given, engineVars
  <2> QED BY <2>1, TrieStays
<1>3. CASE Accept \/ Allocate
  <2>1. UNCHANGED <<arr, count, nodeLimit, arena>> /\ phase \in {"call", "alloc"} /\ phase' = "alloc"
    BY <1>3 DEF Accept, Allocate, given, engineVars
  <2> QED BY <2>1, TrieStays
<1>4. CASE AllocateFails \/ ArenaFails \/ BuildOverflows \/ CostOverflows \/ NodesFail
  <2>1. UNCHANGED <<arr, count, nodeLimit, arena>> /\ phase' = "done"
    BY <1>4 DEF AllocateFails, ArenaFails, BuildOverflows, CostOverflows, NodesFail,
                Cleanup, Leave, given, engineVars
  <2> QED BY <2>1, TrieStays
<1>5. CASE BeginSort \/ SortStep
  <2>1. /\ UNCHANGED <<count, nodeLimit, arena>> /\ phase \in {"alloc", "sort"} /\ phase' = "sort"
    BY <1>5 DEF BeginSort, SortStep, given, idxVars
  <2>2. ArenaFits' /\ arena' = Empty /\ nodeLimit' \in NodeLimits
    BY <2>1 DEF TrieInvs, TrieInv, ArenaFits, PatCount, MaxPatNodes
  <2> QED BY <2>1, <2>2 DEF TrieInvs, TrieInv, BuildInv, RouteInv, CostInv
<1>6. CASE ResolveDuplicates
  BY <1>6, ResolveStarts DEF TrieInvs
<1>7. CASE BuildNode
  BY <1>7, BuildKeepsTrie, BuildKeepsCalls, BuildKeepsRoutes, BuildKeepsCosts DEF TrieInvs
<1>8. CASE CostNode
  BY <1>8, CostKeeps DEF TrieInvs
<1>9. CASE BeginPack
  <2>1. UNCHANGED <<arr, count, nodeLimit, arena>> /\ phase' = "pack" /\ Costed
    BY <1>9 DEF BeginPack, given, engineVars
  <2> QED BY <2>1, TrieStays
<1>10. CASE PackNode \/ PackDead
  <2>1. UNCHANGED <<arr, count, nodeLimit, arena, phase>> /\ phase = "pack"
    BY <1>10 DEF PackNode, PackDead, given, engineVars
  <2> QED BY <2>1, TrieStays
<1>11. CASE Publish
  <2>1. /\ UNCHANGED <<count, nodeLimit>> /\ arena' = Empty /\ phase' = "done"
    BY <1>11 DEF Publish, given
  <2>2. PatCount' = 0
    BY <2>1, FS_EmptySet DEF PatCount, Empty
  <2>3. MaxPatNodes' = MaxPatNodes /\ nodeLimit \in Nat /\ 2 * count + 2 \in Nat
    BY <2>1, ArrayShape, LimitAssumption DEF MaxPatNodes, TrieInvs, TrieInv
  <2>4. MaxPatNodes \in Nat
    BY <2>3, MinOfTwo DEF MaxPatNodes
  <2> QED BY <2>1, <2>2, <2>3, <2>4 DEF TrieInvs, TrieInv, BuildInv, RouteInv, CostInv, ArenaFits
<1>12. CASE Destroy
  <2>1. UNCHANGED <<arr, count, nodeLimit, arena>> /\ phase' = "destroyed"
    BY <1>12 DEF Destroy, given, engineVars
  <2> QED BY <2>1, TrieStays
<1> QED BY <1>1, <1>2, <1>3, <1>4, <1>5, <1>6, <1>7, <1>8, <1>9, <1>10, <1>11, <1>12
        DEF Next, CreateNext

LEMMA TrieAlways == SystemSpec => []TrieInvs
<1>1. LookupInit => TrieInvs
  BY TrieAtFirst DEF LookupInit
<1>2. ArrayInv /\ HeapInv /\ TrieInvs /\ [SystemNext]_allVars => TrieInvs'
  BY TrieStep, SystemStep DEF Next, allVars
<1> QED BY <1>1, <1>2, ArrayAlways, HeapAlways, PTL DEF SystemSpec

\* Every prefix of the index ends at exactly one node of the finished trie, at the
\* bit of its length, and below a node all prefixes have the bits that lead there.
THEOREM PrefixesAreStored == SystemSpec => []PrefixesStored
<1>1. ArrayInv /\ TrieInvs => PrefixesStored
  <2> SUFFICES ASSUME ArrayInv, TrieInvs, Costed PROVE PrefixesStored
    BY DEF PrefixesStored
  <2>1. /\ phase = "build" /\ Len(calls) = 0 /\ TrieOK(arena) /\ TrieInv /\ BuildInv /\ Built
    BY DEF TrieInvs, TrieInv, Costed, Built
  <2>2. ASSUME NEW n \in DOMAIN arena, NEW side \in 0 .. 1, Child(arena[n], side) # None
        PROVE  /\ arena[Child(arena[n], side)].bit > arena[n].bit
               /\ AddrBit(arr[arena[Child(arena[n], side)].repr].addr, arena[n].bit) = side
    <3>1. PICK c : c = Child(arena[n], side)
      OBVIOUS
    <3>2. IsBelow(arena, n, side, c)
      BY <2>1, <2>2, <3>1 DEF TrieOK
    <3>3. c \in DOMAIN arena /\ arena[c].bit \in Nat /\ arena[n].bit \in Nat
      <4>1. c \in DOMAIN arena
        BY <2>1, <2>2, <3>1 DEF TrieOK, NodeType, Child
      <4> QED BY <2>1, <4>1, Shape DEF TrieOK, NodeType
    <3> QED BY <3>1, <3>2, <3>3 DEF IsBelow
  <2>3. ASSUME NEW k \in DOMAIN arr
        PROVE  \E n \in DOMAIN arena :
                 /\ arena[n].prefix # None
                 /\ SameKey(arr[arena[n].prefix], arr[k])
                 /\ arena[n].bit = arr[k].pfxlen
                 /\ \A m \in DOMAIN arena \ {n} :
                      arena[m].prefix # None => ~SameKey(arr[arena[m].prefix], arr[k])
    <3>1. PICK n \in DOMAIN arena : StoredAt(arena, n, k)
      BY <2>1 DEF BuildInv
    <3>2. arena[n].bit = arr[k].pfxlen
      BY <2>1, <3>1 DEF TrieOK, StoredAt, SameKey
    <3>3. \A m \in DOMAIN arena \ {n} : ~StoredAt(arena, m, k)
      BY <2>1, <3>1 DEF TrieOK
    <3> QED BY <3>1, <3>2, <3>3 DEF StoredAt
  <2> QED BY <2>2, <2>3 DEF PrefixesStored
<1> QED BY <1>1, ArrayAlways, TrieAlways, PTL

----------------------------------------------------------------------------
(* The packed array.  Slot s of it stands for a place in the trie: the     *)
(* node g[s].pat, or no node, met when g[s].depth bits were consumed.      *)

\* A trie that is finished: every prefix is led on to the node that stores it,
\* and a node without slots is a leaf.
FullTrie(T) ==
  /\ TrieOK(T) /\ DOMAIN T \subseteq Nat
  /\ 0 \in DOMAIN T /\ \A k \in DOMAIN arr : LeadsTo(T, 0, k)
  /\ \A n \in DOMAIN T, side \in 0 .. 1, k \in DOMAIN arr :
       GoesTo(T, n, side, k) => Child(T[n], side) # None /\ LeadsTo(T, Child(T[n], side), k)
  /\ \A n \in DOMAIN T : T[n].branch = 0 => IsLeaf(T[n])

PlaceType(T) == [pat : DOMAIN T \cup {None}, depth : 0 .. KeyBits]
PlaceOf(pat, depth) == [pat |-> pat, depth |-> depth]

\* Slot s holds node p: the node of its place, whose slots are reserved.
StandsFor(T, g, s, p) ==
  IF g[s].pat = None THEN p = DeadLeaf
  ELSE LET node == T[g[s].pat]
       IN  /\ p.prefix = node.prefix /\ p.branch = node.branch
           /\ p.skip = Skip(node.bit, g[s].depth)
           /\ node.branch > 0 =>
                /\ p.base \in Nat
                /\ \A k \in 0 .. 2^node.branch - 1 :
                     /\ p.base + k \in DOMAIN g
                     /\ g[p.base + k] = PlaceOf(SlotTarget(T, arr, g[s].pat, node.branch, k),
                                                node.bit + node.branch)

Places(T, g) ==
  /\ FullTrie(T)
  /\ packedNext \in Nat \ {0} /\ g \in [0 .. packedNext - 1 -> PlaceType(T)]
  /\ g[0] = PlaceOf(0, 0)
  /\ DOMAIN packed \subseteq 0 .. packedNext - 1
  /\ \A s \in DOMAIN packed : StandsFor(T, g, s, packed[s])

PackType(T) == [pat : DOMAIN T \cup {None}, slot : Nat, depth : 0 .. KeyBits]

\* Every reserved slot is written, or a call that is still to be made writes it.
CallsPlaced(g) ==
  /\ calls \in Seq(PackType(arena))
  /\ \A d \in 1 .. Len(calls) : /\ calls[d].slot \in DOMAIN g \ DOMAIN packed
                                /\ g[calls[d].slot] = PlaceOf(calls[d].pat, calls[d].depth)
  /\ \A d, e \in 1 .. Len(calls) : calls[d].slot = calls[e].slot => d = e
  /\ \A s \in DOMAIN g : s \in DOMAIN packed \/ \E d \in 1 .. Len(calls) : calls[d].slot = s

PackInv ==
  /\ phase \in {"call", "alloc", "sort", "build"} => packed = Empty
  /\ phase = "pack" => \E g : Places(arena, g) /\ CallsPlaced(g)
  /\ published => \E T, g : Places(T, g) /\ DOMAIN packed = DOMAIN g

LEMMA FinishedIsFull ==
  ASSUME ArrayInv, HeapInv, TrieInvs, Costed
  PROVE  FullTrie(arena)
<1>1. /\ phase = "build" /\ Len(calls) = 0 /\ Built /\ TrieOK(arena)
      /\ PatCount \in Nat /\ DOMAIN arena = 0 .. PatCount - 1
  BY DEF Costed, Built, TrieInvs, TrieInv
<1>2. 0 \in DOMAIN arena
  <2>1. 0 \in DOMAIN arr
    BY <1>1, SortedShape
  <2>2. PICK n \in DOMAIN arena : StoredAt(arena, n, 0)
    BY <1>1, <2>1 DEF TrieInvs, BuildInv
  <2> QED BY <1>1, <2>2
<1>3. \A k \in DOMAIN arr : LeadsTo(arena, 0, k)
  BY <1>1, <1>2 DEF TrieInvs, TrieInv
<1>4. \A n \in DOMAIN arena, side \in 0 .. 1, k \in DOMAIN arr :
        GoesTo(arena, n, side, k) =>
          Child(arena[n], side) # None /\ LeadsTo(arena, Child(arena[n], side), k)
  BY <1>1 DEF TrieInvs, RouteInv
<1>5. \A n \in DOMAIN arena : arena[n].branch = 0 => IsLeaf(arena[n])
  BY <1>1 DEF TrieInvs, CostInv, Costed, Uncosted
<1> QED BY <1>1, <1>2, <1>3, <1>4, <1>5 DEF FullTrie

LEMMA BeginPackPlaces ==
  ASSUME ArrayInv, HeapInv, TrieInvs, PackInv, BeginPack
  PROVE  PackInv'
<1>1. /\ Costed /\ phase' = "pack" /\ arr' = arr /\ arena' = arena /\ packedNext' = 1
      /\ calls' = <<PackCall(0, 0, 0)>> /\ packed' = packed /\ packed = Empty
      /\ ~published'
  BY DEF BeginPack, Costed, engineVars, PackInv, HeapInv
<1>2. FullTrie(arena)
  BY <1>1, FinishedIsFull
<1>3. PICK T : T = arena
  OBVIOUS
<1>4. FullTrie(T)'
  BY <1>1, <1>2, <1>3 DEF FullTrie, TrieOK, NodeType, LeadsTo, GoesTo, StoredAt, Shares, IsBelow, SameKey
<1>5. PICK g : g = [s \in 0 .. 0 |-> PlaceOf(0, 0)]
  OBVIOUS
<1>6. 0 \in DOMAIN T /\ 0 \in 0 .. KeyBits
  BY <1>2, <1>3, Shape DEF FullTrie
<1>7. PICK c : c = PackCall(0, 0, 0)
  OBVIOUS
<1>8. /\ calls' = <<c>> /\ c \in PackType(T) /\ c.slot = 0 /\ PlaceOf(c.pat, c.depth) = PlaceOf(0, 0)
  BY <1>1, <1>6, <1>7 DEF PackCall, PackType, PlaceOf
<1>9. g \in [0 .. packedNext' - 1 -> PlaceType(T)] /\ g[0] = PlaceOf(0, 0) /\ DOMAIN g = {0}
  <2>1. PlaceOf(0, 0) \in PlaceType(T)
    BY <1>6 DEF PlaceOf, PlaceType
  <2>2. 0 .. 0 = 0 .. packedNext' - 1 /\ 0 .. 0 = {0}
    BY <1>1
  <2> QED BY <1>5, <2>1, <2>2
<1>10. DOMAIN packed' = {}
  BY <1>1 DEF Empty
<1>11. Places(T, g)'
  BY <1>1, <1>4, <1>9, <1>10 DEF Places
<1>12. CallsPlaced(g)'
  <2>1. /\ calls' \in Seq(PackType(T)) /\ Len(calls') = 1
        /\ \A d \in 1 .. Len(calls') : d = 1 /\ calls'[d] = c
        /\ 1 \in 1 .. Len(calls')
    BY <1>8
  <2>2. PackType(T) = PackType(arena)'
    BY <1>1, <1>3 DEF PackType
  <2> HIDE DEF PackType
  <2> QED BY <1>8, <1>9, <1>10, <2>1, <2>2 DEF CallsPlaced
<1>13. (\E h : Places(arena, h) /\ CallsPlaced(h))'
  BY <1>1, <1>3, <1>11, <1>12
<1> QED BY <1>1, <1>13 DEF PackInv

\* The node that is packed next.
LEMMA TopPlaced ==
  ASSUME NEW g, Places(arena, g), CallsPlaced(g), calls # <<>>
  PROVE  /\ Len(calls) \in Nat /\ Len(calls) >= 1 /\ 1 \in 1 .. Len(calls)
         /\ Top = calls[1] /\ Top \in PackType(arena)
         /\ Top.slot \in DOMAIN g /\ Top.slot \notin DOMAIN packed
         /\ g[Top.slot] = PlaceOf(Top.pat, Top.depth)
         /\ g[Top.slot].pat = Top.pat /\ g[Top.slot].depth = Top.depth
<1>1. PICK Q : Q = PackType(arena)
  OBVIOUS
<1>2. calls \in Seq(Q)
  BY <1>1 DEF CallsPlaced
<1>3. /\ Len(calls) \in Nat /\ Len(calls) >= 1 /\ 1 \in 1 .. Len(calls)
      /\ Top = calls[1] /\ Top \in Q
  BY <1>2 DEF Top
<1>4. /\ Top.slot \in DOMAIN g /\ Top.slot \notin DOMAIN packed
      /\ g[Top.slot] = PlaceOf(Top.pat, Top.depth)
  BY <1>3 DEF CallsPlaced
<1> QED BY <1>1, <1>3, <1>4 DEF PlaceOf

Grows(T, g, h, size) == /\ h \in [0 .. size - 1 -> PlaceType(T)]
                        /\ \A s \in DOMAIN g : h[s] = g[s]

\* What packing one call does to the array: the slot is written, and the slots
\* that were reserved for it stand for what its own calls will write.
LEMMA SlotWritten ==
  ASSUME NEW T, NEW g, NEW h, NEW c, NEW node,
         Places(T, g), T = arena, CallsPlaced(g), calls # <<>>, c = Top,
         arr' = arr, packed' = Written(c.slot, node),
         packedNext' \in Nat, packedNext' >= packedNext, Grows(T, g, h, packedNext'),
         StandsFor(T, h, c.slot, node)
  PROVE  /\ Places(T, h)'
         /\ DOMAIN packed' = DOMAIN packed \cup {c.slot}
<1>1. DOMAIN packed' = DOMAIN packed \cup {c.slot}
  BY DEF Written
<1>2. /\ FullTrie(T) /\ packedNext \in Nat \ {0} /\ g \in [0 .. packedNext - 1 -> PlaceType(T)]
      /\ DOMAIN g = 0 .. packedNext - 1 /\ g[0] = PlaceOf(0, 0)
      /\ DOMAIN packed \subseteq DOMAIN g /\ DOMAIN g \subseteq DOMAIN h
      /\ h \in [0 .. packedNext' - 1 -> PlaceType(T)] /\ \A s \in DOMAIN g : h[s] = g[s]
  <2>1. /\ FullTrie(T) /\ packedNext \in Nat \ {0} /\ g \in [0 .. packedNext - 1 -> PlaceType(T)]
        /\ g[0] = PlaceOf(0, 0) /\ DOMAIN packed \subseteq 0 .. packedNext - 1
    BY DEF Places
  <2>2. h \in [0 .. packedNext' - 1 -> PlaceType(T)] /\ \A s \in DOMAIN g : h[s] = g[s]
    BY DEF Grows
  <2>3. DOMAIN g = 0 .. packedNext - 1 /\ DOMAIN h = 0 .. packedNext' - 1
    BY <2>1, <2>2
  <2>4. DOMAIN g \subseteq DOMAIN h
    BY <2>1, <2>3
  <2> QED BY <2>1, <2>2, <2>3, <2>4
<1>3. c.slot \in DOMAIN g /\ c.slot \notin DOMAIN packed
  BY TopPlaced
<1>4. FullTrie(T)'
  BY <1>2, SMTT(30) DEF FullTrie, TrieOK, NodeType, LeadsTo, GoesTo, StoredAt, Shares, IsBelow, SameKey
<1>5. ASSUME NEW s \in DOMAIN packed'
      PROVE  StandsFor(T, h, s, packed[s])'
  <2>1. CASE s = c.slot
    <3>1. packed'[s] = node
      BY <2>1 DEF Written
    <3> QED BY <2>1, <3>1 DEF StandsFor
  <2>2. CASE s \in DOMAIN packed
    <3>1. packed'[s] = packed[s]
      BY <1>3, <2>2 DEF Written
    <3>2. PICK p : p = packed[s]
      OBVIOUS
    <3>3. StandsFor(T, g, s, p)
      BY <2>2, <3>2 DEF Places
    <3>4. h[s] = g[s]
      BY <1>2, <2>2
    <3>5. StandsFor(T, h, s, p)
      <4>1. \A x \in DOMAIN g : x \in DOMAIN h /\ h[x] = g[x]
        BY <1>2
      <4> QED BY <3>3, <3>4, <4>1 DEF StandsFor
    <3> QED BY <3>1, <3>2, <3>5 DEF StandsFor
  <2> QED BY <1>1, <2>1, <2>2
<1>6. DOMAIN packed' \subseteq 0 .. packedNext' - 1
  BY <1>1, <1>2, <1>3
<1>7. h[0] = PlaceOf(0, 0) /\ packedNext' \in Nat \ {0}
  <2>1. 0 \in DOMAIN g
    BY <1>2
  <2>2. h[0] = g[0]
    BY <2>1
  <2> QED BY <1>2, <2>2
<1> QED BY <1>1, <1>2, <1>4, <1>5, <1>6, <1>7 DEF Places

LEMMA PackDeadPlaces ==
  ASSUME HeapInv, PackInv, PackDead
  PROVE  PackInv'
<1>1. /\ phase = "pack" /\ phase' = "pack" /\ arr' = arr /\ arena' = arena
      /\ packedNext' = packedNext /\ calls # <<>> /\ calls' = Tail(calls) /\ Top.pat = None
      /\ packed' = Written(Top.slot, DeadLeaf) /\ ~published'
  BY DEF PackDead, engineVars, HeapInv
<1>2. PICK g : Places(arena, g) /\ CallsPlaced(g)
  BY <1>1 DEF PackInv
<1>3. PICK T : T = arena
  OBVIOUS
<1>4. PICK c : c = Top
  OBVIOUS
<1>5. /\ Len(calls) \in Nat /\ Len(calls) >= 1 /\ c = calls[1]
      /\ c.slot \in DOMAIN g /\ c.slot \notin DOMAIN packed
      /\ g[c.slot].pat = None
  BY <1>1, <1>2, <1>4, TopPlaced
<1>6. /\ packedNext \in Nat \ {0} /\ g \in [0 .. packedNext - 1 -> PlaceType(T)]
  BY <1>2, <1>3 DEF Places
<1>7. StandsFor(T, g, c.slot, DeadLeaf)
  BY <1>5 DEF StandsFor
<1>8. PICK node : node = DeadLeaf
  OBVIOUS
<1>9. Places(T, g)' /\ DOMAIN packed' = DOMAIN packed \cup {c.slot}
  <2>1. packedNext' \in Nat /\ packedNext' >= packedNext /\ Grows(T, g, g, packedNext')
    BY <1>1, <1>6 DEF Grows
  <2>2. packed' = Written(c.slot, node) /\ StandsFor(T, g, c.slot, node)
    BY <1>1, <1>4, <1>7, <1>8
  <2> QED BY <1>1, <1>2, <1>3, <1>4, <2>1, <2>2, SlotWritten
<1>10. PICK Q : Q = PackType(arena)
  OBVIOUS
<1>11. calls \in Seq(Q)
  BY <1>2, <1>10 DEF CallsPlaced
<1>12. /\ calls' \in Seq(Q) /\ Len(calls') = Len(calls) - 1
       /\ \A d \in 1 .. Len(calls') : d + 1 \in 1 .. Len(calls) /\ calls'[d] = calls[d + 1]
  BY <1>1, <1>11
<1>13. CallsPlaced(g)'
  <2>1. ASSUME NEW d \in 1 .. Len(calls')
        PROVE  /\ calls'[d].slot \in DOMAIN g \ DOMAIN packed'
               /\ g[calls'[d].slot] = PlaceOf(calls'[d].pat, calls'[d].depth)
    <3>1. PICK e \in 1 .. Len(calls) : e = d + 1 /\ e # 1 /\ calls'[d] = calls[e]
      BY <1>12, <2>1
    <3>2. /\ calls[e].slot \in DOMAIN g \ DOMAIN packed
          /\ g[calls[e].slot] = PlaceOf(calls[e].pat, calls[e].depth)
      BY <1>2, <3>1 DEF CallsPlaced
    <3>3. calls[e].slot # c.slot
      <4>1. 1 \in 1 .. Len(calls)
        BY <1>5
      <4> QED BY <1>2, <1>5, <3>1, <4>1 DEF CallsPlaced
    <3> QED BY <1>9, <3>1, <3>2, <3>3
  <2>2. ASSUME NEW d \in 1 .. Len(calls'), NEW e \in 1 .. Len(calls'), calls'[d].slot = calls'[e].slot
        PROVE  d = e
    <3>1. d + 1 = e + 1
      BY <1>2, <1>12, <2>2 DEF CallsPlaced
    <3> QED BY <1>5, <1>12, <3>1
  <2>3. ASSUME NEW s \in DOMAIN g
        PROVE  s \in DOMAIN packed' \/ \E d \in 1 .. Len(calls') : calls'[d].slot = s
    <3>1. CASE s \in DOMAIN packed
      BY <1>9, <3>1
    <3>2. ASSUME NEW e \in 1 .. Len(calls), calls[e].slot = s
          PROVE  s \in DOMAIN packed' \/ \E d \in 1 .. Len(calls') : calls'[d].slot = s
      <4>1. CASE e = 1
        BY <1>5, <1>9, <3>2, <4>1
      <4>2. CASE e # 1
        <5>1. PICK d \in 1 .. Len(calls') : d = e - 1
          BY <1>5, <1>12, <4>2
        <5>2. calls'[d] = calls[e]
          BY <1>5, <1>12, <5>1
        <5> QED BY <3>2, <5>1, <5>2
      <4> QED BY <4>1, <4>2
    <3> QED BY <1>2, <3>1, <3>2 DEF CallsPlaced
  <2>4. Q = PackType(arena)'
    BY <1>1, <1>10 DEF PackType
  <2> QED BY <1>12, <2>1, <2>2, <2>3, <2>4 DEF CallsPlaced
<1>14. (\E h : Places(arena, h) /\ CallsPlaced(h))'
  BY <1>1, <1>3, <1>9, <1>13
<1> QED BY <1>1, <1>14 DEF PackInv

\* The slots of a node, in the order they are gone through.
SlotCalls(n, b, width) ==
  [k \in 1 .. width |-> PackCall(SlotTarget(arena, arr, n, b, k - 1),
                                 packedNext + k - 1, arena[n].bit + b)]

\* The calls that packing a node leaves: one per slot, and then what was left.
TopBranch == arena[Top.pat].branch
TopWidth == IF TopBranch = 0 THEN 0 ELSE 2^TopBranch
TopCalls == SlotCalls(Top.pat, TopBranch, TopWidth) \o Tail(calls)

IsQueue(S, n, b, width) ==
  /\ n \in DOMAIN arena /\ b \in 0 .. KeyBits /\ width \in Nat
  /\ arena[n].bit + b \in 0 .. KeyBits
  /\ S \in Seq(PackType(arena)) /\ Len(S) = width + (Len(calls) - 1)
  /\ \A d \in 1 .. width : /\ S[d].slot = packedNext + d - 1
                           /\ S[d].depth = arena[n].bit + b
                           /\ S[d].pat = SlotTarget(arena, arr, n, b, d - 1)
  /\ \A d \in width + 1 .. Len(S) : S[d] = calls[d - width + 1]

LEMMA SlotCallsAre ==
  ASSUME NEW g, Places(arena, g), CallsPlaced(g), calls # <<>>, Top.pat # None
  PROVE  IsQueue(TopCalls, Top.pat, TopBranch, TopWidth)
<1> SUFFICES ASSUME NEW n, n = Top.pat, NEW b, b = arena[n].branch,
                    NEW width, width = IF b = 0 THEN 0 ELSE 2^b,
                    NEW S, S = SlotCalls(n, b, width) \o Tail(calls)
             PROVE  IsQueue(S, n, b, width)
  BY DEF TopBranch, TopWidth, TopCalls
<1>1. /\ packedNext \in Nat /\ TrieOK(arena) /\ DOMAIN arena \subseteq Nat
  BY DEF Places, FullTrie
<1>2. n \in DOMAIN arena
  BY TopPlaced DEF PackType
<1>3. PICK depth : depth = arena[n].bit + b
  OBVIOUS
<1>4. b \in 0 .. KeyBits /\ b \in Nat /\ depth \in 0 .. KeyBits /\ width \in Nat
  <2>1. arena[n].bit \in 0 .. KeyBits /\ b \in 0 .. KeyBits /\ arena[n].bit + b <= KeyBits
    BY <1>1, <1>2 DEF TrieOK, NodeType
  <2>2. 2^b \in Nat
    BY <2>1, PowerIsPositive
  <2>3. depth = arena[n].bit + b /\ width = (IF b = 0 THEN 0 ELSE 2^b)
    BY <1>3
  <2>4. arena[n].bit \in Nat /\ b \in Nat /\ KeyBits \in Nat
    BY ONLY <2>1, Shape
  <2> QED BY ONLY <2>1, <2>2, <2>3, <2>4
<1>5. PICK Q : Q = PackType(arena)
  OBVIOUS
<1>6. PICK kids : kids = SlotCalls(n, b, width)
  OBVIOUS
<1>7. /\ kids \in Seq(Q) /\ Len(kids) = width
      /\ \A k \in 1 .. width : /\ kids[k].slot = packedNext + k - 1 /\ kids[k].depth = depth
                               /\ kids[k].pat = SlotTarget(arena, arr, n, b, k - 1)
  <2>1. ASSUME NEW k \in 1 .. width
        PROVE  PackCall(SlotTarget(arena, arr, n, b, k - 1), packedNext + k - 1, depth) \in Q
    <3>1. PICK t : t = SlotTarget(arena, arr, n, b, k - 1)
      OBVIOUS
    <3>2. t \in DOMAIN arena \cup {None}
      BY <1>1, <1>2, <1>4, <3>1, SlotTargetIs DEF Below
    <3>3. packedNext + k - 1 \in Nat
      <4>1. packedNext \in Nat /\ width \in Nat /\ k \in 1 .. width
        BY <1>1, <1>4
      <4> QED BY ONLY <4>1
    <3> QED BY <1>4, <1>5, <3>1, <3>2, <3>3 DEF PackCall, PackType
  <2>2. kids = [k \in 1 .. width |-> PackCall(SlotTarget(arena, arr, n, b, k - 1),
                                              packedNext + k - 1, depth)]
    BY <1>3, <1>6 DEF SlotCalls
  <2>3. kids \in [1 .. width -> Q]
    BY <2>1, <2>2
  <2>4. \A k \in 1 .. width : kids[k] = PackCall(SlotTarget(arena, arr, n, b, k - 1),
                                                 packedNext + k - 1, depth)
    BY <2>2
  <2>5. kids \in Seq(Q) /\ Len(kids) = width
    BY ONLY <1>4, <2>3
  <2> QED BY ONLY <2>4, <2>5 DEF PackCall
<1>8. /\ S \in Seq(Q) /\ Len(S) = Len(kids) + (Len(calls) - 1)
      /\ \A d \in 1 .. Len(kids) : S[d] = kids[d]
      /\ \A d \in Len(kids) + 1 .. Len(S) : S[d] = calls[d - Len(kids) + 1]
  <2>1. calls \in Seq(Q)
    BY <1>5 DEF CallsPlaced
  <2>2. S = kids \o Tail(calls) /\ kids \in Seq(Q) /\ calls # <<>>
    BY <1>6, <1>7
  <2> QED BY ONLY <2>1, <2>2, StackIs
<1>9. S \in Seq(PackType(arena)) /\ Len(S) = width + (Len(calls) - 1)
  BY <1>5, <1>7, <1>8
<1>10. \A d \in 1 .. width : /\ S[d].slot = packedNext + d - 1
                             /\ S[d].depth = arena[n].bit + b
                             /\ S[d].pat = SlotTarget(arena, arr, n, b, d - 1)
  <2> TAKE d \in 1 .. width
  <2>1. S[d] = kids[d]
    BY <1>7, <1>8
  <2> QED BY <1>3, <1>7, <2>1
<1>11. \A d \in width + 1 .. Len(S) : S[d] = calls[d - width + 1]
  BY <1>7, <1>8
<1>12. arena[n].bit + b \in 0 .. KeyBits
  BY <1>3, <1>4
<1> QED BY <1>2, <1>4, <1>9, <1>10, <1>11, <1>12 DEF IsQueue

LEMMA PackNodePlaces ==
  ASSUME HeapInv, PackInv, PackNode
  PROVE  PackInv'
<1>1. /\ phase = "pack" /\ phase' = "pack" /\ arr' = arr /\ arena' = arena
      /\ calls # <<>> /\ Top.pat # None /\ ~published'
  BY DEF PackNode, engineVars, HeapInv
<1>2. PICK g : Places(arena, g) /\ CallsPlaced(g)
  BY <1>1 DEF PackInv
<1>3. PICK T : T = arena
  OBVIOUS
<1>4. PICK c : c = Top
  OBVIOUS
<1>5. /\ Len(calls) \in Nat /\ Len(calls) >= 1 /\ 1 \in 1 .. Len(calls) /\ c = calls[1]
      /\ c \in PackType(T) /\ c.slot \in DOMAIN g /\ c.slot \notin DOMAIN packed
      /\ g[c.slot].pat = c.pat /\ g[c.slot].depth = c.depth
  BY <1>1, <1>2, <1>3, <1>4, TopPlaced
<1>6. /\ packedNext \in Nat \ {0} /\ g \in [0 .. packedNext - 1 -> PlaceType(T)]
      /\ DOMAIN g = 0 .. packedNext - 1
      /\ FullTrie(T) /\ TrieOK(T) /\ DOMAIN T \subseteq Nat
  BY <1>2, <1>3 DEF Places, FullTrie
<1>7. PICK n : n = c.pat
  OBVIOUS
<1>8. n \in DOMAIN T /\ n # None
  BY <1>1, <1>4, <1>5, <1>7 DEF PackType
<1>9. PICK b : b = T[n].branch
  OBVIOUS
<1>10. PICK depth : depth = T[n].bit + b
  OBVIOUS
<1>11. PICK width : width = IF b = 0 THEN 0 ELSE 2^b
  OBVIOUS
<1>12. b \in 0 .. KeyBits /\ b \in Nat /\ depth \in 0 .. KeyBits /\ width \in Nat
  <2>1. T[n].bit \in 0 .. KeyBits /\ b \in 0 .. KeyBits /\ T[n].bit + b <= KeyBits
    BY <1>6, <1>8, <1>9 DEF TrieOK, NodeType
  <2>2. 2^b \in Nat
    BY <2>1, PowerIsPositive
  <2> QED BY <1>10, <1>11, <2>1, <2>2, Shape
<1>13. PICK kids : kids = SlotCalls(n, b, width)
  OBVIOUS
<1>14. PICK node : node = PackedNode(IF width = 0 THEN 0 ELSE packedNext, T[n].prefix, b,
                                     Skip(T[n].bit, c.depth))
  OBVIOUS
<1>15. /\ packed' = Written(c.slot, node)
       /\ packedNext' = packedNext + width
       /\ calls' = kids \o Tail(calls)
  BY <1>3, <1>4, <1>7, <1>9, <1>11, <1>13, <1>14 DEF PackNode, SlotCalls
<1>16. PICK S : S = calls'
  OBVIOUS
<1>17. /\ S \in Seq(PackType(T)) /\ Len(S) = width + (Len(calls) - 1)
       /\ \A d \in 1 .. width : /\ S[d].slot = packedNext + d - 1 /\ S[d].depth = depth
                                /\ S[d].pat = SlotTarget(T, arr, n, b, d - 1)
       /\ \A d \in width + 1 .. Len(S) : S[d] = calls[d - width + 1]
  <2>1. IsQueue(TopCalls, Top.pat, TopBranch, TopWidth)
    BY <1>1, <1>2, SlotCallsAre
  <2>2. n = Top.pat /\ b = TopBranch /\ width = TopWidth /\ S = TopCalls
    BY <1>3, <1>4, <1>7, <1>9, <1>11, <1>13, <1>15, <1>16 DEF TopBranch, TopWidth, TopCalls
  <2>3. IsQueue(S, n, b, width)
    BY <2>1, <2>2
  <2> QED BY <1>3, <1>10, <2>3 DEF IsQueue
<1>18. PICK h : h = [s \in 0 .. packedNext + width - 1 |->
                       IF s < packedNext THEN g[s]
                       ELSE PlaceOf(SlotTarget(T, arr, n, b, s - packedNext), depth)]
  OBVIOUS
<1>19. /\ h \in [0 .. packedNext' - 1 -> PlaceType(T)] /\ DOMAIN h = 0 .. packedNext + width - 1
       /\ \A s \in DOMAIN g : s \in DOMAIN h /\ h[s] = g[s]
       /\ \A k \in 0 .. width - 1 :
            /\ packedNext + k \in DOMAIN h
            /\ h[packedNext + k] = PlaceOf(SlotTarget(T, arr, n, b, k), depth)
  <2>1. ASSUME NEW k \in 0 .. width - 1
        PROVE  PlaceOf(SlotTarget(T, arr, n, b, k), depth) \in PlaceType(T)
    <3>1. PICK t : t = SlotTarget(T, arr, n, b, k)
      OBVIOUS
    <3>2. t \in DOMAIN T \cup {None}
      BY <1>6, <1>8, <1>12, <3>1, SlotTargetIs DEF Below
    <3> QED BY <1>12, <3>1, <3>2 DEF PlaceOf, PlaceType
  <2>2. ASSUME NEW s \in 0 .. packedNext + width - 1
        PROVE  h[s] \in PlaceType(T)
    <3>1. CASE s < packedNext
      <4>1. s \in 0 .. packedNext - 1
        BY <1>6, <3>1
      <4> QED BY <1>6, <1>18, <3>1, <4>1
    <3>2. CASE ~(s < packedNext)
      <4>1. PICK k \in 0 .. width - 1 : k = s - packedNext
        BY <1>6, <1>12, <3>2
      <4>2. h[s] = PlaceOf(SlotTarget(T, arr, n, b, k), depth)
        BY <1>18, <3>2, <4>1
      <4> QED BY <2>1, <4>2
    <3> QED BY <3>1, <3>2
  <2>3. h \in [0 .. packedNext' - 1 -> PlaceType(T)] /\ DOMAIN h = 0 .. packedNext + width - 1
    <3>1. 0 .. packedNext' - 1 = 0 .. packedNext + width - 1
      BY <1>6, <1>12, <1>15
    <3>2. DOMAIN h = 0 .. packedNext + width - 1 /\ h = [s \in 0 .. packedNext + width - 1 |-> h[s]]
      BY <1>18
    <3> QED BY <2>2, <3>1, <3>2
  <2>4. \A s \in DOMAIN g : s \in DOMAIN h /\ h[s] = g[s]
    BY <1>6, <1>12, <1>18
  <2>5. \A k \in 0 .. width - 1 :
            /\ packedNext + k \in DOMAIN h
            /\ h[packedNext + k] = PlaceOf(SlotTarget(T, arr, n, b, k), depth)
    <3> TAKE k \in 0 .. width - 1
    <3>1. /\ packedNext + k \in 0 .. packedNext + width - 1 /\ ~(packedNext + k < packedNext)
          /\ (packedNext + k) - packedNext = k
      BY <1>6, <1>12
    <3> QED BY <1>18, <2>3, <3>1
  <2> QED BY <2>3, <2>4, <2>5
<1>20. StandsFor(T, h, c.slot, node)
  <2>1. h[c.slot].pat = n /\ h[c.slot].depth = c.depth
    BY <1>5, <1>7, <1>19
  <2>2. /\ node.prefix = T[n].prefix /\ node.branch = T[n].branch
        /\ node.skip = Skip(T[n].bit, c.depth)
        /\ node.base = IF width = 0 THEN 0 ELSE packedNext
    BY <1>9, <1>14 DEF PackedNode
  <2>3. ASSUME T[n].branch > 0
        PROVE  /\ node.base \in Nat
               /\ \A k \in 0 .. 2^T[n].branch - 1 :
                    /\ node.base + k \in DOMAIN h
                    /\ h[node.base + k] = PlaceOf(SlotTarget(T, arr, n, T[n].branch, k),
                                                  T[n].bit + T[n].branch)
    <3>1. width = 2^T[n].branch
      BY <1>9, <1>11, <2>3
    <3>2. width # 0
      BY <1>9, <1>12, <3>1, PowerIsPositive
    <3>3. node.base = packedNext
      BY <2>2, <3>2
    <3> QED BY <1>6, <1>9, <1>10, <1>19, <3>1, <3>3
  <2> QED BY <1>8, <2>1, <2>2, <2>3 DEF StandsFor
<1>21. Places(T, h)' /\ DOMAIN packed' = DOMAIN packed \cup {c.slot}
  <2>1. packedNext' \in Nat /\ packedNext' >= packedNext
    BY <1>6, <1>12, <1>15
  <2>2. Grows(T, g, h, packedNext')
    BY <1>19 DEF Grows
  <2> QED BY <1>1, <1>2, <1>3, <1>4, <1>15, <1>20, <2>1, <2>2, SlotWritten
<1>24. ASSUME NEW d \in 1 .. Len(S)
       PROVE  \/ d \in 1 .. width /\ S[d].slot = packedNext + d - 1
              \/ \E e \in 2 .. Len(calls) : e = d - width + 1 /\ S[d] = calls[e]
  <2>1. CASE d \in 1 .. width
    BY <1>17, <2>1
  <2>2. CASE d \notin 1 .. width
    <3>1. d \in width + 1 .. Len(S) /\ d - width + 1 \in 2 .. Len(calls)
      BY <1>5, <1>12, <1>17, <2>2
    <3> QED BY <1>17, <3>1
  <2> QED BY <2>1, <2>2
<1>25. ASSUME NEW e \in 2 .. Len(calls)
       PROVE  /\ calls[e].slot \in DOMAIN g \ DOMAIN packed /\ calls[e].slot # c.slot
              /\ g[calls[e].slot] = PlaceOf(calls[e].pat, calls[e].depth)
  <2>1. e \in 1 .. Len(calls) /\ e # 1
    BY <1>5
  <2> QED BY <1>2, <1>5, <2>1 DEF CallsPlaced
<1>26. ASSUME NEW d \in 1 .. Len(S)
       PROVE  /\ S[d].slot \in DOMAIN h \ DOMAIN packed'
              /\ h[S[d].slot] = PlaceOf(S[d].pat, S[d].depth)
  <2>1. CASE d \in 1 .. width
    <3>2. PICK k \in 0 .. width - 1 : k = d - 1 /\ S[d].slot = packedNext + k
      <4>1. d - 1 \in 0 .. width - 1 /\ S[d].slot = packedNext + d - 1
        BY <1>12, <1>17, <2>1
      <4>2. packedNext + d - 1 = packedNext + (d - 1)
        BY <1>6, <2>1
      <4> QED BY <4>1, <4>2
    <3>3. S[d].pat = SlotTarget(T, arr, n, b, k) /\ S[d].depth = depth
      BY <1>17, <2>1, <3>2
    <3>4. packedNext + k \notin DOMAIN g
      BY <1>6, <3>2
    <3>5. DOMAIN packed \subseteq DOMAIN g
      BY <1>2, <1>6 DEF Places
    <3>6. S[d].slot \in DOMAIN h
      BY <1>19, <3>2
    <3>7. S[d].slot \notin DOMAIN packed'
      BY <1>5, <1>21, <3>2, <3>4, <3>5
    <3> QED BY <1>19, <3>2, <3>3, <3>6, <3>7
  <2>2. ASSUME NEW e \in 2 .. Len(calls), S[d] = calls[e]
        PROVE  /\ S[d].slot \in DOMAIN h \ DOMAIN packed'
               /\ h[S[d].slot] = PlaceOf(S[d].pat, S[d].depth)
    BY <1>19, <1>21, <1>25, <2>2
  <2> QED BY <1>24, <2>1, <2>2
<1>27. ASSUME NEW d \in 1 .. Len(S), NEW e \in 1 .. Len(S), S[d].slot = S[e].slot
       PROVE  d = e
  <2>1. \A x \in 1 .. width : packedNext + x - 1 \notin DOMAIN g
    BY <1>6, <1>12
  <2>2. \A x \in 2 .. Len(calls) : calls[x].slot \in DOMAIN g
    BY <1>25
  <2>3. CASE d \in 1 .. width /\ S[d].slot = packedNext + d - 1
    <3>1. e \in 1 .. width /\ S[e].slot = packedNext + e - 1
      BY <1>24, <1>27, <2>1, <2>2, <2>3
    <3>2. packedNext + d - 1 = packedNext + e - 1
      BY <1>27, <2>3, <3>1
    <3> QED BY <1>6, <1>12, <2>3, <3>1, <3>2
  <2>4. ASSUME NEW x \in 2 .. Len(calls), x = d - width + 1, S[d] = calls[x]
        PROVE  d = e
    <3>1. PICK y \in 2 .. Len(calls) : y = e - width + 1 /\ S[e] = calls[y]
      BY <1>24, <1>27, <2>1, <2>2, <2>4
    <3>2. x = y
      <4>1. x \in 1 .. Len(calls) /\ y \in 1 .. Len(calls) /\ calls[x].slot = calls[y].slot
        BY <1>5, <1>27, <2>4, <3>1
      <4> QED BY <1>2, <4>1 DEF CallsPlaced
    <3>3. d \in Int /\ e \in Int
      OBVIOUS
    <3> QED BY <1>12, <2>4, <3>1, <3>2, <3>3
  <2> QED BY <1>24, <2>3, <2>4
<1>28. ASSUME NEW s \in DOMAIN h
       PROVE  s \in DOMAIN packed' \/ \E d \in 1 .. Len(S) : S[d].slot = s
  <2>1. CASE s \in DOMAIN g
    <3>1. CASE s \in DOMAIN packed
      BY <1>21, <3>1
    <3>2. ASSUME NEW e \in 1 .. Len(calls), calls[e].slot = s
          PROVE  s \in DOMAIN packed' \/ \E d \in 1 .. Len(S) : S[d].slot = s
      <4>1. CASE e = 1
        BY <1>5, <1>21, <3>2, <4>1
      <4>2. CASE e # 1
        <5>1. PICK d \in width + 1 .. Len(S) : d = e + width - 1
          BY <1>5, <1>12, <1>17, <4>2
        <5>2. d - width + 1 = e /\ d \in 1 .. Len(S)
          BY <1>12, <5>1
        <5>3. S[d] = calls[e]
          BY <1>17, <5>1, <5>2
        <5> QED BY <3>2, <5>2, <5>3
      <4> QED BY <4>1, <4>2
    <3> QED BY <1>2, <2>1, <3>1, <3>2 DEF CallsPlaced
  <2>2. CASE s \notin DOMAIN g
    <3>1. PICK d \in 1 .. width : s = packedNext + d - 1
      <4>1. s - packedNext + 1 \in 1 .. width /\ s = packedNext + (s - packedNext + 1) - 1
        BY <1>6, <1>12, <1>19, <2>2
      <4> QED BY <4>1
    <3>2. d \in 1 .. Len(S)
      BY <1>5, <1>12, <1>17, <3>1
    <3>3. S[d].slot = packedNext + d - 1
      BY <1>17, <3>1
    <3> QED BY <3>1, <3>2, <3>3
  <2> QED BY <2>1, <2>2
<1>29. CallsPlaced(h)'
  <2>1. PackType(arena)' = PackType(T)
    BY <1>1, <1>3 DEF PackType
  <2> QED BY <1>16, <1>17, <1>26, <1>27, <1>28, <2>1 DEF CallsPlaced
<1>30. (\E f : Places(arena, f) /\ CallsPlaced(f))'
  BY <1>1, <1>3, <1>21, <1>29
<1> QED BY <1>1, <1>30 DEF PackInv

LEMMA PublishPlaces ==
  ASSUME HeapInv, PackInv, Publish
  PROVE  PackInv'
<1>1. /\ phase = "pack" /\ phase' = "done" /\ arr' = arr /\ packed' = packed
      /\ packedNext' = packedNext /\ calls = <<>>
  BY DEF Publish, engineVars
<1>2. PICK g : Places(arena, g) /\ CallsPlaced(g)
  BY <1>1 DEF PackInv
<1>3. PICK T : T = arena
  OBVIOUS
<1>4. DOMAIN packed = DOMAIN g
  <2>1. Len(calls) = 0
    BY <1>1
  <2>2. DOMAIN g \subseteq DOMAIN packed
    BY <1>2, <2>1 DEF CallsPlaced
  <2>3. DOMAIN packed \subseteq DOMAIN g
    BY <1>2 DEF Places
  <2> QED BY <2>2, <2>3
<1>5. Places(T, g)'
  BY <1>1, <1>2, <1>3, SMTT(30) DEF Places, FullTrie, TrieOK, NodeType, LeadsTo, GoesTo, StoredAt, Shares,
                          IsBelow, SameKey, StandsFor
<1>6. (\E U, h : Places(U, h) /\ DOMAIN packed = DOMAIN h)'
  BY <1>1, <1>4, <1>5
<1> QED BY <1>1, <1>6 DEF PackInv

\* A step that leaves the array of prefixes and the packed one alone.
LEMMA PlacesStay ==
  ASSUME PackInv, UNCHANGED <<arr, packed, packedNext>>,
         phase' = "pack" => UNCHANGED <<phase, arena, calls>>,
         phase' \in {"call", "alloc", "sort", "build"} => phase \in {"call", "alloc", "sort", "build"},
         published' => published
  PROVE  PackInv'
<1>1. \A T, g : Places(T, g)' <=> Places(T, g)
  BY DEF Places, FullTrie, TrieOK, NodeType, LeadsTo, GoesTo, StoredAt, Shares, IsBelow, SameKey,
         StandsFor
<1>2. ASSUME phase' = "pack" PROVE (\E g : Places(arena, g) /\ CallsPlaced(g))'
  <2>1. PICK g : Places(arena, g) /\ CallsPlaced(g)
    BY <1>2 DEF PackInv
  <2>2. PICK T : T = arena
    OBVIOUS
  <2>3. Places(T, g)'
    BY <1>1, <2>1, <2>2
  <2>4. CallsPlaced(g)'
    BY <1>2, <2>1 DEF CallsPlaced, PackType
  <2> QED BY <1>2, <2>2, <2>3, <2>4
<1>3. ASSUME published' PROVE (\E T, g : Places(T, g) /\ DOMAIN packed = DOMAIN g)'
  <2>1. PICK T, g : Places(T, g) /\ DOMAIN packed = DOMAIN g
    BY <1>3 DEF PackInv
  <2> QED BY <1>1, <2>1
<1> QED BY <1>2, <1>3 DEF PackInv

LEMMA PackStep == ArrayInv /\ HeapInv /\ TrieInvs /\ PackInv /\ [Next]_vars => PackInv'
<1> SUFFICES ASSUME ArrayInv, HeapInv, TrieInvs, PackInv, [Next]_vars PROVE PackInv'
  OBVIOUS
<1>1. CASE UNCHANGED vars
  <2>1. UNCHANGED <<arr, packed, packedNext, phase, arena, calls, published>>
    BY <1>1 DEF vars, idxVars, engineVars
  <2> QED BY <2>1, PlacesStay
<1>2. CASE \/ RejectCount \/ RejectFamily
           \/ AllocateFails \/ ArenaFails \/ BuildOverflows \/ CostOverflows \/ NodesFail
  <2>1. UNCHANGED <<arr, packed, packedNext, published>> /\ phase' = "done"
    BY <1>2 DEF RejectCount, RejectFamily, Refuse, AllocateFails, ArenaFails, BuildOverflows,
                CostOverflows, NodesFail, Cleanup, Leave, engineVars
  <2> QED BY <2>1, PlacesStay
<1>3. CASE \/ Accept \/ Allocate \/ BeginSort \/ SortStep \/ ResolveDuplicates
           \/ BuildNode \/ CostNode
  <2>1. /\ packed' = packed /\ published' = published
        /\ phase \in {"call", "alloc", "sort", "build"}
        /\ phase' \in {"call", "alloc", "sort", "build"}
    BY <1>3 DEF Accept, Allocate, BeginSort, SortStep, ResolveDuplicates, BuildNode, CostNode, idxVars
  <2>2. ~published
    BY <2>1 DEF HeapInv
  <2> QED BY <2>1, <2>2 DEF PackInv
<1>4. CASE BeginPack
  BY <1>4, BeginPackPlaces
<1>5. CASE PackNode
  BY <1>5, PackNodePlaces
<1>6. CASE PackDead
  BY <1>6, PackDeadPlaces
<1>7. CASE Publish
  BY <1>7, PublishPlaces
<1>8. CASE Destroy
  <2>1. phase' = "destroyed" /\ ~published'
    BY <1>8 DEF Destroy
  <2> QED BY <2>1 DEF PackInv
<1> QED BY <1>1, <1>2, <1>3, <1>4, <1>5, <1>6, <1>7, <1>8 DEF Next, CreateNext

LEMMA PackAlways == SystemSpec => []PackInv
<1>1. LookupInit => PackInv
  BY DEF LookupInit, Init, PackInv
<1>2. ArrayInv /\ HeapInv /\ TrieInvs /\ PackInv /\ [SystemNext]_allVars => PackInv'
  BY PackStep, SystemStep DEF Next, allVars
<1> QED BY <1>1, <1>2, ArrayAlways, HeapAlways, TrieAlways, PTL DEF SystemSpec

\* The skip wraps where the depth is past the bit.
LEMMA SkipIs ==
  ASSUME NEW bit \in 0 .. KeyBits, NEW depth \in 0 .. KeyBits
  PROVE  /\ Skip(bit, depth) \in Nat
         /\ depth + Skip(bit, depth) = IF depth <= bit THEN bit ELSE SkipSize + bit
<1>1. SkipSize \in Nat \ {0} /\ SkipSize > KeyBits
  BY SkipAssumption, Shape
<1>2. CASE depth <= bit
  <2>1. bit - depth \in 0 .. SkipSize - 1
    BY <1>1, <1>2, Shape
  <2>2. Skip(bit, depth) = bit - depth
    BY <1>1, <2>1 DEF Skip
  <2> QED BY <1>2, <2>1, <2>2, Shape
<1>3. CASE ~(depth <= bit)
  <2>1. SkipSize + bit - depth \in 0 .. SkipSize - 1
    BY <1>1, <1>3, Shape
  <2>2. (bit - depth) % SkipSize = SkipSize + bit - depth
    BY <1>1, <1>3, <2>1, Shape
  <2>3. Skip(bit, depth) = SkipSize + bit - depth
    BY <2>2 DEF Skip
  <2> QED BY <1>1, <1>3, <2>1, <2>3, Shape
<1> QED BY <1>2, <1>3

\* However deep a prefix that was kept for a dead slot is packed, the skip stored
\* with it leads to the bit its node tests, or past every bit of an address.
THEOREM SkipsAreRight == SystemSpec => SkipLeadsToBit
<1>1. PackInv /\ HeapInv /\ [SystemNext]_allVars =>
        [(phase = "pack" /\ calls # <<>> /\ Top.pat # None) =>
           LET reached == Top.depth + packed'[Top.slot].skip
           IN  reached = arena[Top.pat].bit \/ reached > KeyBits]_vars
  <2> SUFFICES ASSUME PackInv, HeapInv, [SystemNext]_allVars, vars' # vars,
                      phase = "pack", calls # <<>>, Top.pat # None
               PROVE  LET reached == Top.depth + packed'[Top.slot].skip
                      IN  reached = arena[Top.pat].bit \/ reached > KeyBits
    OBVIOUS
  <2>1. [Next]_vars
    BY SystemStep DEF Next, allVars
  <2>2. PackNode
    BY <2>1
       DEF Next, CreateNext, RejectCount, RejectFamily, Accept, Allocate, AllocateFails, BeginSort,
           SortStep, ResolveDuplicates, ArenaFails, BuildNode, BuildOverflows, CostNode,
           CostOverflows, NodesFail, BeginPack, Costed, PackDead, Publish, Destroy
  <2>3. PICK g : Places(arena, g) /\ CallsPlaced(g)
    BY DEF PackInv
  <2>4. Top.pat \in DOMAIN arena /\ Top.depth \in 0 .. KeyBits
    BY <2>3, TopPlaced DEF PackType
  <2>5. PICK bit, depth : bit = arena[Top.pat].bit /\ depth = Top.depth
    OBVIOUS
  <2>6. bit \in 0 .. KeyBits /\ depth \in 0 .. KeyBits
    BY <2>3, <2>4, <2>5 DEF Places, FullTrie, TrieOK, NodeType
  <2>7. packed'[Top.slot].skip = Skip(bit, depth)
    BY <2>2, <2>5 DEF PackNode, Written, PackedNode
  <2>8. depth + Skip(bit, depth) = IF depth <= bit THEN bit ELSE SkipSize + bit
    BY <2>6, SkipIs
  <2> QED BY <2>5, <2>6, <2>7, <2>8, SkipAssumption, Shape
<1> QED BY <1>1, HeapAlways, PackAlways, PTL DEF SystemSpec, SkipLeadsToBit

----------------------------------------------------------------------------
(* The size of the packed array: what the calls on the stack will still    *)
(* reserve, one after the other, adds up to the cost of the root.          *)

\* What packing a call reserves besides the slot it was given.
Room(T, pat) == IF pat = None THEN 0 ELSE T[pat].cost - 1

\* How far the array is filled before each call of the stack, and at the end.
IsFilling(r, T, S, first, last) ==
  /\ r \in [1 .. Len(S) + 1 -> Int]
  /\ r[1] = first /\ r[Len(S) + 1] = last
  /\ \A d \in 1 .. Len(S) : r[d + 1] = r[d] + Room(T, S[d].pat)

RoomInv == phase = "pack" => \E r : IsFilling(r, arena, calls, packedNext, arena[0].cost)

LEMMA FillingAscends ==
  ASSUME NEW r, NEW T, NEW S, NEW first, NEW last, IsFilling(r, T, S, first, last), Len(S) \in Nat,
         \A d \in 1 .. Len(S) : Room(T, S[d].pat) \in Nat
  PROVE  first \in Int /\ last \in Int /\ first <= last
<1> DEFINE F == {k \in 0 .. Len(S) : r[1] <= r[k + 1]}
<1>1. r \in [1 .. Len(S) + 1 -> Int] /\ r[1] = first /\ r[Len(S) + 1] = last
  BY DEF IsFilling
<1>2. 0 \in F
  BY <1>1
<1>3. ASSUME NEW k \in 1 .. Len(S), k - 1 \in F
      PROVE  k \in F
  <2>1. r[1] <= r[k] /\ r[k + 1] = r[k] + Room(T, S[k].pat) /\ Room(T, S[k].pat) \in Nat
    BY <1>3 DEF IsFilling
  <2>2. r[1] \in Int /\ r[k] \in Int
    <3>1. 1 \in 1 .. Len(S) + 1 /\ k \in 1 .. Len(S) + 1
      BY ONLY Len(S) \in Nat, k \in 1 .. Len(S)
    <3> QED BY ONLY <1>1, <3>1
  <2>3. r[1] <= r[k + 1]
    BY <2>1, <2>2
  <2> QED BY <2>3
<1>4. Len(S) \in F
  <2>1. 0 .. Len(S) \subseteq F
    <3> HIDE DEF F
    <3> QED BY <1>2, <1>3, RoundByRound
  <2> QED BY <2>1
<1> QED BY <1>1, <1>4

\* In what is packed every node has a cost, the sum over its slots.
LEMMA PackedCosts ==
  ASSUME TrieInvs, phase = "pack", NEW g, Places(arena, g), CallsPlaced(g)
  PROVE  /\ \A n \in DOMAIN arena : arena[n].cost \in Nat \ {0}
         /\ \A d \in 1 .. Len(calls) : Room(arena, calls[d].pat) \in Nat
<1>1. \A n \in DOMAIN arena : arena[n].cost \in Nat \ {0}
  BY DEF TrieInvs, CostInv, Places, FullTrie, TrieOK, NodeType
<1>2. ASSUME NEW d \in 1 .. Len(calls) PROVE Room(arena, calls[d].pat) \in Nat
  <2>1. PICK Q : Q = PackType(arena)
    OBVIOUS
  <2>2. calls \in Seq(Q)
    BY <2>1 DEF CallsPlaced
  <2>3. calls[d] \in Q
    BY <2>2
  <2>4. calls[d].pat \in DOMAIN arena \cup {None}
    BY <2>1, <2>3 DEF PackType
  <2> QED BY <1>1, <2>4 DEF Room
<1> QED BY <1>1, <1>2

LEMMA BeginPackFills ==
  ASSUME ArrayInv, HeapInv, TrieInvs, BeginPack
  PROVE  RoomInv'
<1>1. /\ Costed /\ arena' = arena /\ calls' = <<PackCall(0, 0, 0)>> /\ packedNext' = 1
  BY DEF BeginPack
<1>2. PICK cost : cost = arena[0].cost
  OBVIOUS
<1>3. cost \in Int
  BY <1>1, <1>2, FinishedIsFull DEF FullTrie, TrieOK, NodeType
<1>4. PICK S : S = calls'
  OBVIOUS
<1>5. Len(S) = 1 /\ S[1].pat = 0
  BY <1>1, <1>4 DEF PackCall
<1>6. PICK r : r = [d \in 1 .. 2 |-> IF d = 1 THEN 1 ELSE cost]
  OBVIOUS
<1>7. IsFilling(r, arena, S, 1, cost)
  <2>1. Room(arena, S[1].pat) = cost - 1
    BY <1>2, <1>5 DEF Room, None
  <2>2. r \in [1 .. 2 -> Int] /\ r[1] = 1 /\ r[2] = cost
    BY <1>3, <1>6
  <2>3. \A d \in 1 .. 1 : d = 1
    OBVIOUS
  <2>4. r[1 + 1] = r[1] + Room(arena, S[1].pat)
    BY <1>3, <2>1, <2>2
  <2> QED BY <1>5, <2>2, <2>3, <2>4 DEF IsFilling
<1>8. (\E f : IsFilling(f, arena, calls, packedNext, arena[0].cost))'
  BY <1>1, <1>2, <1>4, <1>7 DEF IsFilling, Room
<1> QED BY <1>8 DEF RoomInv

LEMMA PackDeadFills ==
  ASSUME PackInv, RoomInv, PackDead
  PROVE  RoomInv'
<1>1. /\ phase = "pack" /\ arena' = arena /\ packedNext' = packedNext
      /\ calls # <<>> /\ calls' = Tail(calls) /\ Top.pat = None
  BY DEF PackDead
<1>2. PICK g : Places(arena, g) /\ CallsPlaced(g)
  BY <1>1 DEF PackInv
<1>3. PICK cost : cost = arena[0].cost
  OBVIOUS
<1>4. PICK r : IsFilling(r, arena, calls, packedNext, cost)
  BY <1>1, <1>3 DEF RoomInv
<1>5. PICK S : S = calls'
  OBVIOUS
<1>6. PICK L : L = Len(calls)
  OBVIOUS
<1>7. L \in Nat /\ L >= 1 /\ Top = calls[1] /\ Len(S) = L - 1 /\ \A d \in 1 .. L - 1 : S[d] = calls[d + 1]
  <2>1. PICK Q : Q = PackType(arena)
    OBVIOUS
  <2>2. calls \in Seq(Q)
    BY <1>2, <2>1 DEF CallsPlaced
  <2> QED BY <1>1, <1>5, <1>6, <2>2 DEF Top
<1>8. /\ r \in [1 .. L + 1 -> Int] /\ r[1] = packedNext /\ r[L + 1] = cost
      /\ \A d \in 1 .. L : r[d + 1] = r[d] + Room(arena, calls[d].pat)
  BY <1>4, <1>6 DEF IsFilling
<1>9. PICK f : f = [d \in 1 .. L |-> r[d + 1]]
  OBVIOUS
<1>10. IsFilling(f, arena, S, packedNext, cost)
  <2>1. f \in [1 .. L -> Int]
    <3>1. \A d \in 1 .. L : r[d + 1] \in Int
      BY <1>7, <1>8
    <3> QED BY <1>9, <3>1
  <2>2. f[1] = packedNext
    <3>1. Room(arena, calls[1].pat) = 0
      BY <1>1, <1>7 DEF Room
    <3>2. 1 \in 1 .. L /\ r[1 + 1] = r[1] + Room(arena, calls[1].pat) /\ r[1] \in Int
      BY <1>7, <1>8
    <3> QED BY <1>8, <1>9, <3>1, <3>2
  <2>3. f[L] = cost
    BY <1>7, <1>8, <1>9
  <2>4. ASSUME NEW d \in 1 .. L - 1
        PROVE  f[d + 1] = f[d] + Room(arena, S[d].pat)
    <3>1. d \in 1 .. L /\ d + 1 \in 1 .. L
      BY <1>7
    <3>2. f[d + 1] = r[(d + 1) + 1] /\ f[d] = r[d + 1] /\ S[d] = calls[d + 1]
      BY <1>7, <1>9, <3>1
    <3> QED BY <1>8, <3>1, <3>2
  <2>5. Len(S) + 1 = L /\ Len(S) = L - 1
    BY <1>7
  <2> QED BY <2>1, <2>2, <2>3, <2>4, <2>5 DEF IsFilling
<1>11. (\E h : IsFilling(h, arena, calls, packedNext, arena[0].cost))'
  BY <1>1, <1>3, <1>5, <1>10 DEF IsFilling, Room
<1> QED BY <1>11 DEF RoomInv

\* The size of a node before and after each of its slots: u adds up to its cost.
AddsUp(u, n, b, width) ==
  /\ u \in [0 .. width -> Int] /\ u[0] = 1 /\ u[width] = arena[n].cost
  /\ \A k \in 1 .. width : u[k] = u[k - 1] + SlotCost(arena, arr, n, b, k - 1)

LEMMA PackNodeFills ==
  ASSUME TrieInvs, PackInv, RoomInv, PackNode
  PROVE  RoomInv'
<1>1. /\ phase = "pack" /\ arena' = arena /\ calls # <<>> /\ Top.pat # None
      /\ packedNext' = packedNext + TopWidth /\ calls' = TopCalls
  BY DEF PackNode, TopWidth, TopBranch, TopCalls, SlotCalls
<1>2. PICK g : Places(arena, g) /\ CallsPlaced(g)
  BY <1>1 DEF PackInv
<1>3. PICK n, b, width, S : n = Top.pat /\ b = TopBranch /\ width = TopWidth /\ S = TopCalls
  OBVIOUS
<1>4. b = arena[n].branch /\ width = (IF b = 0 THEN 0 ELSE 2^b)
  BY <1>3 DEF TopBranch, TopWidth
<1>5. IsQueue(S, n, b, width)
  <2>1. IsQueue(TopCalls, Top.pat, TopBranch, TopWidth)
    BY <1>1, <1>2, SlotCallsAre
  <2> QED BY <1>3, <2>1
<1>6. PICK L : L = Len(calls)
  OBVIOUS
<1>7. L \in Nat /\ L >= 1 /\ calls[1].pat = n
  BY <1>1, <1>2, <1>3, <1>6, TopPlaced
<1>8. /\ n \in DOMAIN arena /\ b \in 0 .. KeyBits /\ width \in Nat /\ Len(S) = width + (L - 1)
      /\ \A d \in 1 .. width : S[d].pat = SlotTarget(arena, arr, n, b, d - 1)
      /\ \A d \in width + 1 .. Len(S) : S[d] = calls[d - width + 1]
  BY <1>5, <1>6 DEF IsQueue
<1>9. PICK cost : cost = arena[0].cost
  OBVIOUS
<1>10. PICK from : from = packedNext
  OBVIOUS
<1>11. PICK r : IsFilling(r, arena, calls, from, cost)
  BY <1>1, <1>9, <1>10 DEF RoomInv
<1>12. /\ r \in [1 .. L + 1 -> Int] /\ r[1] = from /\ r[L + 1] = cost
       /\ \A d \in 1 .. L : r[d + 1] = r[d] + Room(arena, calls[d].pat)
  BY <1>6, <1>11 DEF IsFilling
<1>13. from \in Int
  BY <1>7, <1>12
\* the size of the node after each slot
<1>13a. PICK u : AddsUp(u, n, b, width)
  <2>1. TrieOK(arena) /\ DOMAIN arena \subseteq Nat
    BY <1>2 DEF Places, FullTrie
  <2>2. arena[n].cost = IF b = 0 THEN 1 ELSE BranchCost(arena, arr, n, b)
    BY <1>1, <1>4, <1>8 DEF TrieInvs, CostInv
  <2>3. CASE b = 0
    <3>1. PICK v : v = [k \in 0 .. 0 |-> 1]
      OBVIOUS
    <3>2. width = 0 /\ arena[n].cost = 1
      BY <1>4, <2>2, <2>3
    <3>3. v \in [0 .. 0 -> Int] /\ v[0] = 1 /\ 1 .. 0 = {}
      BY <3>1
    <3>4. \A k \in 1 .. 0 : v[k] = v[k - 1] + SlotCost(arena, arr, n, b, k - 1)
      BY ONLY <3>3
    <3>5. v \in [0 .. width -> Int] /\ v[width] = arena[n].cost
      BY ONLY <3>2, <3>3
    <3>6. \A k \in 1 .. width : v[k] = v[k - 1] + SlotCost(arena, arr, n, b, k - 1)
      BY ONLY <3>2, <3>4
    <3>7. AddsUp(v, n, b, width)
      BY ONLY <3>3, <3>5, <3>6 DEF AddsUp
    <3> QED BY <3>7
  <2>4. CASE b # 0
    <3>1. PICK v : v = Sum(arena, n, b)
      OBVIOUS
    <3>2. width = 2^b /\ arena[n].cost = BranchCost(arena, arr, n, b)
      BY <1>4, <2>2, <2>4
    <3>3. /\ v \in [0 .. width -> Nat \ {0}] /\ v[0] = 1 /\ v[width] = arena[n].cost
          /\ \A k \in 1 .. width : v[k] = v[k - 1] + SlotCost(arena, arr, n, b, k - 1)
      BY <1>8, <2>1, <3>1, <3>2, CostIs
    <3>4. AddsUp(v, n, b, width)
      BY <3>3 DEF AddsUp
    <3> QED BY <3>4
  <2> QED BY <2>3, <2>4
<1>14. /\ u \in [0 .. width -> Int] /\ u[0] = 1 /\ u[width] = arena[n].cost
       /\ \A k \in 1 .. width : u[k] = u[k - 1] + SlotCost(arena, arr, n, b, k - 1)
  BY <1>13a DEF AddsUp
<1>15. PICK f : f = [d \in 1 .. width + L |-> IF d <= width THEN from + width + u[d - 1] - d
                                              ELSE r[d - width + 1]]
  OBVIOUS
<1>16. r[2] = from + u[width] - 1 /\ r[2] \in Int
  <2>1. Room(arena, calls[1].pat) = arena[n].cost - 1
    BY <1>1, <1>3, <1>7 DEF Room
  <2>2. 1 \in 1 .. L /\ r[1 + 1] = r[1] + Room(arena, calls[1].pat) /\ r[1 + 1] \in Int
    BY <1>7, <1>12
  <2>3. u[width] \in Int
    BY <1>8, <1>14
  <2> QED BY <1>12, <1>13, <1>14, <2>1, <2>2, <2>3
<1>17. ASSUME NEW d \in 1 .. width + 1
       PROVE  f[d] = from + width + u[d - 1] - d /\ u[d - 1] \in Int
  <2>1. d - 1 \in 0 .. width /\ d \in 1 .. width + L
    BY <1>7, <1>8
  <2>2. u[d - 1] \in Int
    BY <1>14, <2>1
  <2>3. CASE d <= width
    <3>1. f[d] = IF d <= width THEN from + width + u[d - 1] - d ELSE r[d - width + 1]
      BY ONLY <1>15, <2>1
    <3> QED BY ONLY <2>2, <2>3, <3>1
  <2>4. CASE ~(d <= width)
    <3>1. d = width + 1 /\ d - width + 1 = 2 /\ d - 1 = width
      BY <1>8, <2>4
    <3>2. f[d] = r[2]
      BY <1>15, <2>1, <2>4, <3>1
    <3>3. PICK x, y : x = u[d - 1] /\ y = f[d]
      OBVIOUS
    <3>4. x = u[width] /\ y = r[2]
      BY ONLY <3>1, <3>2, <3>3
    <3>5. y = from + x - 1 /\ x \in Int /\ width \in Int /\ d = width + 1
      BY ONLY <1>8, <1>16, <2>2, <3>1, <3>3, <3>4
    <3>6. y = from + width + x - d
      BY ONLY <1>13, <3>5
    <3> QED BY ONLY <2>2, <3>3, <3>6
  <2> QED BY <2>3, <2>4
<1>18. ASSUME NEW d \in width + 1 .. width + L
       PROVE  f[d] = r[d - width + 1] /\ d - width + 1 \in 1 .. L + 1
  <2>1. ~(d <= width) /\ d \in 1 .. width + L /\ d - width + 1 \in 1 .. L + 1
    BY <1>7, <1>8
  <2> QED BY <1>15, <2>1
<1>19. IsFilling(f, arena, S, from + width, cost)
  <2>1. f \in [1 .. Len(S) + 1 -> Int]
    <3>1. ASSUME NEW d \in 1 .. width + L PROVE f[d] \in Int
      <4>1. CASE d \in 1 .. width + 1
        <5>1. PICK x : x = u[d - 1]
          OBVIOUS
        <5>2. f[d] = from + width + x - d /\ x \in Int
          BY <1>17, <4>1, <5>1
        <5>3. width \in Int /\ d \in Int
          BY <1>8
        <5> QED BY ONLY <1>13, <5>2, <5>3
      <4>2. CASE d \in width + 1 .. width + L
        BY <1>12, <1>18, <4>2
      <4> QED BY <1>7, <1>8, <4>1, <4>2
    <3>2. Len(S) + 1 = width + L
      BY <1>7, <1>8
    <3> QED BY <1>15, <3>1, <3>2
  <2>2. f[1] = from + width
    <3>1. 1 \in 1 .. width + 1 /\ 1 - 1 = 0
      BY <1>8
    <3>2. f[1] = from + width + u[0] - 1
      BY <1>17, <3>1
    <3> QED BY <1>8, <1>13, <1>14, <3>2
  <2>3. f[Len(S) + 1] = cost
    <3>1. width + L \in width + 1 .. width + L /\ (width + L) - width + 1 = L + 1
          /\ Len(S) + 1 = width + L
      BY <1>7, <1>8
    <3>2. f[width + L] = r[(width + L) - width + 1]
      BY <1>18, <3>1
    <3> QED BY <1>12, <3>1, <3>2
  <2>4. ASSUME NEW d \in 1 .. Len(S)
        PROVE  f[d + 1] = f[d] + Room(arena, S[d].pat)
    <3>1. CASE d \in 1 .. width
      <4>1. d \in 1 .. width + 1 /\ d + 1 \in 1 .. width + 1 /\ (d + 1) - 1 = d
        BY <1>8, <3>1
      <4>2. f[d] = from + width + u[d - 1] - d /\ f[d + 1] = from + width + u[d] - (d + 1)
        BY <1>17, <4>1
      <4>3. u[d] \in Int /\ u[d - 1] \in Int
        BY <1>17, <4>1
      <4>4. u[d] = u[d - 1] + SlotCost(arena, arr, n, b, d - 1)
        BY <1>14, <3>1
      <4>5. S[d].pat = SlotTarget(arena, arr, n, b, d - 1)
        BY <1>8, <3>1
      <4>6. PICK slotCost : slotCost = SlotCost(arena, arr, n, b, d - 1)
        OBVIOUS
      <4>7. Room(arena, S[d].pat) = slotCost - 1 /\ slotCost \in Int
        <5>1. PICK t : t = SlotTarget(arena, arr, n, b, d - 1)
          OBVIOUS
        <5>2. t \in DOMAIN arena \cup {None}
          <6>1. TrieOK(arena) /\ DOMAIN arena \subseteq Nat /\ b \in Nat
            BY <1>2, <1>8, Shape DEF Places, FullTrie
          <6> QED BY <1>8, <5>1, <6>1, SlotTargetIs DEF Below
        <5>3. slotCost = IF t = None THEN 1 ELSE arena[t].cost
          BY <4>6, <5>1 DEF SlotCost
        <5>4. \A x \in DOMAIN arena : arena[x].cost \in Int
          BY <1>1, <1>2, PackedCosts
        <5> QED BY <4>5, <5>1, <5>2, <5>3, <5>4 DEF Room
      <4>8. PICK x, y, p, q, h : x = u[d - 1] /\ y = u[d] /\ p = f[d] /\ q = f[d + 1]
                                 /\ h = Room(arena, S[d].pat)
        OBVIOUS
      <4>9. /\ x \in Int /\ y \in Int /\ p = from + width + x - d /\ q = from + width + y - (d + 1)
            /\ y = x + slotCost /\ h = slotCost - 1
        BY ONLY <4>2, <4>3, <4>4, <4>6, <4>7, <4>8
      <4>10. width \in Int /\ d \in Int /\ slotCost \in Int
        BY <1>8, <4>7
      <4>11. q = p + h
        BY ONLY <1>13, <4>9, <4>10
      <4> QED BY ONLY <4>8, <4>11
    <3>2. CASE d \in width + 1 .. Len(S)
      <4>1. PICK e \in 1 .. L : e = d - width + 1
        BY <1>7, <1>8, <3>2
      <4>2. d \in width + 1 .. width + L /\ d + 1 \in width + 1 .. width + L
            /\ (d + 1) - width + 1 = e + 1
        BY <1>7, <1>8, <3>2, <4>1
      <4>3. f[d] = r[e] /\ f[d + 1] = r[e + 1] /\ S[d] = calls[e]
        BY <1>8, <1>18, <3>2, <4>1, <4>2
      <4> QED BY <1>12, <4>3
    <3> QED BY <1>8, <3>1, <3>2
  <2> QED BY <2>1, <2>2, <2>3, <2>4 DEF IsFilling
<1>20. (\E h : IsFilling(h, arena, calls, packedNext, arena[0].cost))'
  BY <1>1, <1>3, <1>9, <1>10, <1>19 DEF IsFilling, Room
<1> QED BY <1>20 DEF RoomInv

LEMMA RoomAlways == SystemSpec => []RoomInv
<1>1. LookupInit => RoomInv
  BY DEF LookupInit, Init, RoomInv
<1>2. ArrayInv /\ HeapInv /\ TrieInvs /\ PackInv /\ RoomInv /\ [SystemNext]_allVars => RoomInv'
  <2> SUFFICES ASSUME ArrayInv, HeapInv, TrieInvs, PackInv, RoomInv, [SystemNext]_allVars
               PROVE  RoomInv'
    OBVIOUS
  <2>1. [Next]_vars
    BY SystemStep DEF Next, allVars
  <2>2. CASE UNCHANGED vars
    BY <2>2 DEF RoomInv, vars, idxVars
  <2>3. CASE BeginPack
    BY <2>3, BeginPackFills
  <2>4. CASE PackNode
    BY <2>4, PackNodeFills
  <2>5. CASE PackDead
    BY <2>5, PackDeadFills
  <2>6. CASE Next /\ ~BeginPack /\ ~PackNode /\ ~PackDead
    <3>1. phase' # "pack"
      BY <2>6
         DEF Next, CreateNext, RejectCount, RejectFamily, Refuse, Accept, Allocate, AllocateFails,
             BeginSort, SortStep, idxVars, ResolveDuplicates, ArenaFails, BuildNode, BuildOverflows,
             CostNode, CostOverflows, Costed, NodesFail, Cleanup, Leave, Publish, Destroy
    <3> QED BY <3>1 DEF RoomInv
  <2> QED BY <2>1, <2>2, <2>3, <2>4, <2>5, <2>6
<1> QED BY <1>1, <1>2, ArrayAlways, HeapAlways, TrieAlways, PackAlways, PTL DEF SystemSpec

\* The arena and the packed array are as large as their recursions need: the
\* guard of the arena allows more nodes than it has room for, and the packed
\* array is only as large as the dynamic programme predicted.
THEOREM BothBuffersFit == SystemSpec => []BuffersFit
<1>1. HeapInv /\ TrieInvs /\ PackInv /\ RoomInv => BuffersFit
  <2> SUFFICES ASSUME HeapInv, TrieInvs, PackInv, RoomInv, phase = "pack"
               PROVE  /\ packedNext <= arena[0].cost
                      /\ DOMAIN packed \subseteq 0 .. packedNext - 1
                      /\ \A k \in DOMAIN calls : calls[k].slot \in 0 .. packedNext - 1 \ DOMAIN packed
                      /\ \A k, l \in DOMAIN calls : k # l => calls[k].slot # calls[l].slot
                      /\ calls = <<>> => DOMAIN packed = 0 .. arena[0].cost - 1
    BY DEF BuffersFit, PackFits, TrieInvs, TrieInv
  <2>1. PICK g : Places(arena, g) /\ CallsPlaced(g)
    BY DEF PackInv
  <2>2. PICK r : IsFilling(r, arena, calls, packedNext, arena[0].cost)
    BY DEF RoomInv
  <2>3. Len(calls) \in Nat /\ DOMAIN calls = 1 .. Len(calls)
    <3>1. PICK Q : Q = PackType(arena)
      OBVIOUS
    <3>2. calls \in Seq(Q)
      BY <2>1, <3>1 DEF CallsPlaced
    <3> QED BY <3>2
  <2>4. packedNext <= arena[0].cost
    BY <2>1, <2>2, <2>3, PackedCosts, FillingAscends
  <2>5. DOMAIN packed \subseteq 0 .. packedNext - 1 /\ DOMAIN g = 0 .. packedNext - 1
    BY <2>1 DEF Places
  <2>6. \A k \in DOMAIN calls : calls[k].slot \in 0 .. packedNext - 1 \ DOMAIN packed
    BY <2>1, <2>3, <2>5 DEF CallsPlaced
  <2>7. \A k, l \in DOMAIN calls : k # l => calls[k].slot # calls[l].slot
    BY <2>1, <2>3 DEF CallsPlaced
  <2>8. ASSUME calls = <<>> PROVE DOMAIN packed = 0 .. arena[0].cost - 1
    <3>1. Len(calls) = 0
      BY <2>8
    <3>2. packedNext = arena[0].cost
      BY <2>2, <3>1 DEF IsFilling
    <3>3. DOMAIN g \subseteq DOMAIN packed
      BY <2>1, <3>1 DEF CallsPlaced
    <3> QED BY <2>5, <3>2, <3>3
  <2> QED BY <2>4, <2>5, <2>6, <2>7, <2>8
<1> QED BY <1>1, HeapAlways, TrieAlways, PackAlways, RoomAlways, PTL

----------------------------------------------------------------------------
(* The lookup: the slot an address takes is the one its bits spell.        *)

Taken(addr, p, branch) == CHOOSE v : v = [n \in 0 .. branch |->
                            IF n = 0 THEN 0 ELSE 2 * v[n - 1] + AddrBit(addr, p + n - 1)]

LEMMA TakenIs ==
  ASSUME NEW a \in Address, NEW p \in Nat, NEW branch \in Nat, p + branch <= KeyBits
  PROVE  /\ Taken(a, p, branch) \in [0 .. branch -> Nat]
         /\ Taken(a, p, branch)[0] = 0
         /\ \A n \in 1 .. branch :
              /\ AddrBit(a, p + n - 1) \in 0 .. 1
              /\ Taken(a, p, branch)[n] = 2 * Taken(a, p, branch)[n - 1] + AddrBit(a, p + n - 1)
         /\ Extract(a, p, branch) = Taken(a, p, branch)[branch]
<1>1. \A n \in 1 .. branch : AddrBit(a, p + n - 1) \in 0 .. 1
  <2> TAKE n \in 1 .. branch
  <2>1. p + n - 1 \in 0 .. KeyBits - 1
    BY Shape
  <2> QED BY <2>1, NextBit
<1>2. PICK D : D = Nat
  OBVIOUS
<1>3. PICK step : step = [x \in (1 .. branch) \X Nat |-> 2 * x[2] + AddrBit(a, p + x[1] - 1)]
  OBVIOUS
<1>4. step \in [(1 .. branch) \X D -> D]
  <2>1. ASSUME NEW x \in (1 .. branch) \X Nat
        PROVE  2 * x[2] + AddrBit(a, p + x[1] - 1) \in Nat
    <3>1. PICK n, y : n = x[1] /\ y = x[2]
      OBVIOUS
    <3>2. n \in 1 .. branch /\ y \in Nat
      BY <3>1
    <3>3. AddrBit(a, p + n - 1) \in 0 .. 1
      BY <1>1, <3>2
    <3>4. 2 * y + AddrBit(a, p + n - 1) \in Nat
      BY <3>2, <3>3
    <3> QED BY <3>1, <3>4
  <2> QED BY <1>2, <1>3, <2>1
<1>5. PICK f \in [0 .. branch -> D] : /\ f[0] = 0
                                      /\ \A k \in 1 .. branch : f[k] = step[<<k, f[k - 1]>>]
  <2>1. PICK f : f = Loop(branch, D, 0, step)
    OBVIOUS
  <2>2. IsLoop(f, branch, D, 0, step)
    BY <1>2, <1>4, <2>1, LoopExists
  <2> QED BY <2>2 DEF IsLoop
<1>6. ASSUME NEW k \in 1 .. branch
      PROVE  f[k] = 2 * f[k - 1] + AddrBit(a, p + k - 1)
  <2>1. f[k - 1] \in Nat
    BY <1>2, <1>5
  <2>2. PICK x : x = <<k, f[k - 1]>>
    OBVIOUS
  <2>3. x \in (1 .. branch) \X Nat /\ x[1] = k /\ x[2] = f[k - 1]
    BY <2>1, <2>2
  <2>4. step[x] = 2 * x[2] + AddrBit(a, p + x[1] - 1)
    BY <1>3, <2>3
  <2> QED BY <1>5, <2>2, <2>3, <2>4
<1>7. f = [n \in 0 .. branch |-> IF n = 0 THEN 0 ELSE 2 * f[n - 1] + AddrBit(a, p + n - 1)]
  <2>1. \A k \in 0 .. branch : f[k] = IF k = 0 THEN 0 ELSE 2 * f[k - 1] + AddrBit(a, p + k - 1)
    BY <1>5, <1>6
  <2>2. f = [k \in 0 .. branch |-> f[k]]
    BY <1>5
  <2> QED BY <2>1, <2>2
<1>8. PICK v : v = Taken(a, p, branch)
  OBVIOUS
<1>9. v = [n \in 0 .. branch |-> IF n = 0 THEN 0 ELSE 2 * v[n - 1] + AddrBit(a, p + n - 1)]
  BY <1>7, <1>8 DEF Taken
<1>10. /\ v[0] = 0
       /\ \A k \in 1 .. branch : v[k] = 2 * v[k - 1] + AddrBit(a, p + k - 1)
  BY <1>9
<1>11. v \in [0 .. branch -> Nat]
  <2> DEFINE S == {k \in 0 .. branch : v[k] \in Nat}
  <2>1. 0 \in S
    BY <1>10
  <2>2. ASSUME NEW k \in 1 .. branch, k - 1 \in S
        PROVE  k \in S
    <3>1. v[k - 1] \in Nat /\ AddrBit(a, p + k - 1) \in 0 .. 1
      BY <1>1, <2>2
    <3>2. 2 * v[k - 1] + AddrBit(a, p + k - 1) \in Nat
      BY <3>1
    <3> QED BY <1>10, <3>2
  <2>3. 0 .. branch \subseteq S
    <3> HIDE DEF S
    <3> QED BY <2>1, <2>2, RoundByRound
  <2>4. v = [k \in 0 .. branch |-> v[k]]
    BY <1>9
  <2> QED BY <2>3, <2>4
<1>12. Extract(a, p, branch) = v[branch]
  BY <1>8 DEF Extract, Taken
<1> QED BY <1>1, <1>8, <1>10, <1>11, <1>12

\* It is one of the slots of the node, and its pattern is the address's bits.
LEMMA ExtractIs ==
  ASSUME NEW a \in Address, NEW p \in Nat, NEW branch \in Nat, p + branch <= KeyBits
  PROVE  /\ Extract(a, p, branch) \in 0 .. 2^branch - 1
         /\ \A r \in 0 .. branch - 1 : SlotBit(Extract(a, p, branch), branch, r) = AddrBit(a, p + r)
<1>1. PICK v : v = Taken(a, p, branch)
  OBVIOUS
<1>2. /\ v \in [0 .. branch -> Nat] /\ v[0] = 0
      /\ \A n \in 1 .. branch : /\ AddrBit(a, p + n - 1) \in 0 .. 1
                                /\ v[n] = 2 * v[n - 1] + AddrBit(a, p + n - 1)
      /\ Extract(a, p, branch) = v[branch]
  BY <1>1, TakenIs, ZenonT(60)
<1>3. \A n \in 0 .. branch : v[n] < 2^n
  <2> DEFINE S == {n \in 0 .. branch : v[n] < 2^n}
  <2>1. 0 \in S
    BY <1>2, PowersOfTwo
  <2>2. ASSUME NEW n \in 1 .. branch, n - 1 \in S
        PROVE  n \in S
    <3>1. v[n - 1] \in Nat /\ v[n - 1] < 2^(n - 1)
      BY <1>2, <2>2
    <3>2. n - 1 \in 0 .. KeyBits /\ (n - 1) + 1 = n
      BY Shape
    <3>3. 2^(n - 1) \in Nat /\ 2^n = 2 * 2^(n - 1)
      BY <3>2, Doubling
    <3>4. AddrBit(a, p + n - 1) \in 0 .. 1 /\ v[n] = 2 * v[n - 1] + AddrBit(a, p + n - 1)
      BY <1>2
    <3>5. PICK x, y, b : x = v[n - 1] /\ y = 2^(n - 1) /\ b = AddrBit(a, p + n - 1)
      OBVIOUS
    <3>6. 2 * x + b < 2 * y
      BY <3>1, <3>3, <3>4, <3>5
    <3> QED BY <3>3, <3>4, <3>5, <3>6
  <2>3. 0 .. branch \subseteq S
    <3> HIDE DEF S
    <3> QED BY <2>1, <2>2, RoundByRound
  <2> QED BY <2>3
<1>4. \A d \in 0 .. branch : v[branch] \div 2^d = v[branch - d]
  <2> DEFINE S == {d \in 0 .. branch : v[branch] \div 2^d = v[branch - d]}
  <2>1. 0 \in S
    <3>1. \A x \in Nat : x \div 1 = x
      OBVIOUS
    <3>2. v[branch] \in Nat /\ branch - 0 = branch
      BY <1>2
    <3> QED BY <3>1, <3>2, PowersOfTwo
  <2>2. ASSUME NEW d \in 1 .. branch, d - 1 \in S
        PROVE  d \in S
    <3>1. PICK n \in 1 .. branch : n = branch - (d - 1) /\ n - 1 = branch - d
      <4>1. branch - (d - 1) \in 1 .. branch /\ (branch - (d - 1)) - 1 = branch - d
        OBVIOUS
      <4> QED BY <4>1
    <3>2. d - 1 \in 0 .. KeyBits /\ (d - 1) + 1 = d
      BY Shape
    <3>3. 2^(d - 1) \in Nat \ {0} /\ 2^d = 2 * 2^(d - 1)
      BY <3>2, Doubling
    <3>4. v[branch] \in Nat /\ v[n - 1] \in Nat
      BY <1>2, <3>1
    <3>5. v[branch] \div (2 * 2^(d - 1)) = (v[branch] \div 2^(d - 1)) \div 2
      BY <3>3, <3>4, DivideTwice
    <3>6. v[branch] \div 2^(d - 1) = v[n]
      BY <2>2, <3>1
    <3>7. v[n] \div 2 = v[n - 1]
      <4>1. AddrBit(a, p + n - 1) \in 0 .. 1 /\ v[n] = 2 * v[n - 1] + AddrBit(a, p + n - 1)
        BY <1>2, <3>1
      <4>2. \A x \in Nat, b \in 0 .. 1 : (2 * x + b) \div 2 = x
        OBVIOUS
      <4> QED BY <3>4, <4>1, <4>2
    <3> QED BY <3>1, <3>3, <3>5, <3>6, <3>7
  <2>3. 0 .. branch \subseteq S
    <3> HIDE DEF S
    <3> QED BY <2>1, <2>2, RoundByRound
  <2> QED BY <2>3
<1>5. ASSUME NEW r \in 0 .. branch - 1
      PROVE  SlotBit(v[branch], branch, r) = AddrBit(a, p + r)
  <2>1. PICK d \in 0 .. branch : d = branch - r - 1 /\ branch - d = r + 1
    <3>1. branch - r - 1 \in 0 .. branch /\ branch - (branch - r - 1) = r + 1
      OBVIOUS
    <3> QED BY <3>1
  <2>2. v[branch] \div 2^d = v[r + 1]
    BY <1>4, <2>1
  <2>3. r + 1 \in 1 .. branch /\ (r + 1) - 1 = r /\ p + (r + 1) - 1 = p + r
    OBVIOUS
  <2>4. v[r] \in Nat /\ AddrBit(a, p + r) \in 0 .. 1 /\ v[r + 1] = 2 * v[r] + AddrBit(a, p + r)
    BY <1>2, <2>3
  <2>5. \A x \in Nat, b \in 0 .. 1 : (2 * x + b) % 2 = b
    OBVIOUS
  <2>6. v[r + 1] % 2 = AddrBit(a, p + r)
    BY <2>4, <2>5
  <2> QED BY <2>1, <2>2, <2>6 DEF SlotBit
<1>6. v[branch] \in 0 .. 2^branch - 1
  <2>1. v[branch] < 2^branch /\ v[branch] \in Nat
    BY <1>2, <1>3
  <2>2. 2^branch \in Nat
    BY PowerIsPositive, Shape
  <2> QED BY <2>1, <2>2
<1> QED BY <1>2, <1>5, <1>6

----------------------------------------------------------------------------
(* The walk through the pattern of a slot does not lose a prefix k that    *)
(* holds the address and has no longer prefix inside it.                   *)

Innermost(k, a) ==
  /\ k \in DOMAIN arr /\ Shares(k, a, arr[k].pfxlen)
  /\ \A m \in DOMAIN arr : Shares(m, arr[k].addr, arr[k].pfxlen) => arr[m].pfxlen <= arr[k].pfxlen

Spells(slot, branch, a, p) == \A r \in 0 .. branch - 1 : SlotBit(slot, branch, r) = AddrBit(a, p + r)

OnRoute(T, n, branch, k, s) ==
  /\ s.child # None
  /\ LeadsTo(T, s.child, k)
  /\ T[n].bit + s.used <= T[s.child].bit \/ (s.used >= branch /\ StoredAt(T, s.child, k))

LEMMA RoundIs ==
  ASSUME NEW T, NEW n, NEW branch \in Nat, NEW slot, NEW s, s.child # None, s.used \in Nat,
         s.used < branch, T[s.child].bit \in Int, T[n].bit \in Int,
         T[n].bit + s.used <= T[s.child].bit
  PROVE  LET node  == T[s.child]
             reach == node.bit - T[n].bit
             ends  == IF branch <= reach THEN branch ELSE reach
             below == Child(node, SlotBit(slot, branch, ends))
         IN  /\ s.used <= ends
             /\ WalkRound(T, n, branch, slot, s) =
                  IF \E x \in s.used .. ends - 1 :
                       SlotBit(slot, branch, x) # AddrBit(arr[node.repr].addr, T[n].bit + x)
                  THEN [child |-> None, used |-> branch]
                  ELSE IF ends = branch THEN [child |-> s.child, used |-> branch]
                  ELSE IF below = None
                  THEN [child |-> IF node.prefix # None THEN s.child ELSE None, used |-> branch]
                  ELSE [child |-> below, used |-> ends + 1]
<1>1. PICK reach : reach = T[s.child].bit - T[n].bit
  OBVIOUS
<1>2. PICK used : used = s.used
  OBVIOUS
<1>3. reach \in Int /\ used \in Nat /\ used <= reach /\ used < branch
  BY <1>1, <1>2
<1>4. PICK ends : ends = IF branch <= reach THEN branch ELSE reach
  OBVIOUS
<1>5. Min({branch, Max({used, reach})}) = ends
  <2>1. Max({used, reach}) = reach
    <3>1. Max({used, reach}) = IF used >= reach THEN used ELSE reach
      BY <1>3, MaxOfTwo
    <3> QED BY <1>3, <3>1
  <2>2. Min({branch, reach}) = IF branch <= reach THEN branch ELSE reach
    BY <1>3, MinOfTwo
  <2> QED BY <1>4, <2>1, <2>2
<1>6. used <= ends
  BY <1>3, <1>4
<1>7. Min({branch, Max({s.used, T[s.child].bit - T[n].bit})}) = ends
  BY <1>1, <1>2, <1>5
<1>8. ~(s.child = None \/ s.used >= branch)
  OBVIOUS
<1>9. WalkRound(T, n, branch, slot, s) =
        IF \E x \in s.used .. ends - 1 :
             SlotBit(slot, branch, x) # AddrBit(arr[T[s.child].repr].addr, T[n].bit + x)
        THEN [child |-> None, used |-> branch]
        ELSE IF ends = branch THEN [child |-> s.child, used |-> branch]
        ELSE IF Child(T[s.child], SlotBit(slot, branch, ends)) = None
        THEN [child |-> IF T[s.child].prefix # None THEN s.child ELSE None, used |-> branch]
        ELSE [child |-> Child(T[s.child], SlotBit(slot, branch, ends)), used |-> ends + 1]
  BY <1>7, <1>8, Zenon DEF WalkRound, MatchRound
<1> QED BY <1>1, <1>2, <1>4, <1>6, <1>9, Zenon

\* The bits of an entry that a node leads on are the address's.
LEMMA RouteBits ==
  ASSUME ArrayInv, Built, NEW T, FullTrie(T), NEW c \in DOMAIN T, NEW a \in Address,
         NEW k, Innermost(k, a), LeadsTo(T, c, k)
  PROVE  /\ T[c].bit \in 0 .. KeyBits /\ arr[k].pfxlen \in 0 .. KeyBits /\ T[c].bit <= arr[k].pfxlen
         /\ arr[T[c].repr].addr \in Address /\ arr[k].addr \in Address
         /\ \A x \in 0 .. arr[k].pfxlen - 1 : AddrBit(arr[k].addr, x) = AddrBit(a, x)
         /\ \A x \in 0 .. T[c].bit - 1 : AddrBit(arr[T[c].repr].addr, x) = AddrBit(a, x)
<1>1. /\ k \in DOMAIN arr /\ arr[k].addr \in Address /\ arr[k].pfxlen \in 0 .. KeyBits
      /\ T[c].bit \in 0 .. KeyBits /\ T[c].repr \in DOMAIN arr /\ arr[T[c].repr].addr \in Address
  <2>1. T[c].bit \in 0 .. KeyBits /\ T[c].repr \in DOMAIN arr
    BY DEF FullTrie, TrieOK, NodeType
  <2> QED BY <2>1, SortedShape DEF Innermost
<1>2. /\ arr[k].pfxlen >= T[c].bit
      /\ LeadingBits(arr[k].addr, T[c].bit) = LeadingBits(arr[T[c].repr].addr, T[c].bit)
      /\ LeadingBits(arr[k].addr, arr[k].pfxlen) = LeadingBits(a, arr[k].pfxlen)
  BY DEF LeadsTo, Shares, Innermost
<1>3. ASSUME NEW x \in 0 .. arr[k].pfxlen - 1
      PROVE  AddrBit(arr[k].addr, x) = AddrBit(a, x)
  <2>1. x \in 0 .. arr[k].pfxlen /\ x < arr[k].pfxlen
    BY <1>1, Shape
  <2> QED BY <1>1, <1>2, <2>1, FewerBits
<1>4. ASSUME NEW x \in 0 .. T[c].bit - 1
      PROVE  AddrBit(arr[T[c].repr].addr, x) = AddrBit(a, x)
  <2>1. x \in 0 .. T[c].bit /\ x < T[c].bit /\ x \in 0 .. arr[k].pfxlen - 1
    BY <1>1, <1>2, Shape
  <2>2. AddrBit(arr[k].addr, x) = AddrBit(arr[T[c].repr].addr, x)
    BY <1>1, <1>2, <2>1, FewerBits
  <2> QED BY <1>3, <2>1, <2>2
<1>5. T[c].bit <= arr[k].pfxlen
  BY <1>1, <1>2, Shape
<1> QED BY <1>1, <1>3, <1>4, <1>5

\* Below the node that stores it there is nothing.
LEMMA NothingInside ==
  ASSUME ArrayInv, Built, NEW T, FullTrie(T), NEW c \in DOMAIN T, NEW a \in Address,
         NEW k, Innermost(k, a), LeadsTo(T, c, k), arr[k].pfxlen = T[c].bit, NEW side \in 0 .. 1
  PROVE  Child(T[c], side) = None
<1> SUFFICES ASSUME Child(T[c], side) # None PROVE FALSE
  OBVIOUS
<1>1. PICK d : d = Child(T[c], side)
  OBVIOUS
<1>2. d \in DOMAIN T /\ IsBelow(T, c, side, d)
  <2>1. T[c].left \in DOMAIN T \cup {None} /\ T[c].right \in DOMAIN T \cup {None}
    BY DEF FullTrie, TrieOK, NodeType
  <2> QED BY <1>1, <2>1 DEF FullTrie, TrieOK, Child
<1>3. PICK m \in DOMAIN arr : m = T[d].repr
  BY <1>2 DEF FullTrie, TrieOK, NodeType
<1>4. arr[m].pfxlen >= T[d].bit /\ T[d].bit > T[c].bit /\ LeadsTo(T, c, m)
  BY <1>2, <1>3 DEF FullTrie, TrieOK, IsBelow
<1>5. Shares(m, arr[k].addr, arr[k].pfxlen)
  BY <1>4 DEF LeadsTo, Shares
<1>6. arr[m].pfxlen <= arr[k].pfxlen
  BY <1>3, <1>5 DEF Innermost
<1>7. arr[m].pfxlen \in Int /\ arr[k].pfxlen \in Int /\ T[d].bit \in Int /\ T[c].bit \in Int
  <2>1. T[d].bit \in 0 .. KeyBits /\ T[c].bit \in 0 .. KeyBits
    BY <1>2 DEF FullTrie, TrieOK, NodeType
  <2>2. arr[m].pfxlen \in 0 .. KeyBits /\ arr[k].pfxlen \in 0 .. KeyBits
    BY <1>3, SortedShape DEF Innermost
  <2> QED BY <2>1, <2>2, Shape
<1> QED BY <1>4, <1>6, <1>7

LEMMA RoundLeads ==
  ASSUME ArrayInv, Built, NEW T, FullTrie(T), NEW n \in DOMAIN T, NEW branch \in Nat, NEW slot,
         T[n].bit + branch <= KeyBits,
         NEW a \in Address, NEW k, Innermost(k, a), Spells(slot, branch, a, T[n].bit),
         NEW s \in WalkState(T, n), OnRoute(T, n, branch, k, s)
  PROVE  LET r == WalkRound(T, n, branch, slot, s)
         IN  /\ OnRoute(T, n, branch, k, r)
             /\ s.used >= branch => r = s
             /\ s.used < branch => r.used >= s.used + 1
<1>1. CASE s.used >= branch
  <2>1. WalkRound(T, n, branch, slot, s) = s /\ s.used \in Nat
    BY <1>1 DEF WalkRound, MatchRound, WalkState
  <2> QED BY <1>1, <2>1
<1>2. CASE ~(s.used >= branch)
  <2>1. PICK c : c = s.child
    OBVIOUS
  <2>2. PICK used : used = s.used
    OBVIOUS
  <2>3. PICK bit : bit = T[n].bit
    OBVIOUS
  <2>4. PICK end : end = T[c].bit
    OBVIOUS
  <2>5. /\ c \in DOMAIN T /\ c # None /\ used \in Nat /\ used < branch /\ LeadsTo(T, c, k)
        /\ bit + used <= end
    BY <1>2, <2>1, <2>2, <2>3, <2>4 DEF OnRoute, WalkState, Below
  <2>6. /\ end \in 0 .. KeyBits /\ arr[k].pfxlen \in 0 .. KeyBits /\ end <= arr[k].pfxlen
        /\ \A x \in 0 .. arr[k].pfxlen - 1 : AddrBit(arr[k].addr, x) = AddrBit(a, x)
        /\ \A x \in 0 .. end - 1 : AddrBit(arr[T[c].repr].addr, x) = AddrBit(a, x)
    BY <2>4, <2>5, RouteBits
  <2>7. bit \in 0 .. KeyBits /\ KeyBits \in Nat
    BY <2>3, Shape DEF FullTrie, TrieOK, NodeType
  <2>8. PICK ends : ends = IF branch <= end - bit THEN branch ELSE end - bit
    OBVIOUS
  <2>9. ends \in Nat /\ used <= ends /\ ends <= branch /\ ends <= end - bit
    BY <2>5, <2>6, <2>7, <2>8
  <2>10. PICK below : below = Child(T[c], SlotBit(slot, branch, ends))
    OBVIOUS
  <2>11. PICK round : round = WalkRound(T, n, branch, slot, s)
    OBVIOUS
  <2>12. round = IF \E x \in used .. ends - 1 :
                      SlotBit(slot, branch, x) # AddrBit(arr[T[c].repr].addr, bit + x)
                 THEN [child |-> None, used |-> branch]
                 ELSE IF ends = branch THEN [child |-> c, used |-> branch]
                 ELSE IF below = None
                 THEN [child |-> IF T[c].prefix # None THEN c ELSE None, used |-> branch]
                 ELSE [child |-> below, used |-> ends + 1]
    <3>1. /\ s.child # None /\ s.used \in Nat /\ s.used < branch /\ T[s.child].bit \in Int
          /\ T[n].bit \in Int /\ T[n].bit + s.used <= T[s.child].bit
      BY <2>1, <2>2, <2>3, <2>4, <2>5, <2>6, <2>7
    <3> QED BY <2>1, <2>2, <2>3, <2>4, <2>8, <2>10, <2>11, <3>1, RoundIs
  <2>13. ~\E x \in used .. ends - 1 :
            SlotBit(slot, branch, x) # AddrBit(arr[T[c].repr].addr, bit + x)
    <3> SUFFICES ASSUME NEW x \in used .. ends - 1
                 PROVE  SlotBit(slot, branch, x) = AddrBit(arr[T[c].repr].addr, bit + x)
      OBVIOUS
    <3>1. x \in 0 .. branch - 1 /\ bit + x \in 0 .. end - 1
      BY <2>5, <2>6, <2>7, <2>9
    <3> QED BY <2>3, <2>6, <3>1 DEF Spells
  <2>14. CASE ends = branch
    <3>1. round = [child |-> c, used |-> branch]
      BY <2>12, <2>13, <2>14
    <3>2. bit + branch <= end
      BY <2>6, <2>7, <2>9, <2>14
    <3>3. round.child = c /\ round.used = branch
      BY <3>1
    <3>4. OnRoute(T, n, branch, k, round)
      BY <2>3, <2>4, <2>5, <3>2, <3>3 DEF OnRoute
    <3> QED BY <2>2, <2>5, <2>11, <3>3, <3>4
  <2>15. CASE ends # branch
    <3>1. ends < branch /\ ends = end - bit /\ bit + ends = end
      BY <2>6, <2>7, <2>8, <2>9, <2>15
    <3>2. ends \in 0 .. branch - 1
      BY <2>9, <3>1
    <3>3. SlotBit(slot, branch, ends) = AddrBit(a, end)
      BY <2>3, <3>1, <3>2 DEF Spells
    <3>4. CASE arr[k].pfxlen = end
      <4>1. SlotBit(slot, branch, ends) \in 0 .. 1
        <5>1. end \in 0 .. KeyBits - 1
          BY <2>3, <2>6, <2>7, <3>1
        <5> QED BY <3>3, <5>1, NextBit
      <4>2. below = None
        BY <2>4, <2>5, <2>10, <3>4, <4>1, NothingInside
      <4>3. StoredAt(T, c, k)
        BY <2>4, <2>5, <3>4 DEF FullTrie, TrieOK, Innermost
      <4>4. round = [child |-> c, used |-> branch]
        <5>1. T[c].prefix # None
          BY <4>3 DEF StoredAt
        <5> QED BY <2>12, <2>13, <2>15, <4>2, <5>1
      <4>5. round.child = c /\ round.used = branch
        BY <4>4
      <4>6. OnRoute(T, n, branch, k, round)
        BY <2>5, <4>3, <4>5 DEF OnRoute
      <4> QED BY <2>2, <2>5, <2>11, <4>5, <4>6
    <3>5. CASE arr[k].pfxlen # end
      <4>1. end < arr[k].pfxlen /\ end \in 0 .. arr[k].pfxlen - 1 /\ end \in 0 .. KeyBits - 1
        BY <2>6, <2>7, <3>5
      <4>2. PICK side : side = AddrBit(arr[k].addr, end)
        OBVIOUS
      <4>3. side = SlotBit(slot, branch, ends) /\ side \in 0 .. 1
        BY <2>6, <3>3, <4>1, <4>2, NextBit
      <4>4. GoesTo(T, c, side, k)
        BY <2>4, <2>5, <4>1, <4>2 DEF GoesTo
      <4>5. below = Child(T[c], side) /\ below # None /\ LeadsTo(T, below, k)
        BY <2>5, <2>10, <4>3, <4>4 DEF FullTrie, Innermost
      <4>6. round = [child |-> below, used |-> ends + 1]
        BY <2>12, <2>13, <2>15, <4>5
      <4>7. round.child = below /\ round.used = ends + 1
        BY <4>6
      <4>8. end < T[below].bit /\ T[below].bit \in Int
        <5>1. IsBelow(T, c, side, below)
          BY <2>5, <4>3, <4>5 DEF FullTrie, TrieOK
        <5>2. T[c].left \in DOMAIN T \cup {None} /\ T[c].right \in DOMAIN T \cup {None}
          BY <2>5 DEF FullTrie, TrieOK, NodeType
        <5>3. below \in DOMAIN T
          BY <4>5, <5>2 DEF Child
        <5>4. T[below].bit \in 0 .. KeyBits
          BY <5>3 DEF FullTrie, TrieOK, NodeType
        <5> QED BY <2>4, <2>7, <5>1, <5>4 DEF IsBelow
      <4>9. bit + (ends + 1) <= T[below].bit
        BY <2>6, <2>7, <2>9, <3>1, <4>8
      <4>10. OnRoute(T, n, branch, k, round)
        BY <2>3, <4>5, <4>7, <4>9 DEF OnRoute
      <4>11. ends + 1 >= used + 1
        BY <2>5, <2>9
      <4> QED BY <2>2, <2>5, <2>11, <4>7, <4>10, <4>11
    <3> QED BY <3>4, <3>5
  <2> QED BY <2>14, <2>15
<1> QED BY <1>1, <1>2

LEMMA SlotLeads ==
  ASSUME ArrayInv, Built, NEW T, FullTrie(T), NEW n \in DOMAIN T, NEW branch \in Nat \ {0}, NEW slot,
         T[n].bit + branch <= KeyBits,
         NEW a \in Address, NEW k, Innermost(k, a), Spells(slot, branch, a, T[n].bit),
         LeadsTo(T, n, k), arr[k].pfxlen > T[n].bit
  PROVE  LET m == SlotTarget(T, arr, n, branch, slot)
         IN  /\ m # None /\ LeadsTo(T, m, k)
             /\ T[n].bit + branch <= T[m].bit \/ StoredAt(T, m, k)
<1>1. PICK w : w = Walk(T, n, branch, slot)
  OBVIOUS
<1>2. /\ w \in [0 .. branch -> WalkState(T, n)]
      /\ w[0] = WalkStart(T, n, branch, slot)
      /\ \A x \in 1 .. branch : w[x] = WalkRound(T, n, branch, slot, w[x - 1])
      /\ SlotTarget(T, arr, n, branch, slot) = w[branch].child
  BY <1>1, WalkIs DEF FullTrie
<1>3. PICK bit : bit = T[n].bit
  OBVIOUS
<1>4. bit \in 0 .. KeyBits /\ arr[k].pfxlen \in 0 .. KeyBits /\ KeyBits \in Nat
  BY <1>3, RouteBits, Shape
<1>5. OnRoute(T, n, branch, k, w[0])
  <2>1. 0 \in 0 .. branch - 1 /\ bit + 0 = bit /\ bit \in 0 .. KeyBits - 1
        /\ bit \in 0 .. arr[k].pfxlen - 1
    BY <1>3, <1>4
  <2>2. SlotBit(slot, branch, 0) = AddrBit(a, bit)
    BY <1>3, <2>1 DEF Spells
  <2>3. AddrBit(a, bit) = AddrBit(arr[k].addr, bit) /\ AddrBit(a, bit) \in 0 .. 1
    BY <2>1, RouteBits, NextBit
  <2>4. PICK side \in 0 .. 1 : side = SlotBit(slot, branch, 0)
    BY <2>2, <2>3
  <2>5. GoesTo(T, n, side, k)
    BY <1>3, <2>2, <2>3, <2>4 DEF GoesTo
  <2>6. PICK c : c = Child(T[n], side)
    OBVIOUS
  <2>7. c # None /\ LeadsTo(T, c, k)
    BY <2>5, <2>6 DEF FullTrie, Innermost
  <2>8. w[0].child = c /\ w[0].used = 1
    BY <1>2, <2>4, <2>6 DEF WalkStart
  <2>9. c \in Below(T, n)
    BY <1>2, <2>7, <2>8 DEF WalkState
  <2>10. bit + 1 <= T[c].bit
    <3>1. T[c].bit \in 0 .. KeyBits /\ bit < T[c].bit
      BY <1>3, <2>9 DEF Below, FullTrie, TrieOK, NodeType
    <3> QED BY <1>4, <3>1
  <2> QED BY <1>3, <2>7, <2>8, <2>10 DEF OnRoute
<1> DEFINE S == {x \in 0 .. branch : /\ OnRoute(T, n, branch, k, w[x])
                                     /\ w[x].used >= branch \/ w[x].used >= x + 1}
<1>6. 0 \in S
  <2>1. w[0].used = 1
    BY <1>2 DEF WalkStart
  <2> QED BY <1>5, <2>1
<1>7. ASSUME NEW x \in 1 .. branch, x - 1 \in S
      PROVE  x \in S
  <2>1. PICK s, r : s = w[x - 1] /\ r = w[x]
    OBVIOUS
  <2>2. s \in WalkState(T, n) /\ r \in WalkState(T, n) /\ r = WalkRound(T, n, branch, slot, s)
    BY <1>2, <2>1
  <2>3. OnRoute(T, n, branch, k, s) /\ (s.used >= branch \/ s.used >= x)
    BY <1>7, <2>1
  <2>4. /\ OnRoute(T, n, branch, k, r)
        /\ s.used >= branch => r = s
        /\ s.used < branch => r.used >= s.used + 1
    BY <2>2, <2>3, RoundLeads
  <2>5. s.used \in Nat /\ r.used \in Nat
    BY <2>2 DEF WalkState
  <2>6. r.used >= branch \/ r.used >= x + 1
    BY <2>3, <2>4, <2>5
  <2> QED BY <2>1, <2>4, <2>6
<1>8. branch \in S
  <2>1. 0 .. branch \subseteq S
    <3> HIDE DEF S
    <3> QED BY <1>6, <1>7, RoundByRound
  <2> QED BY <2>1
<1>9. PICK s : s = w[branch]
  OBVIOUS
<1>10. s \in WalkState(T, n) /\ OnRoute(T, n, branch, k, s) /\ s.used >= branch
  <2>1. s \in WalkState(T, n) /\ s.used \in Nat
    BY <1>2, <1>9 DEF WalkState
  <2> QED BY <1>8, <1>9, <2>1
<1>11. bit + s.used <= T[s.child].bit => bit + branch <= T[s.child].bit
  <2>1. s.used \in Nat /\ T[s.child].bit \in 0 .. KeyBits
    BY <1>10 DEF WalkState, OnRoute, Below, FullTrie, TrieOK, NodeType
  <2> QED BY <1>4, <1>10, <2>1
<1> QED BY <1>2, <1>3, <1>9, <1>10, <1>11 DEF OnRoute

----------------------------------------------------------------------------
(* The search: every place visited is one of the packed array, and an      *)
(* innermost prefix is found already or lies ahead.                        *)

Found(x, k) == x \in DOMAIN input /\ SameKey(input[x], arr[k])

Passed(T, p, k) == p.pat = None \/ T[p.pat].bit > arr[k].pfxlen
Ahead(T, p, k) == /\ p.pat # None
                  /\ LeadsTo(T, p.pat, k)
                  /\ p.depth <= T[p.pat].bit \/ StoredAt(T, p.pat, k)
OnTheWay(T, p, k) == (Found(best, k) /\ Passed(T, p, k)) \/ Ahead(T, p, k)

Visiting(T, g) ==
  /\ Places(T, g) /\ DOMAIN packed = DOMAIN g
  /\ at \in DOMAIN g /\ bitPos = g[at].depth
  /\ j \in DOMAIN batch =>
       /\ best # None => best \in Covering(Addr)
       /\ \A k \in DOMAIN arr : Innermost(k, Addr) => OnTheWay(T, g[at], k)

Answers ==
  \A x \in DOMAIN matches :
    /\ matches[x] # None => matches[x] \in Covering(batch[x].addr)
    /\ \A k \in DOMAIN arr : Innermost(k, batch[x].addr) => Found(matches[x], k)

SearchInv == /\ lookup = "search" => \E T, g : Visiting(T, g)
             /\ Answers

LEMMA SameKeySameSpan ==
  ASSUME NEW c, NEW d, SameKey(c, d)
  PROVE  Span(c) = Span(d)
BY DEF SameKey, Span

\* An entry holds an address when the address shares its bits.
LEMMA MatchShares ==
  ASSUME NEW k, IsEntry(arr[k]), NEW a \in Address
  PROVE  PrefixMatches(arr[k], a) <=> Shares(k, a, arr[k].pfxlen)
<1>1. arr[k].addr \in Address /\ arr[k].pfxlen \in 0 .. KeyBits
  BY Shape DEF IsEntry, Pfxlen, MaxPfxlen
<1>2. PrefixMatches(arr[k], a)
        <=> LeadingBits(arr[k].addr, arr[k].pfxlen) = LeadingBits(a, arr[k].pfxlen)
  BY <1>1, AgreeIsEqualBits DEF PrefixMatches
<1>3. arr[k].pfxlen >= arr[k].pfxlen
  BY <1>1, Shape
<1> QED BY <1>2, <1>3 DEF Shares

\* The node of a place that has one.
LEMMA PlaceIs ==
  ASSUME NEW T, NEW g, Places(T, g), NEW s \in DOMAIN packed, DOMAIN packed = DOMAIN g
  PROVE  /\ g[s].pat \in DOMAIN T \cup {None} /\ g[s].depth \in 0 .. KeyBits
         /\ StandsFor(T, g, s, packed[s])
         /\ g[s].pat # None =>
              /\ T[g[s].pat].bit \in 0 .. KeyBits /\ T[g[s].pat].branch \in 0 .. KeyBits
              /\ T[g[s].pat].bit + T[g[s].pat].branch <= KeyBits
              /\ T[g[s].pat].prefix \in DOMAIN arr \cup {None}
              /\ T[g[s].pat].prefix # None =>
                   arr[T[g[s].pat].prefix].pfxlen = T[g[s].pat].bit
<1>1. g[s] \in PlaceType(T)
  BY DEF Places
<1>2. g[s].pat \in DOMAIN T \cup {None} /\ g[s].depth \in 0 .. KeyBits
  BY <1>1 DEF PlaceType
<1>3. StandsFor(T, g, s, packed[s])
  BY DEF Places
<1> QED BY <1>2, <1>3 DEF Places, FullTrie, TrieOK, NodeType

\* What is noted at a place holds the address; and an innermost prefix is noted
\* there, was noted before, or is led on.
LEMMA NotedHolds ==
  ASSUME ArrayInv, Built, NEW T, NEW g, Visiting(T, g), j \in DOMAIN batch, Addr \in Address
  PROVE  Noted(packed[at]) # None => Noted(packed[at]) \in Covering(Addr)
<1>1. /\ at \in DOMAIN packed /\ DOMAIN packed = DOMAIN g /\ Places(T, g)
      /\ best # None => best \in Covering(Addr)
  BY DEF Visiting
<1>2. packed[at].prefix \in DOMAIN arr \cup {None}
  <2>1. CASE g[at].pat = None
    BY <1>1, <2>1, PlaceIs DEF StandsFor, DeadLeaf, PackedNode
  <2>2. CASE g[at].pat # None
    BY <1>1, <2>2, PlaceIs DEF StandsFor
  <2> QED BY <2>1, <2>2
<1>3. CASE packed[at].prefix # None /\ PrefixMatches(arr[packed[at].prefix], Addr)
  <2>1. PICK k \in DOMAIN arr : k = packed[at].prefix
    BY <1>2, <1>3
  <2>2. Noted(packed[at]) = orig[k] /\ PrefixMatches(arr[k], Addr)
    BY <1>3, <2>1 DEF Noted
  <2>3. orig[k] \in DOMAIN input /\ SameKey(arr[k], input[orig[k]])
    BY DEF ArrayInv
  <2>4. arr[k].addr \in Address /\ arr[k].pfxlen \in Pfxlen
    BY SortedShape DEF Pfxlen, MaxPfxlen
  <2>5. Value(Addr) \in Span(arr[k])
    BY <2>2, <2>4, MatchIsMembership
  <2>6. Span(arr[k]) = Span(input[orig[k]])
    BY <2>3, SameKeySameSpan
  <2> QED BY <2>2, <2>3, <2>5, <2>6 DEF Covering
<1>4. CASE ~(packed[at].prefix # None /\ PrefixMatches(arr[packed[at].prefix], Addr))
  BY <1>1, <1>4 DEF Noted
<1> QED BY <1>3, <1>4

LEMMA NotedFinds ==
  ASSUME ArrayInv, Built, NEW T, NEW g, Visiting(T, g), j \in DOMAIN batch, Addr \in Address,
         NEW k \in DOMAIN arr, Innermost(k, Addr)
  PROVE  \/ /\ Found(Noted(packed[at]), k)
            /\ g[at].pat = None \/ T[g[at].pat].bit >= arr[k].pfxlen
         \/ /\ g[at].pat # None /\ LeadsTo(T, g[at].pat, k)
            /\ T[g[at].pat].bit < arr[k].pfxlen /\ g[at].depth <= T[g[at].pat].bit
<1>1. /\ at \in DOMAIN packed /\ DOMAIN packed = DOMAIN g /\ Places(T, g)
      /\ OnTheWay(T, g[at], k)
  BY DEF Visiting
<1>2. IsEntry(arr[k]) /\ arr[k].addr \in Address /\ arr[k].pfxlen \in 0 .. KeyBits
  BY SortedShape DEF IsEntry, Pfxlen, MaxPfxlen
<1>3. PICK n : n = g[at].pat
  OBVIOUS
<1>4. CASE n = None
  <2>1. packed[at].prefix = None
    <3>1. g[at].pat = None
      BY <1>3, <1>4
    <3> QED BY <1>1, <3>1, PlaceIs DEF StandsFor, DeadLeaf, PackedNode
  <2>2. Noted(packed[at]) = best
    BY <2>1 DEF Noted
  <2>3. Found(best, k)
    BY <1>1, <1>3, <1>4 DEF OnTheWay, Ahead
  <2> QED BY <1>3, <1>4, <2>2, <2>3
<1>5. CASE n # None
  <2>1. /\ n \in DOMAIN T /\ T[n].bit \in 0 .. KeyBits
        /\ packed[at].prefix = T[n].prefix /\ T[n].prefix \in DOMAIN arr \cup {None}
        /\ T[n].prefix # None => arr[T[n].prefix].pfxlen = T[n].bit
    BY <1>1, <1>3, <1>5, PlaceIs DEF StandsFor
  <2>2. CASE Found(best, k) /\ Passed(T, g[at], k)
    <3>1. T[n].bit > arr[k].pfxlen
      BY <1>3, <1>5, <2>2 DEF Passed
    <3>2. ASSUME T[n].prefix # None, PrefixMatches(arr[T[n].prefix], Addr)
          PROVE  FALSE
      <4>1. PICK m \in DOMAIN arr : m = T[n].prefix /\ arr[m].pfxlen = T[n].bit
        BY <2>1, <3>2
      <4>2. IsEntry(arr[m]) /\ arr[m].addr \in Address
        BY SortedShape DEF IsEntry, Pfxlen, MaxPfxlen
      <4>3. LeadingBits(arr[m].addr, arr[m].pfxlen) = LeadingBits(Addr, arr[m].pfxlen)
        BY <3>2, <4>1, <4>2, MatchShares DEF Shares
      <4>4. arr[k].pfxlen \in 0 .. arr[m].pfxlen /\ arr[m].pfxlen \in 0 .. KeyBits
        BY <1>2, <2>1, <3>1, <4>1, Shape
      <4>5. LeadingBits(arr[m].addr, arr[k].pfxlen) = LeadingBits(Addr, arr[k].pfxlen)
        BY <4>2, <4>3, <4>4, FewerBits
      <4>6. LeadingBits(arr[k].addr, arr[k].pfxlen) = LeadingBits(Addr, arr[k].pfxlen)
        BY DEF Innermost, Shares
      <4>7. Shares(m, arr[k].addr, arr[k].pfxlen)
        <5>1. arr[m].pfxlen >= arr[k].pfxlen
          BY <1>2, <4>4, Shape
        <5> QED BY <4>5, <4>6, <5>1 DEF Shares
      <4>8. arr[m].pfxlen <= arr[k].pfxlen
        BY <4>7 DEF Innermost
      <4> QED BY <1>2, <2>1, <3>1, <4>1, <4>8, Shape
    <3>3. Noted(packed[at]) = best
      BY <2>1, <3>2 DEF Noted
    <3>4. T[n].bit >= arr[k].pfxlen
      BY <1>2, <2>1, <3>1, Shape
    <3> QED BY <1>3, <2>2, <3>3, <3>4
  <2>3. CASE Ahead(T, g[at], k)
    <3>1. LeadsTo(T, n, k) /\ (g[at].depth <= T[n].bit \/ StoredAt(T, n, k))
      BY <1>3, <2>3 DEF Ahead
    <3>2. CASE StoredAt(T, n, k)
      <4>1. PICK m \in DOMAIN arr : m = T[n].prefix /\ SameKey(arr[m], arr[k]) /\ m # None
        BY <2>1, <3>2 DEF StoredAt
      <4>2. PrefixMatches(arr[k], Addr)
        BY <1>2, MatchShares DEF Innermost
      <4>3. PrefixMatches(arr[m], Addr)
        BY <4>1, <4>2 DEF PrefixMatches, SameKey
      <4>4. Noted(packed[at]) = orig[m]
        BY <2>1, <4>1, <4>3 DEF Noted
      <4>5. orig[m] \in DOMAIN input /\ SameKey(arr[m], input[orig[m]])
        BY DEF ArrayInv
      <4>6. Found(orig[m], k)
        BY <4>1, <4>5 DEF Found, SameKey
      <4>7. T[n].bit >= arr[k].pfxlen
        BY <1>2, <2>1, <4>1, Shape DEF SameKey
      <4> QED BY <1>3, <4>4, <4>6, <4>7
    <3>3. CASE ~StoredAt(T, n, k)
      <4>1. arr[k].pfxlen # T[n].bit
        BY <1>1, <2>1, <3>1, <3>3 DEF Places, FullTrie, TrieOK
      <4>2. arr[k].pfxlen >= T[n].bit
        BY <3>1 DEF LeadsTo, Shares
      <4>3. T[n].bit < arr[k].pfxlen
        BY <1>2, <2>1, <4>1, <4>2, Shape
      <4> QED BY <1>3, <1>5, <3>1, <3>3, <4>3
    <3> QED BY <3>2, <3>3
  <2> QED BY <1>1, <2>2, <2>3 DEF OnTheWay
<1> QED BY <1>4, <1>5

\* Going down from a place leads to a place, at the depth it was packed for.
LEMMA GoesDownTo ==
  ASSUME ArrayInv, Built, NEW T, NEW g, Visiting(T, g), Addr \in Address, GoesDown(packed[at])
  PROVE  LET n    == g[at].pat
             slot == Extract(Addr, T[n].bit, T[n].branch)
             to == packed[at].base + slot
         IN  /\ n \in DOMAIN T /\ n # None /\ T[n].branch \in Nat \ {0}
             /\ T[n].bit + T[n].branch <= KeyBits /\ T[n].bit \in Nat
             /\ packed[at].branch = T[n].branch
             /\ bitPos + packed[at].skip = T[n].bit
             /\ Spells(slot, T[n].branch, Addr, T[n].bit)
             /\ to \in DOMAIN g
             /\ g[to] = PlaceOf(SlotTarget(T, arr, n, T[n].branch, slot), T[n].bit + T[n].branch)
<1>1. at \in DOMAIN packed /\ DOMAIN packed = DOMAIN g /\ Places(T, g) /\ bitPos = g[at].depth
  BY DEF Visiting
<1>2. PICK p : p = packed[at]
  OBVIOUS
<1>3. PICK n : n = g[at].pat
  OBVIOUS
<1>4. p.branch > 0 /\ bitPos + p.skip + p.branch <= KeyBits
  BY <1>2 DEF GoesDown
<1>5. n # None
  <2> SUFFICES ASSUME n = None PROVE FALSE
    OBVIOUS
  <2>1. g[at].pat = None
    BY <1>3
  <2>2. p.branch = 0
    BY <1>1, <1>2, <2>1, PlaceIs DEF StandsFor, DeadLeaf, PackedNode
  <2> QED BY <1>4, <2>2
<1>6. PICK bit, depth, branch : bit = T[n].bit /\ depth = g[at].depth /\ branch = T[n].branch
  OBVIOUS
<1>7. /\ n \in DOMAIN T /\ bit \in 0 .. KeyBits /\ depth \in 0 .. KeyBits /\ branch \in 0 .. KeyBits
      /\ bit + branch <= KeyBits
  BY <1>1, <1>3, <1>5, <1>6, PlaceIs
<1>8. StandsFor(T, g, at, p) /\ g[at].pat # None /\ g[at].pat = n
  BY <1>1, <1>2, <1>3, <1>5, PlaceIs
<1>9. p.branch = branch /\ p.skip = Skip(bit, depth) /\ branch > 0
  BY <1>4, <1>6, <1>8 DEF StandsFor
<1>10. bitPos + p.skip = bit
  <2>1. depth + Skip(bit, depth) = IF depth <= bit THEN bit ELSE SkipSize + bit
    BY <1>7, SkipIs
  <2>2. SkipSize \in Nat /\ SkipSize > KeyBits
    BY SkipAssumption, Shape
  <2>3. depth + Skip(bit, depth) + branch <= KeyBits
    BY <1>1, <1>4, <1>6, <1>9
  <2>4. Skip(bit, depth) \in Nat
    BY <1>7, SkipIs
  <2>5. depth + Skip(bit, depth) = bit
    BY <1>7, <2>1, <2>2, <2>3, <2>4, Shape
  <2> QED BY <1>1, <1>6, <1>9, <2>5
<1>11. PICK slot : slot = Extract(Addr, bit, branch)
  OBVIOUS
<1>12. slot \in 0 .. 2^branch - 1 /\ Spells(slot, branch, Addr, bit)
  BY <1>7, <1>11, ExtractIs, Shape DEF Spells
<1>13. /\ p.base + slot \in DOMAIN g
       /\ g[p.base + slot] = PlaceOf(SlotTarget(T, arr, n, branch, slot), bit + branch)
  BY <1>6, <1>8, <1>9, <1>12 DEF StandsFor
<1>14. branch \in Nat \ {0} /\ bit \in Nat
  BY <1>7, <1>9, Shape
<1> QED BY <1>2, <1>3, <1>5, <1>6, <1>7, <1>9, <1>10, <1>11, <1>12, <1>13, <1>14

\* A node that leads an innermost prefix on has a slot for it.
LEMMA LeadsDown ==
  ASSUME ArrayInv, Built, NEW T, NEW g, Visiting(T, g), Addr \in Address,
         NEW k \in DOMAIN arr, Innermost(k, Addr), g[at].pat # None, LeadsTo(T, g[at].pat, k),
         T[g[at].pat].bit < arr[k].pfxlen, g[at].depth <= T[g[at].pat].bit
  PROVE  GoesDown(packed[at])
<1>1. /\ at \in DOMAIN packed /\ DOMAIN packed = DOMAIN g /\ Places(T, g) /\ bitPos = g[at].depth
      /\ FullTrie(T)
  BY DEF Visiting, Places
<1>2. PICK n : n = g[at].pat
  OBVIOUS
<1>3. PICK bit, depth, branch : bit = T[n].bit /\ depth = g[at].depth /\ branch = T[n].branch
  OBVIOUS
<1>4. /\ n \in DOMAIN T /\ bit \in 0 .. KeyBits /\ depth \in 0 .. KeyBits /\ branch \in 0 .. KeyBits
      /\ bit + branch <= KeyBits /\ depth <= bit
  BY <1>1, <1>2, <1>3, PlaceIs
<1>5. packed[at].branch = branch /\ packed[at].skip = Skip(bit, depth)
  BY <1>1, <1>2, <1>3, PlaceIs, SMTT(30) DEF StandsFor
<1>6. depth + Skip(bit, depth) = bit /\ Skip(bit, depth) \in Nat
  BY <1>4, SkipIs
<1>7. branch # 0
  <2>1. arr[k].addr \in Address /\ arr[k].pfxlen \in 0 .. KeyBits
    BY SortedShape
  <2>2. bit \in 0 .. KeyBits - 1
    BY <1>2, <1>3, <1>4, <2>1, Shape
  <2>3. PICK side \in 0 .. 1 : side = AddrBit(arr[k].addr, bit)
    BY <2>1, <2>2, NextBit
  <2>4. GoesTo(T, n, side, k)
    BY <1>2, <1>3, <2>3 DEF GoesTo
  <2>5. Child(T[n], side) # None
    BY <1>1, <1>4, <2>4 DEF FullTrie
  <2>6. ~IsLeaf(T[n])
    BY <2>5 DEF IsLeaf, Child
  <2> QED BY <1>1, <1>3, <1>4, <2>6 DEF FullTrie
<1> QED BY <1>1, <1>3, <1>4, <1>5, <1>6, <1>7, Shape DEF GoesDown

\* Every search starts at the root, which leads everything on.
LEMMA SearchStarts ==
  ASSUME ArrayInv, Built, NEW T, NEW g, Places(T, g), NEW k \in DOMAIN arr
  PROVE  0 \in DOMAIN g /\ g[0].depth = 0 /\ Ahead(T, g[0], k)
<1>1. 0 \in DOMAIN g /\ g[0] = PlaceOf(0, 0)
  BY DEF Places
<1>2. FullTrie(T)
  BY DEF Places
<1>3. 0 \in DOMAIN T /\ LeadsTo(T, 0, k) /\ 0 <= T[0].bit
  BY <1>2, Shape DEF FullTrie, TrieOK, NodeType
<1> QED BY <1>1, <1>3 DEF Ahead, PlaceOf, None

LEMMA PlacesRemain ==
  ASSUME UNCHANGED <<arr, packed, packedNext>>, NEW T, NEW g, Places(T, g)
  PROVE  Places(T, g)'
BY SMTT(30) DEF Places, FullTrie, TrieOK, NodeType, LeadsTo, GoesTo, StoredAt, Shares, IsBelow, SameKey,
       StandsFor

LEMMA SearchedAddress ==
  ASSUME LookupInv, Searching
  PROVE  Built /\ j \in DOMAIN batch /\ Addr \in Address /\ batch \in Batches
<1>1. /\ published /\ batch \in Batches /\ j \in 1 .. Len(batch) + 1 /\ j <= Len(batch)
  BY DEF LookupInv, Searching
<1>2. Len(batch) \in Nat /\ DOMAIN batch = 1 .. Len(batch) /\ \A k \in DOMAIN batch : batch[k].addr \in Address
  BY <1>1, BatchShape
<1>3. j \in DOMAIN batch
  BY <1>1, <1>2
<1> QED BY <1>1, <1>2, <1>3 DEF Built, Addr

LEMMA DescendKeeps ==
  ASSUME ArrayInv, LookupInv, SearchInv, Descend
  PROVE  SearchInv'
<1>1. /\ Searching /\ GoesDown(packed[at]) /\ best' = Noted(packed[at])
      /\ at' = packed[at].base + Extract(Addr, bitPos + packed[at].skip, packed[at].branch)
      /\ bitPos' = bitPos + packed[at].skip + packed[at].branch
      /\ UNCHANGED <<arr, input, packed, packedNext, batch, lookup, j, matches>>
  BY DEF Descend, vars, engineVars, given, idxVars
<1>2. Built /\ j \in DOMAIN batch /\ Addr \in Address
  BY <1>1, SearchedAddress
<1>3. PICK T, g : Visiting(T, g)
  BY <1>1 DEF SearchInv, Searching
<1>4. PICK n : n = g[at].pat
  OBVIOUS
<1>5. PICK bit, branch : bit = T[n].bit /\ branch = T[n].branch
  OBVIOUS
<1>6. PICK a : a = Addr
  OBVIOUS
<1>7. PICK slot : slot = Extract(a, bit, branch)
  OBVIOUS
<1>8. PICK to : to = packed[at].base + slot
  OBVIOUS
<1>9. /\ n \in DOMAIN T /\ n # None /\ branch \in Nat \ {0} /\ bit + branch <= KeyBits /\ bit \in Nat
      /\ packed[at].branch = branch /\ bitPos + packed[at].skip = bit
      /\ Spells(slot, branch, a, bit) /\ to \in DOMAIN g
      /\ g[to] = PlaceOf(SlotTarget(T, arr, n, branch, slot), bit + branch)
  BY <1>1, <1>2, <1>3, <1>4, <1>5, <1>6, <1>7, <1>8, GoesDownTo
<1>10. PICK m : m = SlotTarget(T, arr, n, branch, slot)
  OBVIOUS
<1>11. at' = to /\ bitPos' = bit + branch /\ g[to].pat = m /\ g[to].depth = bit + branch
  BY <1>1, <1>6, <1>7, <1>8, <1>9, <1>10 DEF PlaceOf
<1>12. Places(T, g) /\ FullTrie(T) /\ DOMAIN packed = DOMAIN g
  BY <1>3 DEF Visiting, Places
<1>13. Places(T, g)'
  BY <1>1, <1>12, PlacesRemain
<1>14. best' # None => best' \in Covering(a)
  BY <1>1, <1>2, <1>3, <1>6, NotedHolds
<1>15. ASSUME NEW k \in DOMAIN arr, Innermost(k, a)
       PROVE  (Found(best', k) /\ Passed(T, g[to], k)) \/ Ahead(T, g[to], k)
  <2>1. CASE Found(best', k) /\ T[n].bit >= arr[k].pfxlen
    <3>1. m \in Below(T, n) \cup {None}
      BY <1>9, <1>10, <1>12, SlotTargetIs DEF FullTrie
    <3>2. ASSUME m # None PROVE T[m].bit > arr[k].pfxlen
      <4>1. m \in DOMAIN T /\ T[n].bit < T[m].bit
        BY <3>1, <3>2 DEF Below
      <4>2. T[m].bit \in 0 .. KeyBits /\ T[n].bit \in 0 .. KeyBits
        BY <1>9, <1>12, <4>1 DEF FullTrie, TrieOK, NodeType
      <4>3. arr[k].pfxlen \in 0 .. KeyBits
        BY <1>2, SortedShape
      <4> QED BY <2>1, <4>1, <4>2, <4>3, Shape
    <3> QED BY <1>11, <2>1, <3>2 DEF Passed
  <2>2. CASE LeadsTo(T, n, k) /\ T[n].bit < arr[k].pfxlen
    <3>1. arr[k].pfxlen > T[n].bit /\ T[n].bit + branch <= KeyBits /\ Spells(slot, branch, a, T[n].bit)
      BY <1>5, <1>9, <2>2
    <3>2. m # None /\ LeadsTo(T, m, k) /\ (T[n].bit + branch <= T[m].bit \/ StoredAt(T, m, k))
      BY <1>2, <1>6, <1>9, <1>10, <1>12, <1>15, <2>2, <3>1, SlotLeads
    <3> QED BY <1>5, <1>11, <3>2 DEF Ahead
  <2> QED BY <1>1, <1>2, <1>3, <1>4, <1>6, <1>9, <1>15, <2>1, <2>2, NotedFinds
<1>16. Visiting(T, g)'
  <2>1. (best # None => best \in Covering(Addr))'
    BY <1>1, <1>6, <1>14 DEF Covering, Addr
  <2>2. (\A k \in DOMAIN arr : Innermost(k, Addr) => OnTheWay(T, g[at], k))'
    <3>1. Addr' = a /\ DOMAIN arr' = DOMAIN arr
      BY <1>1, <1>6 DEF Addr
    <3>2. \A k \in DOMAIN arr : Innermost(k, a)' <=> Innermost(k, a)
      BY <1>1 DEF Innermost, Shares
    <3>3. \A k \in DOMAIN arr :
            OnTheWay(T, g[to], k)' <=> (Found(best', k) /\ Passed(T, g[to], k)) \/ Ahead(T, g[to], k)
      BY <1>1 DEF OnTheWay, Found, Passed, Ahead, LeadsTo, StoredAt, Shares, SameKey
    <3>4. ASSUME NEW k \in DOMAIN arr', Innermost(k, a)'
          PROVE  OnTheWay(T, g[to], k)'
      BY <1>15, <3>1, <3>2, <3>3, <3>4
    <3> QED BY <1>11, <3>1, <3>4
  <2>3. DOMAIN packed' = DOMAIN g
    BY <1>1, <1>12
  <2>4. at' \in DOMAIN g /\ bitPos' = g[at'].depth
    BY <1>9, <1>11
  <2> QED BY <1>13, <2>1, <2>2, <2>3, <2>4 DEF Visiting
<1>17. Answers'
  BY <1>1 DEF SearchInv, Answers, Found, Innermost, Shares, Covering, SameKey
<1> QED BY <1>16, <1>17 DEF SearchInv

LEMMA StopKeeps ==
  ASSUME ArrayInv, LookupInv, SearchInv, Stop
  PROVE  SearchInv'
<1>1. /\ Searching /\ ~GoesDown(packed[at])
      /\ matches' = [k \in DOMAIN matches \cup {j} |->
                       IF k = j THEN Noted(packed[at]) ELSE matches[k]]
      /\ j' = j + 1 /\ at' = 0 /\ bitPos' = 0 /\ best' = None
      /\ UNCHANGED <<arr, input, packed, packedNext, batch, lookup>>
  BY DEF Stop, vars, engineVars, given, idxVars
<1>2. Built /\ j \in DOMAIN batch /\ Addr \in Address
  BY <1>1, SearchedAddress
<1>3. PICK T, g : Visiting(T, g)
  BY <1>1 DEF SearchInv, Searching
<1>4. Places(T, g) /\ DOMAIN packed = DOMAIN g
  BY <1>3 DEF Visiting
<1>5. Places(T, g)'
  BY <1>1, <1>4, PlacesRemain
<1>6. PICK x, a, y : x = j /\ a = Addr /\ y = Noted(packed[at])
  OBVIOUS
<1>7. ASSUME NEW k \in DOMAIN arr, Innermost(k, a)
      PROVE  Found(y, k)
  BY <1>1, <1>2, <1>3, <1>6, <1>7, NotedFinds, LeadsDown
<1>8. y # None => y \in Covering(a)
  BY <1>2, <1>3, <1>6, NotedHolds
<1>9. Answers'
  <2> SUFFICES ASSUME NEW z \in DOMAIN matches'
               PROVE  /\ matches'[z] # None => matches'[z] \in Covering(batch[z].addr)
                      /\ \A k \in DOMAIN arr : Innermost(k, batch[z].addr) => Found(matches'[z], k)
    BY <1>1 DEF Answers, Found, Innermost, Shares, Covering, SameKey
  <2>1. CASE z = x
    <3>1. matches'[z] = y /\ batch[z].addr = a
      BY <1>1, <1>6, <2>1 DEF Addr
    <3> QED BY <1>7, <1>8, <3>1
  <2>2. CASE z # x
    <3>1. z \in DOMAIN matches /\ matches'[z] = matches[z]
      BY <1>1, <1>6, <2>2
    <3> QED BY <3>1 DEF SearchInv, Answers
  <2> QED BY <2>1, <2>2
<1>10. Visiting(T, g)'
  <2>1. 0 \in DOMAIN g /\ g[0].depth = 0
    BY <1>4 DEF Places, PlaceOf
  <2>2. \A k \in DOMAIN arr : Ahead(T, g[0], k)
    BY <1>2, <1>4, SearchStarts
  <2>3. (\A k \in DOMAIN arr : OnTheWay(T, g[at], k))'
    BY <1>1, <2>2 DEF OnTheWay, Ahead, LeadsTo, Shares, StoredAt, SameKey
  <2> QED BY <1>1, <1>4, <1>5, <2>1, <2>3 DEF Visiting
<1> QED BY <1>9, <1>10 DEF SearchInv

LEMMA AnswersStay ==
  ASSUME Answers, UNCHANGED <<arr, input, batch, matches>>
  PROVE  Answers'
BY DEF Answers, Found, Innermost, Shares, Covering, SameKey

LEMMA BeginSearches ==
  ASSUME ArrayInv, LookupInv, PackInv, SearchInv, NEW b \in Batches, LookupBegin(b)
  PROVE  SearchInv'
<1>1. /\ published /\ lookup = "idle" /\ DOMAIN matches = {} /\ at = 0 /\ bitPos = 0 /\ best = None
      /\ UNCHANGED <<arr, input, packed, packedNext, matches, at, bitPos, best>>
  BY DEF LookupBegin, Call, LookupInv, vars, engineVars, given, idxVars
<1>2. Built
  BY <1>1 DEF Built
<1>3. PICK T, g : Places(T, g) /\ DOMAIN packed = DOMAIN g
  BY <1>1 DEF PackInv
<1>4. Places(T, g)'
  BY <1>1, <1>3, PlacesRemain
<1>5. Visiting(T, g)'
  <2>1. 0 \in DOMAIN g /\ g[0].depth = 0
    BY <1>3 DEF Places, PlaceOf
  <2>2. \A k \in DOMAIN arr : Ahead(T, g[0], k)
    BY <1>2, <1>3, SearchStarts
  <2>3. (\A k \in DOMAIN arr : OnTheWay(T, g[at], k))'
    BY <1>1, <2>2 DEF OnTheWay, Ahead, LeadsTo, Shares, StoredAt, SameKey
  <2> QED BY <1>1, <1>3, <1>4, <2>1, <2>3 DEF Visiting
<1>6. Answers'
  BY <1>1 DEF Answers
<1> QED BY <1>5, <1>6 DEF SearchInv

LEMMA SearchStep ==
  ArrayInv /\ HeapInv /\ LookupInv /\ PackInv /\ SearchInv /\ [SystemNext]_allVars => SearchInv'
<1> SUFFICES ASSUME ArrayInv, HeapInv, LookupInv, PackInv, SearchInv, [SystemNext]_allVars
             PROVE  SearchInv'
  OBVIOUS
<1>1. CASE CreateNext /\ UNCHANGED lookupVars
  <2>1. lookup = "idle"
    BY <1>1, CreateIsOver DEF LookupInv
  <2>2. lookup' = "idle" /\ DOMAIN matches' = {}
    BY <1>1, <2>1 DEF LookupInv, lookupVars
  <2> QED BY <2>2 DEF SearchInv, Answers
<1>2. CASE Destroy /\ lookup # "search" /\ UNCHANGED lookupVars
  <2>1. UNCHANGED <<arr, input, batch, matches>> /\ lookup' # "search"
    BY <1>2 DEF Destroy, lookupVars, engineVars, given
  <2> QED BY <2>1, AnswersStay DEF SearchInv
<1>3. ASSUME NEW b \in Batches, LookupEmpty(b) \/ LookupRefused(b) PROVE SearchInv'
  <2>1. lookup' = "returned" /\ matches' = matches /\ lookup = "idle"
    BY <1>3 DEF LookupEmpty, LookupRefused, Call
  <2>2. DOMAIN matches' = {}
    BY <2>1 DEF LookupInv
  <2> QED BY <2>1, <2>2 DEF SearchInv, Answers
<1>4. ASSUME NEW b \in Batches, LookupBegin(b) PROVE SearchInv'
  BY <1>4, BeginSearches
<1>5. CASE Descend
  BY <1>5, DescendKeeps
<1>6. CASE Stop
  BY <1>6, StopKeeps
<1>7. CASE LookupReturn
  <2>1. UNCHANGED <<arr, input, batch, matches>> /\ lookup' = "returned"
    BY <1>7 DEF LookupReturn, vars, engineVars, given
  <2> QED BY <2>1, AnswersStay DEF SearchInv
<1>8. CASE UNCHANGED allVars
  <2>1. UNCHANGED <<arr, input, batch, matches, lookup, packed, packedNext, at, bitPos, j, best>>
    BY <1>8 DEF allVars, lookupVars, vars, engineVars, given, idxVars
  <2>2. Answers'
    BY <2>1, AnswersStay DEF SearchInv
  <2>3. ASSUME lookup' = "search" PROVE (\E T, g : Visiting(T, g))'
    <3>1. PICK T, g : Visiting(T, g)
      BY <2>1, <2>3 DEF SearchInv
    <3>2. Places(T, g)'
      BY <2>1, <3>1, PlacesRemain DEF Visiting
    <3>3. Visiting(T, g)'
      BY <2>1, <3>1, <3>2 DEF Visiting, Addr, Covering, Innermost, Shares, OnTheWay, Found, Passed,
                              Ahead, LeadsTo, StoredAt, SameKey
    <3> QED BY <3>3
  <2> QED BY <2>2, <2>3 DEF SearchInv
<1> QED BY <1>1, <1>2, <1>3, <1>4, <1>5, <1>6, <1>7, <1>8, SystemStep DEF LookupNext

LEMMA SearchAlways == SystemSpec => []SearchInv
<1>1. LookupInit => SearchInv
  BY DEF LookupInit, SearchInv, Answers, Empty
<1>2. ArrayInv /\ HeapInv /\ LookupInv /\ PackInv /\ SearchInv /\ [SystemNext]_allVars => SearchInv'
  BY SearchStep
<1> QED BY <1>1, <1>2, ArrayAlways, HeapAlways, LookupAlways, PackAlways, PTL DEF SystemSpec

\* Whatever bits the addresses have, a lookup only visits slots that the packing
\* wrote.
THEOREM LookupStaysInside == SystemSpec => []VisitsWrittenNodes
<1>1. SearchInv => VisitsWrittenNodes
  BY DEF SearchInv, Visiting, VisitsWrittenNodes
<1> QED BY <1>1, SearchAlways, PTL

\* What a lookup reports for an address contains it.
THEOREM MatchesAreRight == SystemSpec => []NeverWrongMatch
<1>1. SearchInv => NeverWrongMatch
  BY DEF SearchInv, Answers, NeverWrongMatch
<1> QED BY <1>1, SearchAlways, PTL

\* Every entry of the input is somewhere in the array.
LEMMA InputIsSorted ==
  ASSUME ArrayInv, NEW l \in DOMAIN input
  PROVE  \E k \in DOMAIN arr : SameKey(arr[k], input[l])
<1> DEFINE D == DOMAIN input
           f == [k \in D |-> arr[k].src]
<1>1. IsFiniteSet(D) /\ D = DOMAIN arr /\ \A k \in D : arr[k].src \in D
  BY ArrayShape DEF IsPrefixArray
<1>2. f \in [D -> D]
  BY <1>1
<1>3. \A k, m \in D : f[k] = f[m] => k = m
  BY <1>1 DEF ArrayInv, Permutes
<1> HIDE DEF f, D
<1>4. f \in Surjection(D, D)
  <2>1. f \in Injection(D, D)
    BY <1>2, <1>3 DEF Injection, IsInjective
  <2> QED BY <1>1, <2>1, FS_Injection
<1>5. PICK k \in D : f[k] = l
  BY <1>4 DEF Surjection, D
<1>6. arr[k].src = l
  BY <1>5 DEF f
<1> QED BY <1>1, <1>5, <1>6 DEF ArrayInv, Permutes

\* The most specific prefix of an address, when no longer prefix lies inside it,
\* is found.
THEOREM InnermostIsFound == SystemSpec => []InnermostFound
<1>1. ArrayInv /\ LookupInv /\ SearchInv => InnermostFound
  <2> SUFFICES ASSUME ArrayInv, LookupInv, SearchInv, NEW x \in DOMAIN matches,
                      NEW l \in Longest(batch[x].addr),
                      \A m \in DOMAIN input : input[m].pfxlen > input[l].pfxlen =>
                        ~(Value(input[m].addr) \in Span(input[l]))
               PROVE  matches[x] \in Longest(batch[x].addr)
    BY DEF InnermostFound
  <2>1. PICK a : a = batch[x].addr
    OBVIOUS
  <2>2. a \in Address
    <3>1. lookup # "idle" /\ batch \in Batches
      BY DEF LookupInv
    <3>2. /\ Len(batch) \in Nat /\ DOMAIN batch = 1 .. Len(batch)
          /\ \A k \in DOMAIN batch : batch[k].addr \in Address
      BY <3>1, BatchShape
    <3>3. x \in DOMAIN batch
      <4>1. CASE lookup = "search"
        BY <3>2, <4>1 DEF LookupInv
      <4>2. CASE lookup = "returned"
        BY <4>2 DEF LookupInv, AllOrNothing
      <4> QED BY <3>1, <4>1, <4>2 DEF LookupInv
    <3> QED BY <2>1, <3>2, <3>3
  <2>3. l \in DOMAIN input /\ Value(a) \in Span(input[l])
    BY <2>1 DEF Longest, Covering
  <2>4. PICK k \in DOMAIN arr : SameKey(arr[k], input[l])
    BY <2>3, InputIsSorted
  <2>5. \A m \in DOMAIN arr : /\ IsEntry(arr[m]) /\ arr[m].addr \in Address
                              /\ arr[m].pfxlen \in Pfxlen /\ arr[m].pfxlen \in 0 .. KeyBits
                              /\ arr[m].src \in DOMAIN input /\ SameKey(arr[m], input[arr[m].src])
    <3>1. \A m \in DOMAIN arr : IsEntry(arr[m]) /\ arr[m].src \in DOMAIN input
      BY ArrayShape DEF IsPrefix
    <3> QED BY <3>1 DEF ArrayInv, Permutes, IsEntry, Pfxlen, MaxPfxlen
  <2>6. Span(arr[k]) = Span(input[l]) /\ arr[k].pfxlen = input[l].pfxlen
    BY <2>4, SameKeySameSpan DEF SameKey
  <2>7. Shares(k, a, arr[k].pfxlen)
    <3>1. PrefixMatches(arr[k], a)
      BY <2>2, <2>3, <2>5, <2>6, MatchIsMembership
    <3> QED BY <2>2, <2>5, <3>1, MatchShares
  <2>8. ASSUME NEW m \in DOMAIN arr, Shares(m, arr[k].addr, arr[k].pfxlen)
        PROVE  arr[m].pfxlen <= arr[k].pfxlen
    <3> SUFFICES ASSUME ~(arr[m].pfxlen <= arr[k].pfxlen) PROVE FALSE
      OBVIOUS
    <3>1. arr[m].pfxlen > arr[k].pfxlen /\ arr[k].pfxlen >= arr[k].pfxlen
      BY <2>5, Shape
    <3>2. Shares(k, arr[m].addr, arr[k].pfxlen)
      BY <2>8, <3>1 DEF Shares
    <3>3. Value(arr[m].addr) \in Span(arr[k])
      BY <2>5, <3>2, MatchShares, MatchIsMembership
    <3>4. PICK e \in DOMAIN input : e = arr[m].src /\ SameKey(arr[m], input[e])
      BY <2>5
    <3> QED BY <2>6, <3>1, <3>3, <3>4 DEF SameKey
  <2>9. Innermost(k, a)
    BY <2>7, <2>8 DEF Innermost
  <2>10. matches[x] \in DOMAIN input /\ SameKey(input[matches[x]], arr[k])
    BY <2>1, <2>9 DEF SearchInv, Answers, Found
  <2>11. Span(input[matches[x]]) = Span(input[l]) /\ input[matches[x]].pfxlen = input[l].pfxlen
    BY <2>6, <2>10, SameKeySameSpan DEF SameKey
  <2> QED BY <2>1, <2>3, <2>10, <2>11 DEF Longest, Covering
<1> QED BY <1>1, ArrayAlways, LookupAlways, SearchAlways, PTL
=============================================================================
