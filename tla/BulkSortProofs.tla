--------------------------- MODULE BulkSortProofs ---------------------------
(***************************************************************************)
(* cidr_bulk_sort, for arrays of any length and bytes of any width: types, *)
(* the safety of the partition, that no prefix and no family is lost, and  *)
(* the order of the result.  Then cidr_bulk_contains on a table of any     *)
(* length, sorted or not: no answer is partial, and after the descending   *)
(* sort every answer is the longest match, the first listed of equal ones. *)
(***************************************************************************)
EXTENDS BulkContains, RadixProofs

\* In the state of the call: the positions are those of the input, and the
\* first one exists when there is anything to sort.
LEMMA ArrayShape ==
  ASSUME TypeOK
  PROVE  /\ IsPrefixArray(input)
         /\ count \in Nat
         /\ DOMAIN input = 0 .. count - 1
         /\ DOMAIN arr = DOMAIN input
         /\ Bound = 0 .. count
         /\ count > 0 => 0 \in DOMAIN input
<1>1. IsPrefixArray(input) /\ count = Cardinality(DOMAIN input)
  BY DEF TypeOK, EngineTypeOK
<1> QED BY <1>1, Positions DEF TypeOK, EngineTypeOK, Bound

LEMMA InitShape == Init => ShapeInv
<1> SUFFICES ASSUME Init PROVE ShapeInv
  OBVIOUS
<1>1. IsPrefixArray(input)
  BY ArraysAssumption DEF Init, ArrayInit
<1>2. /\ Cardinality(DOMAIN input) \in Nat
      /\ DOMAIN input = 0 .. Cardinality(DOMAIN input) - 1
      /\ input \in [DOMAIN input -> [addr : Address, pfxlen : Pfxlen, fam : Family]]
  BY <1>1, Positions DEF IsPrefixArray
<1>3. arr = [k \in DOMAIN input |-> [addr |-> input[k].addr, pfxlen |-> input[k].pfxlen,
                                     fam |-> input[k].fam, src |-> k]]
  BY DEF Init, ArrayInit
<1>4. arr \in [DOMAIN input -> Cell]
  BY <1>2, <1>3 DEF Cell
<1>5. EngineTypeOK
  <2>1. 0 \in Bound
    BY <1>2 DEF Bound
  <2>2. NoFrame \in FrameType
    BY <2>1 DEF NoFrame, Frame, FrameType, Keys
  <2> QED BY <1>1, <1>4, <2>1, <2>2
      DEF Init, ArrayInit, EngineInit, NoLoop, EngineTypeOK
<1>6. TypeOK
  BY <1>2, <1>5 DEF Init, ArrayInit, TypeOK, Bound, Family
<1>7. PartitionInv /\ EngineIdle
  BY DEF Init, ArrayInit, EngineInit, NoLoop, PartitionInv, EngineIdle
<1>8. Permutes /\ OwnFamily /\ \A k \in DOMAIN arr : arr[k].src = k
  BY <1>3 DEF Permutes, SameKey, OwnFamily
<1> QED BY <1>6, <1>7, <1>8 DEF ShapeInv, Init, Sorting

----------------------------------------------------------------------------
(* The actions of the call, one lemma each.                                *)

\* Every return without sorting leaves the array as it was passed.
LEMMA RejectPreserves ==
  ASSUME ShapeInv, phase = "call", phase' = "done",
         ret' \in {"OK", "INVAL", "FAMILY"},
         UNCHANGED <<engineVars, input, count, order, family, run>>
  PROVE  ShapeInv'
<1>1. EngineTypeOK' /\ PartitionInv' /\ Permutes'
  BY EngineIdleStep DEF ShapeInv, TypeOK
<1>2. TypeOK'
  BY <1>1 DEF ShapeInv, TypeOK, Bound
<1>3. EngineIdle' /\ OwnFamily'
  BY DEF ShapeInv, Sorting, EngineIdle, OwnFamily, engineVars
<1> QED BY <1>1, <1>2, <1>3 DEF ShapeInv, Sorting

\* The first call of the ascending sort.
LEMMA BeginAscPreserves ==
  ASSUME ShapeInv, BeginAsc
  PROVE  ShapeInv'
<1>1. /\ phase = "call" /\ order = "ASC" /\ count > 0 /\ OneFamily
      /\ family' = arr[0].fam
      /\ phase' = "sort"
      /\ pending' = WholeArray(count, "ASC")
      /\ UNCHANGED <<arr, busy, seg, start, next, i, input, count, order, run, ret>>
  BY DEF BeginAsc, Valid, scanVars
<1>2. /\ IsPrefixArray(input) /\ count \in Nat
      /\ DOMAIN input = 0 .. count - 1 /\ DOMAIN arr = DOMAIN input
      /\ Bound = 0 .. count /\ 0 \in DOMAIN input
  BY <1>1, ArrayShape DEF ShapeInv
<1>3. OwnFamily /\ \A k \in DOMAIN arr : arr[k].src = k
  BY <1>1 DEF ShapeInv, Sorting
<1>4. \A k \in DOMAIN input : input[k].fam = family'
  BY <1>1, <1>2, <1>3 DEF OneFamily, Offends, OwnFamily
<1>5. family' \in Family
  BY <1>2, <1>4 DEF IsPrefixArray
<1>6. WholeArray(count, "ASC") \subseteq FrameType
  BY <1>2 DEF WholeArray, Frame, FrameType, Keys
<1>7. EngineTypeOK'
  BY <1>1, <1>6 DEF ShapeInv, TypeOK, EngineTypeOK, IsPrefixArray, Cell, FrameType, Bound
<1>8. TypeOK'
  BY <1>1, <1>5, <1>7 DEF ShapeInv, TypeOK, Bound
<1>9. PartitionInv' /\ Permutes' /\ OwnFamily'
  BY <1>1, <1>3 DEF ShapeInv, PartitionInv, BucketEnd, Permutes, SameKey, OwnFamily
<1> QED BY <1>1, <1>4, <1>8, <1>9 DEF ShapeInv, Sorting

\* The tags are written while no loop runs.
LEMMA BeginDescPreserves ==
  ASSUME ShapeInv, BeginDesc
  PROVE  ShapeInv'
<1>1. /\ phase = "call" /\ order = "DESC" /\ count > 0 /\ OneFamily
      /\ family' = arr[0].fam
      /\ arr' = Tagged(arr)
      /\ phase' = "sort"
      /\ pending' = WholeArray(count, "DESC")
      /\ UNCHANGED <<busy, seg, start, next, i, input, count, order, run, ret>>
  BY DEF BeginDesc, Valid, scanVars
<1>2. /\ IsPrefixArray(input) /\ count \in Nat
      /\ DOMAIN input = 0 .. count - 1 /\ DOMAIN arr = DOMAIN input
      /\ Bound = 0 .. count /\ 0 \in DOMAIN input
  BY <1>1, ArrayShape DEF ShapeInv
<1>3. /\ OwnFamily /\ \A k \in DOMAIN arr : arr[k].src = k
      /\ ~busy
  BY <1>1 DEF ShapeInv, Sorting, EngineIdle
<1>4. \A k \in DOMAIN input : input[k].fam = family'
  BY <1>1, <1>2, <1>3 DEF OneFamily, Offends, OwnFamily
<1>5. family' \in Family
  BY <1>2, <1>4 DEF IsPrefixArray
<1>6. WholeArray(count, "DESC") \subseteq FrameType
  BY <1>2 DEF WholeArray, Frame, FrameType, Keys
<1>7. arr \in [DOMAIN input -> Cell]
  BY DEF ShapeInv, TypeOK, EngineTypeOK
<1>8. /\ arr' \in [DOMAIN input -> Cell]
      /\ \A k \in DOMAIN input : /\ arr'[k].src = arr[k].src
                                 /\ arr'[k].addr = arr[k].addr
                                 /\ arr'[k].pfxlen = arr[k].pfxlen
  <2>1. arr' = [k \in DOMAIN input |-> [arr[k] EXCEPT !.fam = k]]
    BY <1>1, <1>2 DEF Tagged
  <2>2. ASSUME NEW k \in DOMAIN input
        PROVE  [arr[k] EXCEPT !.fam = k] \in Cell
    <3>1. k \in 0 .. Cardinality(DOMAIN input) - 1
      BY <1>2, Positions
    <3>2. arr[k] \in Cell
      BY <1>7
    <3> QED BY <3>1, <3>2 DEF Cell
  <2>3. ASSUME NEW k \in DOMAIN input
        PROVE  /\ arr'[k].src = arr[k].src
               /\ arr'[k].addr = arr[k].addr
               /\ arr'[k].pfxlen = arr[k].pfxlen
    BY <1>7, <2>1 DEF Cell
  <2> QED BY <2>1, <2>2, <2>3
<1>9. EngineTypeOK'
  <2>1. Bound' = Bound /\ Cell' = Cell /\ FrameType' = FrameType
    BY <1>1 DEF Bound, Cell, FrameType
  <2> QED BY <1>1, <1>6, <1>8, <2>1 DEF ShapeInv, TypeOK, EngineTypeOK, IsPrefixArray
<1>10. TypeOK'
  BY <1>1, <1>5, <1>9 DEF ShapeInv, TypeOK, Bound
<1>11. PartitionInv'
  BY <1>1, <1>3 DEF PartitionInv
<1>12. Permutes'
  BY <1>1, <1>2, <1>8 DEF ShapeInv, Permutes, SameKey
<1> QED BY <1>1, <1>4, <1>10, <1>11, <1>12 DEF ShapeInv, Sorting

\* A step of the sort, in either phase: cells travel with their family.
LEMMA EngineStepPreserves ==
  ASSUME ShapeInv, Sorting, EngineNext, UNCHANGED sortVars
  PROVE  ShapeInv'
<1>1. EngineTypeOK /\ PartitionInv /\ Permutes /\ input' = input
  BY DEF ShapeInv, TypeOK, sortVars
<1>2. EngineTypeOK' /\ PartitionInv' /\ Permutes'
  BY <1>1, EnginePreserves, EngineKeepsPermutes
<1>3. TypeOK'
  BY <1>2 DEF ShapeInv, TypeOK, sortVars, Bound
<1>4. OwnFamily => OwnFamily'
  <2> SUFFICES ASSUME OwnFamily PROVE OwnFamily'
    OBVIOUS
  <2>1. CASE arr' = arr
    BY <1>1, <2>1 DEF OwnFamily
  <2>2. ASSUME NEW x \in DOMAIN input, NEW y \in DOMAIN input,
               arr' = Swapped(arr, x, y)
        PROVE  OwnFamily'
    <3>1. DOMAIN arr' = DOMAIN arr /\ DOMAIN arr = DOMAIN input
      BY <1>1, <2>2 DEF Swapped, EngineTypeOK
    <3>2. \A k \in DOMAIN arr :
            arr'[k] = arr[IF k = x THEN y ELSE IF k = y THEN x ELSE k]
      BY <2>2, <3>1 DEF Swapped
    <3> QED BY <1>1, <3>1, <3>2 DEF OwnFamily
  <2> QED BY <1>1, <2>1, <2>2, EngineOnlySwaps
<1> QED BY <1>2, <1>3, <1>4 DEF ShapeInv, Sorting, sortVars

\* The ascending sort is over.
LEMMA EndAscPreserves ==
  ASSUME ShapeInv, EndAsc
  PROVE  ShapeInv'
<1>1. /\ order = "ASC" /\ EngineIdle /\ phase' = "done" /\ ret' = "OK"
      /\ UNCHANGED <<engineVars, input, count, order, family, run>>
  BY DEF EndAsc, Leave
<1>2. EngineTypeOK' /\ PartitionInv' /\ Permutes'
  BY <1>1, EngineIdleStep DEF ShapeInv, TypeOK
<1>3. TypeOK'
  BY <1>1, <1>2 DEF ShapeInv, TypeOK, Bound
<1>4. EngineIdle' /\ OwnFamily'
  BY <1>1 DEF ShapeInv, EngineIdle, OwnFamily, engineVars
<1> QED BY <1>1, <1>2, <1>3, <1>4 DEF ShapeInv, Sorting

\* The descending sort turns to its duplicates.
LEMMA BeginRepairPreserves ==
  ASSUME ShapeInv, BeginRepair
  PROVE  ShapeInv'
<1>1. /\ phase = "sort" /\ order = "DESC" /\ phase' = "repair" /\ run' = 0
      /\ UNCHANGED <<engineVars, input, count, order, family, ret>>
  BY DEF BeginRepair
<1>2. EngineTypeOK' /\ PartitionInv' /\ Permutes'
  BY <1>1, EngineIdleStep DEF ShapeInv, TypeOK
<1>3. TypeOK'
  BY <1>1, <1>2, ArrayShape DEF ShapeInv, TypeOK, Bound
<1> QED BY <1>1, <1>2, <1>3 DEF ShapeInv, Sorting

\* One run of duplicates becomes a call of the tag sort.
LEMMA RepairRunPreserves ==
  ASSUME ShapeInv, RepairRun
  PROVE  ShapeInv'
<1>1. PICK hi \in run + 1 .. count :
        /\ run' = hi
        /\ pending' = IF hi - run > 1 THEN {Frame(run, hi, 0, "tag")} ELSE {}
  BY DEF RepairRun
<1>2. /\ phase = "repair" /\ run < count /\ EngineIdle
      /\ UNCHANGED <<arr, busy, seg, start, next, i, input, count, order, family,
                     phase, ret>>
  BY DEF RepairRun, scanVars
<1>3. count \in Nat /\ Bound = 0 .. count /\ run \in 0 .. count
  BY ArrayShape DEF ShapeInv, TypeOK
<1>4. run' \in Bound /\ pending' \subseteq FrameType
  BY <1>1, <1>3 DEF Frame, FrameType, Keys
<1>5. EngineTypeOK'
  BY <1>2, <1>4 DEF ShapeInv, TypeOK, EngineTypeOK, IsPrefixArray, Cell, FrameType, Bound
<1>6. TypeOK'
  BY <1>2, <1>4, <1>5 DEF ShapeInv, TypeOK, Bound
<1>7. PartitionInv' /\ Permutes' /\ (OwnFamily => OwnFamily')
  BY <1>2 DEF ShapeInv, PartitionInv, BucketEnd, Permutes, SameKey, OwnFamily
<1> QED BY <1>2, <1>6, <1>7 DEF ShapeInv, Sorting

\* prefixes_restore_family gives every cell the family of its input entry.
LEMMA RestorePreserves ==
  ASSUME ShapeInv, RestoreFamily
  PROVE  ShapeInv'
<1>1. /\ phase = "repair" /\ EngineIdle
      /\ arr' = WithFamily(arr, family)
      /\ phase' = "done" /\ ret' = "OK"
      /\ UNCHANGED <<pending, busy, seg, start, next, i, input, count, order,
                     family, run>>
  BY DEF RestoreFamily, Leave, scanVars
<1>2. /\ IsPrefixArray(input) /\ arr \in [DOMAIN input -> Cell]
      /\ family \in Family
      /\ \A k \in DOMAIN input : input[k].fam = family
  BY <1>1 DEF ShapeInv, TypeOK, EngineTypeOK, Sorting
<1>3. /\ arr' \in [DOMAIN input -> Cell]
      /\ \A k \in DOMAIN input : /\ arr'[k].src = arr[k].src
                                 /\ arr'[k].addr = arr[k].addr
                                 /\ arr'[k].pfxlen = arr[k].pfxlen
                                 /\ arr'[k].fam = family
  BY <1>1, <1>2 DEF WithFamily, Cell
<1>4. EngineTypeOK'
  <2>1. Bound' = Bound /\ Cell' = Cell /\ FrameType' = FrameType
    BY <1>1 DEF Bound, Cell, FrameType
  <2> QED BY <1>1, <1>3, <2>1 DEF ShapeInv, TypeOK, EngineTypeOK, IsPrefixArray
<1>5. TypeOK'
  BY <1>1, <1>4 DEF ShapeInv, TypeOK, Bound
<1>6. PartitionInv' /\ EngineIdle'
  BY <1>1 DEF PartitionInv, EngineIdle
<1>7. Permutes'
  BY <1>1, <1>2, <1>3 DEF ShapeInv, Permutes, SameKey
<1>8. OwnFamily'
  <2>1. \A k \in DOMAIN input : arr'[k].src \in DOMAIN input
    BY <1>3 DEF Cell
  <2> QED BY <1>1, <1>2, <1>3, <2>1 DEF OwnFamily
<1> QED BY <1>1, <1>5, <1>6, <1>7, <1>8 DEF ShapeInv, Sorting

LEMMA ShapePreserved == ShapeInv /\ [Next]_vars => ShapeInv'
<1> SUFFICES ASSUME ShapeInv, [Next]_vars PROVE ShapeInv'
  OBVIOUS
<1>1. CASE ReturnOnEmpty
  BY <1>1, RejectPreserves DEF ReturnOnEmpty, Leave
<1>2. CASE RejectOrder
  BY <1>2, RejectPreserves DEF RejectOrder, Leave
<1>3. CASE RejectFamily
  BY <1>3, RejectPreserves DEF RejectFamily, Leave
<1>4. CASE RejectCount
  BY <1>4, RejectPreserves DEF RejectCount, Valid, Leave
<1>5. CASE BeginAsc
  BY <1>5, BeginAscPreserves
<1>6. CASE BeginDesc
  BY <1>6, BeginDescPreserves
<1>7. CASE SortStep
  BY <1>7, EngineStepPreserves DEF SortStep, Sorting
<1>8. CASE EndAsc
  BY <1>8, EndAscPreserves
<1>9. CASE BeginRepair
  BY <1>9, BeginRepairPreserves
<1>10. CASE RepairRun
  BY <1>10, RepairRunPreserves
<1>11. CASE RepairStep
  BY <1>11, EngineStepPreserves DEF RepairStep, Sorting
<1>12. CASE RestoreFamily
  BY <1>12, RestorePreserves
<1>13. CASE UNCHANGED vars
  <2>1. UNCHANGED <<engineVars, input>> /\ UNCHANGED sortVars
    BY <1>13 DEF vars, sortVars
  <2>2. EngineTypeOK' /\ PartitionInv' /\ Permutes'
    BY <2>1, EngineIdleStep DEF ShapeInv, TypeOK
  <2>3. TypeOK'
    BY <2>1, <2>2 DEF ShapeInv, TypeOK, sortVars, Bound
  <2> QED BY <2>1, <2>2, <2>3
      DEF ShapeInv, Sorting, EngineIdle, OwnFamily, engineVars, sortVars
<1> QED BY <1>1, <1>2, <1>3, <1>4, <1>5, <1>6, <1>7, <1>8, <1>9, <1>10, <1>11,
           <1>12, <1>13 DEF Next

----------------------------------------------------------------------------
(* The order of the array, one lemma per action again.                     *)

\* A tag numbers a position, so it fits its bytes.
LEMMA KeysOfOrder ==
  \A c, d : Agree(c, d, KeyLen("DESC"), "DESC") =>
    \A p \in 0 .. AddrLen : KeyByte(c, p, "DESC") = KeyByte(d, p, "DESC")
BY ShapeAssumption DEF Agree, KeyLen

\* Equal to the sort means equal keys.
LEMMA EqualKeys ==
  ASSUME IsPrefixArray(input), NEW c \in Cell, NEW d \in Cell,
         Agree(c, d, KeyLen("DESC"), "DESC")
  PROVE  SameKey(c, d)
<1>1. /\ c.addr \in [BytePos -> Byte] /\ d.addr \in [BytePos -> Byte]
      /\ c.pfxlen \in 0 .. KeyBits /\ d.pfxlen \in 0 .. KeyBits
      /\ KeyBits \in Int /\ ByteSize \in Int /\ AddrLen \in Nat
  BY ShapeAssumption, EngineShape DEF Cell, Address, Pfxlen, MaxPfxlen, KeyBits
<1>2. \A p \in 0 .. AddrLen : DescByte(c, p) = DescByte(d, p)
  BY KeysOfOrder DEF KeyByte
<1>3. c.pfxlen = d.pfxlen
  <2>1. 0 \in 0 .. AddrLen
    BY <1>1
  <2>2. ByteSize - 1 - c.pfxlen = ByteSize - 1 - d.pfxlen
    BY <1>2, <2>1 DEF DescByte
  <2> QED BY <1>1, <2>2
<1>4. \A k \in BytePos : c.addr[k] = d.addr[k]
  <2> TAKE k \in BytePos
  <2>1. k + 1 \in 0 .. AddrLen /\ k + 1 # 0 /\ (k + 1) - 1 = k
    BY <1>1 DEF BytePos
  <2> QED BY <1>2, <2>1 DEF DescByte
<1>5. c.addr = d.addr
  BY <1>1, <1>4
<1> QED BY <1>3, <1>5 DEF SameKey

\* The keys of the prefix sort do not depend on the family field.
LEMMA KeysDecide ==
  ASSUME NEW c, NEW d, NEW e, NEW f, SameKey(c, e), SameKey(d, f),
         NEW key, key \in {"ASC", "DESC"}
  PROVE  InOrder(c, d, key) <=> InOrder(e, f, key)
<1>1. \A p : KeyByte(c, p, key) = KeyByte(e, p, key) /\ KeyByte(d, p, key) = KeyByte(f, p, key)
  BY DEF SameKey, KeyByte, AscByte, DescByte
<1> QED BY <1>1 DEF InOrder, Before, Agree

LEMMA InitOrder == Init => OrderInv
BY DEF Init, OrderInv, Sorting, Sorted

LEMMA RejectOrders ==
  ASSUME IInv, phase = "call", phase' = "done", ret' \in {"INVAL", "FAMILY"}
  PROVE  OrderInv'
BY DEF OrderInv, Sorting, Sorted

LEMMA ReturnOnEmptyOrders ==
  ASSUME IInv, ReturnOnEmpty
  PROVE  OrderInv'
<1>1. phase' = "done" /\ ret' = "OK" /\ arr' = arr
  BY DEF ReturnOnEmpty, Leave, engineVars
<1>2. DOMAIN arr = {}
  BY ArrayShape DEF ReturnOnEmpty, IInv, ShapeInv
<1> QED BY <1>1, <1>2 DEF OrderInv, Sorting, Sorted

\* Every pair of cells is together in the first call.
LEMMA BeginOrders ==
  ASSUME IInv, phase = "call", phase' = "sort", ~busy',
         NEW key, key \in {"ASC", "DESC"}, order = key, order' = key,
         pending' = WholeArray(count, key), DOMAIN arr' = DOMAIN arr,
         UNCHANGED <<count, ret>>,
         key = "DESC" => count <= TagMax /\ \A k \in DOMAIN arr : arr'[k].fam = arr'[k].src
  PROVE  OrderInv'
<1>1. CallsInv(key)' /\ \A k, l \in 0 .. count - 1 : Together(k, l)'
  BY OneCall DEF WholeArray, Keys
<1>2. DOMAIN arr = 0 .. count - 1
  BY ArrayShape DEF IInv, ShapeInv
<1>3. CallsInv(order)' /\ OrderedApart(order)'
  BY <1>1, <1>2 DEF CallsInv, OrderedApart
<1>4. ret' = "none"
  BY DEF IInv, OrderInv
<1> QED BY <1>3, <1>4 DEF OrderInv, Sorting, Sorted, IInv

\* The prefix sort.
LEMMA SortStepOrders ==
  ASSUME IInv, SortStep
  PROVE  OrderInv'
<1>1. /\ EngineTypeOK /\ PartitionInv /\ EngineNext
      /\ phase = "sort" /\ UNCHANGED <<input, count, order, family, phase, run, ret>>
  BY DEF IInv, ShapeInv, TypeOK, SortStep, sortVars
<1>2. PICK key : key = order
  OBVIOUS
<1>3. PICK C : C = Cell
  OBVIOUS
<1>4. PICK S : S = DOMAIN input
  OBVIOUS
<1> DEFINE R == {e \in C \X C : InOrder(e[1], e[2], key)}
<1>5. /\ CallsInv(key) /\ OrderedApart(key) /\ DOMAIN arr = S
      /\ \A k \in S : arr[k] \in C
  BY <1>1, <1>2, <1>3, <1>4 DEF IInv, OrderInv, EngineTypeOK
<1>6. \A k, l \in S : InOrder(arr[k], arr[l], key) <=> <<arr[k], arr[l]>> \in R
  BY <1>5
<1>7. ApartRelated(S, R)
  BY <1>5, <1>6 DEF ApartRelated, OrderedApart
<1>8. \A f \in Open : Slots(f) \subseteq S
  BY <1>1, <1>4, OpenFrames
<1>9. CallsInv(key)' /\ ApartRelated(S, R)'
  <2> HIDE DEF R
  <2> QED BY <1>1, <1>4, <1>5, <1>6, <1>7, <1>8, EngineOrders
<1>10. DOMAIN arr' = S /\ \A k \in S : \E j \in S : arr'[k] = arr[j]
  BY <1>1, <1>4, CellsMove
<1>11. CallsInv(order)'
  BY <1>1, <1>2, <1>9 DEF CallsInv
<1>12. OrderedApart(order)'
  BY <1>1, <1>2, <1>9, <1>10 DEF ApartRelated, OrderedApart
<1>13. order = "DESC" => \A k \in S : arr'[k].fam = arr'[k].src
  BY <1>1, <1>5, <1>10 DEF IInv, OrderInv, Sorting
<1>14. ret' = "none"
  BY <1>1 DEF IInv, OrderInv
<1> QED BY <1>1, <1>10, <1>11, <1>12, <1>13, <1>14 DEF IInv, OrderInv, Sorting, Sorted

\* What is in order is not out of order.
LEMMA EndAscOrders ==
  ASSUME IInv, EndAsc
  PROVE  OrderInv'
<1>1. /\ phase = "sort" /\ order = "ASC" /\ EngineIdle /\ phase' = "done" /\ ret' = "OK"
      /\ arr' = arr /\ order' = order
  BY DEF EndAsc, Leave, engineVars
<1>2. IsPrefixArray(input) /\ \A k \in DOMAIN arr : arr[k] \in Cell
  BY DEF IInv, ShapeInv, TypeOK, EngineTypeOK
<1>3. ASSUME NEW k \in DOMAIN arr, NEW l \in DOMAIN arr, k < l
      PROVE  ~Before(arr[l], arr[k], "ASC")
  <2>1. InOrder(arr[k], arr[l], "ASC")
    BY <1>1, <1>3, NothingOpen DEF IInv, OrderInv, OrderedApart
  <2> QED BY <1>2, <2>1, OrderIsStrict DEF Keys
<1>4. Sorted'
  BY <1>1, <1>3 DEF Sorted
<1> QED BY <1>1, <1>4 DEF OrderInv, Sorting

\* The descending sort is complete before the first run is repaired.
LEMMA BeginRepairOrders ==
  ASSUME IInv, BeginRepair
  PROVE  OrderInv'
<1>1. /\ phase = "sort" /\ order = "DESC" /\ EngineIdle /\ phase' = "repair" /\ run' = 0
      /\ UNCHANGED <<arr, pending, busy, count, order, ret>>
  BY DEF BeginRepair, engineVars, scanVars
<1>2. EngineIdle'
  BY <1>1 DEF EngineIdle
<1>3. Open' = {} /\ ~busy'
  BY <1>2 DEF EngineIdle, Open
<1>4. CallsInv("tag")'
  BY <1>3 DEF CallsInv
<1>5. \A k, l \in DOMAIN arr : k < l => InOrder(arr[k], arr[l], order)
  BY <1>1, NothingOpen DEF IInv, OrderInv, OrderedApart
<1>6. \A k \in DOMAIN arr : ~(k < 0)
  BY ArrayShape DEF IInv, ShapeInv
<1>7. DuplicatesInv'
  BY <1>1, <1>3, <1>6 DEF DuplicatesInv
<1> QED BY <1>1, <1>4, <1>5, <1>7 DEF IInv, OrderInv, Sorting, Sorted

\* In the repair, a run ends where its key ends.
LEMMA RunIsMaximal ==
  ASSUME IInv, phase = "repair", NEW hi \in run + 1 .. count, IsRun(run, hi),
         NEW k \in DOMAIN arr, NEW l \in DOMAIN arr,
         run <= k, k < hi, hi <= l
  PROVE  ~SameKey(arr[k], arr[l])
<1>1. /\ count \in Nat /\ DOMAIN arr = 0 .. count - 1 /\ run \in 0 .. count
      /\ IsPrefixArray(input) /\ \A j \in DOMAIN arr : arr[j] \in Cell
  BY ArrayShape DEF IInv, ShapeInv, TypeOK, EngineTypeOK
<1>2. hi \in DOMAIN arr /\ hi < count /\ run < hi
  BY <1>1
<1>3. SameKey(arr[run], arr[k]) /\ ~SameKey(arr[run], arr[hi])
  BY <1>1, <1>2 DEF IsRun
<1> SUFFICES ASSUME SameKey(arr[k], arr[l]) PROVE FALSE
  OBVIOUS
<1>4. l # hi
  BY <1>3 DEF SameKey
<1>5. InOrder(arr[k], arr[hi], "DESC") /\ InOrder(arr[hi], arr[l], "DESC")
  BY <1>1, <1>2, <1>4 DEF IInv, OrderInv
<1>6. InOrder(arr[hi], arr[k], "DESC")
  <2>1. SameKey(arr[l], arr[k]) /\ SameKey(arr[hi], arr[hi])
    BY DEF SameKey
  <2> QED BY <1>5, <2>1, KeysDecide
<1>7. SameKey(arr[k], arr[hi])
  BY <1>1, <1>2, <1>5, <1>6, OrderIsAntisymmetric, EqualKeys DEF Keys
<1> QED BY <1>3, <1>7 DEF SameKey

\* The next run of duplicates becomes the only call.
LEMMA RepairRunOrders ==
  ASSUME IInv, RepairRun
  PROVE  OrderInv'
<1>1. PICK hi \in run + 1 .. count :
        /\ IsRun(run, hi)
        /\ run' = hi
        /\ pending' = IF hi - run > 1 THEN {Frame(run, hi, 0, "tag")} ELSE {}
  BY DEF RepairRun
<1>2. /\ phase = "repair" /\ phase' = "repair" /\ run < count /\ EngineIdle
      /\ UNCHANGED <<arr, busy, input, count, order, ret>>
  BY DEF RepairRun, scanVars
<1>3. /\ count \in Nat /\ DOMAIN arr = 0 .. count - 1 /\ run \in 0 .. count
  BY ArrayShape DEF IInv, ShapeInv, TypeOK
<1>4. hi \in Nat /\ run < hi /\ hi <= count /\ ~busy'
  BY <1>2, <1>3 DEF EngineIdle
<1>5. /\ \A f \in Open' : f = Frame(run, hi, 0, "tag")
      /\ CallsInv("tag")'
      /\ hi - run > 1 => \A k, l \in run .. hi - 1 : Together(k, l)'
  <2>1. CASE hi - run > 1
    <3>1. pending' = {Frame(run, hi, 0, "tag")}
      BY <1>1, <2>1
    <3>2. CallsInv("tag")' /\ \A k, l \in run .. hi - 1 : Together(k, l)'
      BY <1>4, <3>1, OneCall DEF Keys
    <3> QED BY <1>4, <3>1, <3>2 DEF Open
  <2>2. CASE ~(hi - run > 1)
    <3>1. Open' = {}
      BY <1>1, <1>4, <2>2 DEF Open
    <3> QED BY <1>4, <2>2, <3>1 DEF CallsInv
  <2> QED BY <2>1, <2>2
<1>6. \A k \in run .. hi - 1 : SameKey(arr[run], arr[k])
  BY <1>1 DEF IsRun
<1>7. ASSUME NEW f \in Open'
      PROVE  f.hi <= hi /\ \A k, l \in Slots(f) : SameKey(arr[k], arr[l])
  <2>1. f.hi = hi /\ Slots(f) = run .. hi - 1
    BY <1>5 DEF Frame, Slots
  <2> QED BY <1>4, <1>6, <2>1 DEF SameKey
<1>8. ASSUME NEW k \in DOMAIN arr, NEW l \in DOMAIN arr,
             k < l, SameKey(arr[k], arr[l]), k < hi
      PROVE  l < hi /\ (Together(k, l)' \/ InOrder(arr[k], arr[l], "tag"))
  <2>1. CASE k < run
    <3>1. l < run /\ InOrder(arr[k], arr[l], "tag")
      BY <1>2, <1>8, <2>1, NothingOpen DEF IInv, OrderInv, DuplicatesInv
    <3> QED BY <1>3, <1>4, <3>1
  <2>2. CASE run <= k
    <3>1. l < hi
      BY <1>1, <1>2, <1>3, <1>4, <1>8, <2>2, RunIsMaximal
    <3> QED BY <1>3, <1>4, <1>5, <1>8, <2>2, <3>1
  <2> QED BY <1>3, <2>1, <2>2
<1>9. DuplicatesInv'
  BY <1>1, <1>2, <1>7, <1>8 DEF DuplicatesInv
<1> QED BY <1>2, <1>5, <1>9 DEF IInv, OrderInv, Sorting, Sorted

\* The sort of the tags exchanges equal keys only.
LEMMA KeysStay ==
  ASSUME IInv, phase = "repair", EngineNext, NEW k \in DOMAIN arr
  PROVE  SameKey(arr'[k], arr[k])
<1>1. EngineTypeOK /\ PartitionInv /\ DOMAIN arr = DOMAIN input
  BY DEF IInv, ShapeInv, TypeOK, EngineTypeOK
<1>2. CASE arr' = arr
  BY <1>2 DEF SameKey
<1>3. ASSUME NEW x \in DOMAIN input, NEW y \in DOMAIN input, busy,
             x \in Slots(seg), y \in Slots(seg), arr' = Swapped(arr, x, y)
      PROVE  SameKey(arr'[k], arr[k])
  <2>1. SameKey(arr[x], arr[y])
    BY <1>3 DEF IInv, OrderInv, DuplicatesInv, Open
  <2>2. arr'[k] = arr[IF k = x THEN y ELSE IF k = y THEN x ELSE k]
    BY <1>1, <1>3 DEF Swapped
  <2> QED BY <2>1, <2>2 DEF SameKey
<1> QED BY <1>1, <1>2, <1>3, EngineOnlySwaps

LEMMA RepairStepOrders ==
  ASSUME IInv, RepairStep
  PROVE  OrderInv'
<1>1. /\ EngineTypeOK /\ PartitionInv /\ EngineNext /\ phase = "repair" /\ order = "DESC"
      /\ UNCHANGED <<input, count, order, family, phase, run, ret>>
  BY DEF IInv, ShapeInv, TypeOK, RepairStep, sortVars, OrderInv
<1>2. PICK C : C = Cell
  OBVIOUS
<1>3. PICK S : S = {k \in DOMAIN input : k < run}
  OBVIOUS
<1> DEFINE R == {e \in C \X C : SameKey(e[1], e[2]) => InOrder(e[1], e[2], "tag")}
<1>4. /\ CallsInv("tag") /\ DuplicatesInv /\ DOMAIN arr = DOMAIN input
      /\ \A k \in DOMAIN input : arr[k] \in C
  BY <1>1, <1>2 DEF IInv, OrderInv, EngineTypeOK
<1>5. \A k, l \in DOMAIN input :
        <<arr[k], arr[l]>> \in R <=> (SameKey(arr[k], arr[l]) => InOrder(arr[k], arr[l], "tag"))
  BY <1>4
<1>6. ApartRelated(S, R)
  BY <1>3, <1>4, <1>5 DEF ApartRelated, DuplicatesInv
<1>7. run \in Int
  BY ArrayShape DEF IInv, ShapeInv, TypeOK
<1>8. \A f \in Open : Slots(f) \subseteq S
  <2> SUFFICES ASSUME NEW f \in Open, NEW k \in Slots(f)
               PROVE  k \in DOMAIN input /\ k < run
    BY <1>3
  <2>1. k \in DOMAIN input /\ f.hi \in Int /\ f.hi <= run /\ k \in Int /\ k < f.hi
    BY <1>1, <1>4, OpenFrames DEF DuplicatesInv, Slots
  <2> QED BY <1>7, <2>1
<1>9. S \subseteq DOMAIN input
  BY <1>3
<1>10. CallsInv("tag")' /\ ApartRelated(S, R)'
  <2> HIDE DEF R
  <2>1. \A k, l \in DOMAIN input :
          InOrder(arr[k], arr[l], "tag") => <<arr[k], arr[l]>> \in R
    BY <1>5
  <2> QED BY <1>1, <1>4, <1>6, <1>8, <1>9, <2>1, EngineOrders
<1>11. /\ DOMAIN arr' = DOMAIN input
       /\ \A k \in DOMAIN input : \E j \in DOMAIN input : arr'[k] = arr[j]
       /\ \A k \in DOMAIN input : SameKey(arr'[k], arr[k])
  BY <1>1, <1>4, CellsMove, KeysStay
<1>12. \A k \in DOMAIN input : arr'[k].fam = arr'[k].src
  BY <1>1, <1>4, <1>11 DEF IInv, OrderInv, Sorting
<1>13. \A k, l \in DOMAIN input : k < l => InOrder(arr'[k], arr'[l], "DESC")
  <2> TAKE k, l \in DOMAIN input
  <2>1. k < l => InOrder(arr[k], arr[l], "DESC")
    BY <1>1, <1>4 DEF IInv, OrderInv
  <2> QED BY <1>11, <2>1, KeysDecide
<1>14. ASSUME NEW f \in Open'
       PROVE  f.hi <= run /\ \A k, l \in Slots(f) : SameKey(arr'[k], arr'[l])
  <2>1. PICK g \in Open : g.lo <= f.lo /\ f.hi <= g.hi /\ Slots(f) \subseteq Slots(g)
    BY <1>1, OpenShrinks
  <2>2. g.hi <= run /\ g.hi \in Int /\ Slots(g) \subseteq DOMAIN input
    BY <1>1, <1>4, OpenFrames DEF DuplicatesInv
  <2>3. f.hi \in Int
    <3>1. EngineTypeOK'
      BY <1>1, EnginePreserves
    <3>2. FrameType' = FrameType /\ Bound \subseteq Int
      BY <1>1, Positions DEF FrameType, Bound, EngineTypeOK
    <3>3. f \in FrameType
      BY <3>1, <3>2 DEF Open, EngineTypeOK
    <3> QED BY <3>2, <3>3 DEF FrameType
  <2>4. \A k, l \in Slots(f) : SameKey(arr[k], arr[l])
    BY <1>4, <2>1 DEF DuplicatesInv
  <2> QED BY <1>7, <1>11, <2>1, <2>2, <2>3, <2>4 DEF SameKey
<1>15. ASSUME NEW k \in DOMAIN input, NEW l \in DOMAIN input,
              k < l, SameKey(arr'[k], arr'[l]), k < run
       PROVE  l < run /\ (Together(k, l)' \/ InOrder(arr'[k], arr'[l], "tag"))
  <2>1. SameKey(arr[k], arr[l])
    BY <1>11, <1>15 DEF SameKey
  <2>2. l < run
    BY <1>4, <1>15, <2>1 DEF DuplicatesInv
  <2>3. CASE ~Together(k, l)'
    <3>1. <<arr'[k], arr'[l]>> \in R
      <4> HIDE DEF R
      <4> QED BY <1>3, <1>10, <1>15, <2>2, <2>3 DEF ApartRelated
    <3> QED BY <1>15, <2>2, <3>1
  <2> QED BY <2>2, <2>3
<1>16. DuplicatesInv'
  BY <1>1, <1>11, <1>14, <1>15 DEF DuplicatesInv
<1>17. ret' = "none"
  BY <1>1 DEF IInv, OrderInv
<1> QED BY <1>1, <1>10, <1>11, <1>12, <1>13, <1>16, <1>17
    DEF IInv, OrderInv, Sorting, Sorted

\* When the last run is repaired the tags of equal keys ascend, and a tag is
\* the position in the input.
LEMMA RestoreOrders ==
  ASSUME IInv, RestoreFamily
  PROVE  OrderInv'
<1>1. /\ phase = "repair" /\ EngineIdle /\ run = count /\ order = "DESC"
      /\ arr' = WithFamily(arr, family)
      /\ phase' = "done" /\ ret' = "OK" /\ order' = order
  BY DEF RestoreFamily, Leave, IInv, OrderInv
<1>2. /\ IsPrefixArray(input) /\ arr \in [DOMAIN input -> Cell]
      /\ DOMAIN input = 0 .. count - 1 /\ count \in Nat /\ Permutes
  BY ArrayShape DEF IInv, ShapeInv, TypeOK, EngineTypeOK
<1>3. /\ count <= TagMax
      /\ \A k \in DOMAIN input : arr[k].fam = arr[k].src
  BY <1>1, <1>2 DEF IInv, OrderInv, Sorting
<1>4. /\ DOMAIN arr' = DOMAIN input
      /\ \A k \in DOMAIN input : SameKey(arr'[k], arr[k]) /\ arr'[k].src = arr[k].src
  BY <1>1, <1>2 DEF WithFamily, Cell, SameKey
<1>5. \A k \in DOMAIN input : arr[k].fam \in 0 .. TagWeight(TagLen) - 1
  <2>1. TagLen \in 0 .. TagLen
    BY EngineShape
  <2>2. TagWeight(TagLen) \in Nat /\ count <= TagWeight(TagLen) - 1
    BY <1>3, <2>1, TagWeights DEF TagMax
  <2>3. \A k \in DOMAIN input : arr[k].src \in 0 .. count - 1
    BY <1>2 DEF Cell
  <2> HIDE DEF TagMax
  <2> QED BY <1>2, <1>3, <2>2, <2>3
<1>6. ASSUME NEW k \in DOMAIN input, NEW l \in DOMAIN input, k < l
      PROVE  ~Before(arr'[l], arr'[k], "DESC")
  <2>1. InOrder(arr[k], arr[l], "DESC")
    BY <1>1, <1>2, <1>6 DEF IInv, OrderInv
  <2>2. ~Before(arr[l], arr[k], "DESC")
    BY <1>2, <2>1, OrderIsStrict DEF Keys
  <2>3. \A p : /\ KeyByte(arr'[k], p, "DESC") = KeyByte(arr[k], p, "DESC")
               /\ KeyByte(arr'[l], p, "DESC") = KeyByte(arr[l], p, "DESC")
    BY <1>4 DEF SameKey, KeyByte, DescByte
  <2> QED BY <2>2, <2>3 DEF Before
<1>7. ASSUME NEW k \in DOMAIN input, NEW l \in DOMAIN input, k < l,
             SameKey(arr'[k], arr'[l])
      PROVE  arr'[k].src < arr'[l].src
  <2>1. SameKey(arr[k], arr[l]) /\ k < run
    BY <1>1, <1>2, <1>4, <1>7 DEF SameKey
  <2>2. InOrder(arr[k], arr[l], "tag")
    BY <1>1, <1>2, <1>7, <2>1, NothingOpen DEF IInv, OrderInv, DuplicatesInv
  <2>3. arr[k].src <= arr[l].src
    BY <1>3, <1>5, <2>2, TagsAreNumbers
  <2>4. arr[k].src # arr[l].src
    BY <1>2, <1>7 DEF Permutes
  <2>5. arr[k].src \in Int /\ arr[l].src \in Int
    BY <1>2 DEF Cell
  <2> QED BY <1>4, <2>3, <2>4, <2>5
<1>8. Sorted'
  BY <1>1, <1>4, <1>6, <1>7 DEF Sorted
<1> QED BY <1>1, <1>8 DEF OrderInv, Sorting

LEMMA OrderPreserved == IInv /\ [Next]_vars => OrderInv'
<1> SUFFICES ASSUME IInv, [Next]_vars PROVE OrderInv'
  OBVIOUS
<1>1. CASE ReturnOnEmpty
  BY <1>1, ReturnOnEmptyOrders
<1>2. CASE RejectOrder \/ RejectCount
  BY <1>2, RejectOrders DEF RejectOrder, RejectCount, Valid, Leave
<1>3. CASE RejectFamily
  BY <1>3, RejectOrders DEF RejectFamily, Leave
<1>4. CASE BeginAsc
  <2>1. phase = "call" /\ EngineIdle
    BY <1>4 DEF BeginAsc, Valid, IInv, ShapeInv, Sorting
  <2> QED BY <1>4, <2>1, BeginOrders DEF BeginAsc, scanVars, EngineIdle
<1>5. CASE BeginDesc
  <2>1. phase = "call" /\ EngineIdle /\ \A k \in DOMAIN arr : arr[k].src = k
    BY <1>5 DEF BeginDesc, Valid, IInv, ShapeInv, Sorting
  <2>2. \A k \in DOMAIN arr : arr[k] \in Cell
    BY DEF IInv, ShapeInv, TypeOK, EngineTypeOK
  <2>3. DOMAIN arr' = DOMAIN arr /\ \A k \in DOMAIN arr : arr'[k].fam = arr'[k].src
    BY <1>5, <2>1, <2>2 DEF BeginDesc, Tagged, Cell
  <2> QED BY <1>5, <2>1, <2>3, BeginOrders DEF BeginDesc, scanVars, EngineIdle
<1>6. CASE SortStep
  BY <1>6, SortStepOrders
<1>7. CASE EndAsc
  BY <1>7, EndAscOrders
<1>8. CASE BeginRepair
  BY <1>8, BeginRepairOrders
<1>9. CASE RepairRun
  BY <1>9, RepairRunOrders
<1>10. CASE RepairStep
  BY <1>10, RepairStepOrders
<1>11. CASE RestoreFamily
  BY <1>11, RestoreOrders
<1>12. CASE UNCHANGED vars
  BY <1>12 DEF vars, sortVars, engineVars, IInv, OrderInv, Sorting, Sorted, CallsInv,
     OrderedApart, DuplicatesInv, Open, Together, InBucket, BucketEnd
<1> QED BY <1>1, <1>2, <1>3, <1>4, <1>5, <1>6, <1>7, <1>8, <1>9, <1>10, <1>11, <1>12
    DEF Next

----------------------------------------------------------------------------
(* The theorems.                                                           *)

\* The inductive invariant of the call holds in every reachable state.
THEOREM Invariance == Spec => []IInv
<1>1. Init => IInv
  BY InitShape, InitOrder DEF IInv
<1>2. IInv /\ [Next]_vars => IInv'
  BY ShapePreserved, OrderPreserved DEF IInv
<1> QED BY <1>1, <1>2, PTL DEF Spec

\* Every variable keeps its type: all indices the loops compute stay inside
\* the caller's array, all frames are ranges of it.
THEOREM TypeCorrect == Spec => []TypeOK
<1>1. IInv => TypeOK
  BY DEF IInv, ShapeInv
<1> QED BY <1>1, Invariance, PTL

\* No swap of the partition loop writes outside the bucket it fills, for any
\* array: the SAFETY comment of radix_sort_segment.
THEOREM PartitionSafe == Spec => []SwapInsideBucket
<1>1. IInv => SwapInsideBucket
  BY PartitionIsSafe DEF IInv, ShapeInv, TypeOK
<1> QED BY <1>1, Invariance, PTL

\* No prefix of the caller is lost, duplicated or altered in any state of the
\* in-place sort.
THEOREM NothingLost == Spec => []Permutes
<1>1. IInv => Permutes
  BY DEF IInv, ShapeInv
<1> QED BY <1>1, Invariance, PTL

\* A successful return leaves the array in order, and the descending sort is
\* stable: equal prefixes keep the order the caller listed them in.
THEOREM SortSorts == Spec => []Sorted
<1>1. IInv => Sorted
  BY DEF IInv, OrderInv
<1> QED BY <1>1, Invariance, PTL

\* No order tag outlives the call: on every return each prefix has its own
\* family.
THEOREM FamiliesReturn == Spec => []FamilyRestored
<1>1. IInv => FamilyRestored
  BY DEF IInv, ShapeInv, FamilyRestored, Sorting
<1> QED BY <1>1, Invariance, PTL

\* While the loop of one call runs, no step changes a cell outside its range.
THEOREM CallsStayInSegment == Spec => StaysInSegment
<1>1. ASSUME IInv, [Next]_vars
      PROVE  [busy => \A k \in DOMAIN arr \ Slots(seg) : arr'[k] = arr[k]]_vars
  <2> SUFFICES ASSUME Next, busy, NEW k \in DOMAIN arr \ Slots(seg)
               PROVE  arr'[k] = arr[k]
    BY <1>1
  <2>1. Sorting
    BY <1>1 DEF IInv, ShapeInv, EngineIdle
  <2>2. CASE EngineNext
    BY <1>1, <2>2, EngineStaysInSegment DEF IInv, ShapeInv, TypeOK
  <2>3. CASE ~EngineNext
    <3>1. ~BeginDesc /\ ~RestoreFamily
      BY <2>1 DEF BeginDesc, Valid, RestoreFamily, EngineIdle, Sorting
    <3> QED BY <2>3, <3>1 DEF Next, ReturnOnEmpty, RejectOrder, RejectFamily,
          RejectCount, BeginAsc, SortStep, EndAsc, BeginRepair, RepairRun,
          RepairStep, engineVars
  <2> QED BY <2>2, <2>3
<1> QED BY <1>1, Invariance, PTL DEF Spec, StaysInSegment

----------------------------------------------------------------------------
(* cidr_bulk_contains behind an optional sort.                             *)

LEMMA BatchShape ==
  ASSUME NEW b \in Seq([addr : Address, fam : Family])
  PROVE  /\ Len(b) \in Nat
         /\ DOMAIN b = 1 .. Len(b)
         /\ \A k \in DOMAIN b : b[k].addr \in Address
         /\ Len(b) = 0 => b = <<>>
<1> DEFINE Q == [addr : Address, fam : Family]
<1>1. \A q \in Q : q.addr \in Address
  OBVIOUS
<1>2. b \in Seq(Q)
  OBVIOUS
<1> HIDE DEF Q
<1>3. Len(b) \in Nat /\ b \in [1 .. Len(b) -> Q]
  BY <1>2
<1>4. Len(b) = 0 => b = <<>>
  BY <1>2
<1> QED BY <1>1, <1>3, <1>4

\* The slots written so far are as many as the scan has answered.
LEMMA AnsweredIs ==
  ASSUME NEW n \in Nat, DOMAIN matches = 1 .. n
  PROVE  Answered = n
<1>1. Cardinality(1 .. n) = n
  <2>1. 1 \in Int /\ n \in Int
    OBVIOUS
  <2> QED BY <2>1, FS_Interval
<1> QED BY <1>1 DEF Answered

----------------------------------------------------------------------------
(* The invariant of the scan.                                              *)

LEMMA InitScan == ScanInit => ScanInv /\ NoPartialAnswer
BY DEF ScanInit, ScanInv, NoPartialAnswer, Unwritten

LEMMA SortTableKeepsScan ==
  ASSUME ScanInv, SortTable
  PROVE  ScanInv' /\ NoPartialAnswer'
BY DEF ScanInv, SortTable, scanCallVars, NoPartialAnswer

\* What every kind of return leaves behind.
LEMMA ScanReturnsKeep ==
  ASSUME ScanInv, NEW b \in Batches, ScanReturns(b)
  PROVE  ScanInv' /\ NoPartialAnswer'
<1>1. /\ scan = "idle" /\ phase \in {"call", "done"} /\ batch' = b /\ UNCHANGED vars
      /\ scan' = "returned" /\ b \in Seq([addr : Address, fam : Family])
  BY BatchAssumption DEF ScanReturns, ScanEmpty, ScanEmptyTable, RejectBatch, RejectTable,
     RejectMismatch, Asked, ValidBatch, ScanCall, ScanLeave
<1>2. matches = Unwritten /\ DOMAIN matches = {}
  BY <1>1 DEF ScanInv, Unwritten
<1>3. /\ phase' = phase /\ arr' = arr /\ count' = count
  BY <1>1 DEF vars, sortVars, engineVars
<1>4. CASE ScanEmpty(b)
  <2>1. matches' = matches /\ scanRet' = "OK" /\ DOMAIN b = {}
    BY <1>4 DEF ScanEmpty, ScanLeave
  <2> QED BY <1>1, <1>2, <1>3, <2>1 DEF ScanInv, NoPartialAnswer
<1>5. CASE ScanEmptyTable(b)
  <2>1. /\ count = 0 /\ scanRet' = "OK"
        /\ matches' = [k \in DOMAIN b |-> NoMatch] /\ errs' = [k \in DOMAIN b |-> "OK"]
    BY <1>5 DEF ScanEmptyTable, FillOut, ScanLeave
  <2>2. \A a : FirstMatch(a)' = NoMatch
    BY <1>3, <2>1 DEF FirstMatch, Holds
  <2> QED BY <1>1, <1>3, <2>1, <2>2 DEF ScanInv, NoPartialAnswer
<1>6. CASE RejectBatch(b) \/ RejectTable(b)
  <2>1. matches' = matches /\ scanRet' # "OK"
    BY <1>6 DEF RejectBatch, RejectTable, ScanLeave
  <2> QED BY <1>1, <1>2, <1>3, <2>1 DEF ScanInv, NoPartialAnswer
<1>7. CASE RejectMismatch(b)
  <2>1. /\ scanRet' = "FAMILY"
        /\ matches' = [k \in DOMAIN b |-> NoMatch] /\ errs' = [k \in DOMAIN b |-> "FAMILY"]
    BY <1>7 DEF RejectMismatch, FillOut, ScanLeave
  <2> QED BY <1>1, <1>3, <2>1 DEF ScanInv, NoPartialAnswer
<1> QED BY <1>4, <1>5, <1>6, <1>7 DEF ScanReturns

LEMMA ScanBeginKeeps ==
  ASSUME ScanInv, NEW b \in Batches, ScanBegin(b)
  PROVE  ScanInv' /\ NoPartialAnswer'
<1>1. /\ scan = "idle" /\ phase \in {"call", "done"} /\ batch' = b /\ phase' = phase
      /\ scan' = "scan" /\ matches' = matches /\ b \in Seq([addr : Address, fam : Family])
  BY BatchAssumption DEF ScanBegin, Asked, ValidBatch, ScanCall, vars, sortVars
<1>2. DOMAIN matches' = 1 .. 0
  BY <1>1 DEF ScanInv, Unwritten
<1>3. 0 \in 0 .. Len(batch')
  BY <1>1, BatchShape
<1> QED BY <1>1, <1>2, <1>3 DEF ScanInv, NoPartialAnswer

LEMMA AnswerKeeps ==
  ASSUME ScanInv, Answer
  PROVE  ScanInv' /\ NoPartialAnswer'
<1>1. /\ scan = "scan" /\ scan' = "scan" /\ batch' = batch
      /\ phase' = phase /\ arr' = arr /\ count' = count
  BY DEF Answer, vars, sortVars, engineVars
<1>2. PICK n \in 0 .. Len(batch) : /\ DOMAIN matches = 1 .. n
                                   /\ \A k \in 1 .. n : errs[k] = "OK"
  BY <1>1 DEF ScanInv
<1>3. Len(batch) \in Nat
  BY BatchShape DEF ScanInv
<1>4. Answered = n /\ n < Len(batch) /\ n + 1 \in 0 .. Len(batch)
  BY <1>2, <1>3, AnsweredIs DEF Answer
<1>5. /\ matches' = [k \in 1 .. n + 1 |->
                       IF k = n + 1 THEN FirstMatch(batch[n + 1].addr) ELSE matches[k]]
      /\ errs' = [k \in 1 .. n + 1 |-> IF k = n + 1 THEN "OK" ELSE errs[k]]
  BY <1>4 DEF Answer
<1>6. \A k \in 1 .. n + 1 : k # n + 1 => k \in 1 .. n
  BY <1>3, <1>4
<1>7. \A k \in 1 .. n + 1 : errs'[k] = "OK"
  BY <1>2, <1>5, <1>6
<1>8. \A a : FirstMatch(a)' = FirstMatch(a)
  BY <1>1 DEF FirstMatch, Holds
<1>9. \A k \in 1 .. n + 1 : matches'[k] = FirstMatch(batch[k].addr)
  BY <1>1, <1>2, <1>5, <1>6 DEF ScanInv
<1> QED BY <1>1, <1>4, <1>5, <1>7, <1>8, <1>9 DEF ScanInv, NoPartialAnswer

LEMMA ScanReturnKeeps ==
  ASSUME ScanInv, ScanReturn
  PROVE  ScanInv' /\ NoPartialAnswer'
<1>1. /\ scan = "scan" /\ scan' = "returned" /\ scanRet' = "OK" /\ batch' = batch
      /\ matches' = matches /\ errs' = errs
      /\ phase' = phase /\ arr' = arr /\ count' = count
  BY DEF ScanReturn, ScanLeave, vars, sortVars, engineVars
<1>2. PICK n \in 0 .. Len(batch) : /\ DOMAIN matches = 1 .. n
                                   /\ \A k \in 1 .. n : errs[k] = "OK"
  BY <1>1 DEF ScanInv
<1>3. Len(batch) \in Nat /\ DOMAIN batch = 1 .. Len(batch)
  BY BatchShape DEF ScanInv
<1>4. n = Len(batch)
  BY <1>2, <1>3, AnsweredIs DEF ScanReturn
<1>5. \A a : FirstMatch(a)' = FirstMatch(a)
  BY <1>1 DEF FirstMatch, Holds
<1> QED BY <1>1, <1>2, <1>3, <1>4, <1>5 DEF ScanInv, NoPartialAnswer

\* The scan leaves the sort alone.
LEMMA SystemStepsSort ==
  ASSUME [SystemNext]_allVars
  PROVE  [Next]_vars
<1>1. ASSUME NEW b, ScanReturns(b) \/ ScanBegin(b) PROVE UNCHANGED vars
  BY <1>1 DEF ScanReturns, ScanEmpty, ScanEmptyTable, RejectBatch, RejectTable,
     RejectMismatch, ScanBegin, Asked, ValidBatch, ScanCall
<1> QED BY <1>1 DEF SystemNext, ScanNext, SortTable, Answer, ScanReturn, allVars

LEMMA ScanPreserved ==
  ASSUME ScanInv, NoPartialAnswer, [SystemNext]_allVars
  PROVE  ScanInv' /\ NoPartialAnswer'
<1>1. CASE SortTable
  BY <1>1, SortTableKeepsScan
<1>2. CASE \E b \in Batches : ScanReturns(b) \/ ScanBegin(b)
  BY <1>2, ScanReturnsKeep, ScanBeginKeeps
<1>3. CASE Answer
  BY <1>3, AnswerKeeps
<1>4. CASE ScanReturn
  BY <1>4, ScanReturnKeeps
<1>5. CASE UNCHANGED allVars
  BY <1>5 DEF allVars, scanCallVars, vars, sortVars, engineVars, ScanInv, NoPartialAnswer,
     FirstMatch, Holds
<1> QED BY <1>1, <1>2, <1>3, <1>4, <1>5 DEF SystemNext, ScanNext

----------------------------------------------------------------------------
(* The first match of a sorted table is the longest.                       *)

\* Every entry of the input is somewhere in the array.
LEMMA EntriesRemain ==
  ASSUME TypeOK, Permutes, NEW m \in DOMAIN input
  PROVE  \E k \in DOMAIN arr : arr[k].src = m
<1> DEFINE D == DOMAIN input
           f == [k \in D |-> arr[k].src]
<1>1. IsFiniteSet(D) /\ arr \in [D -> Cell]
  BY DEF TypeOK, EngineTypeOK, IsPrefixArray
<1>2. f \in [D -> D]
  BY <1>1 DEF Cell
<1>3. \A k, l \in D : f[k] = f[l] => k = l
  BY <1>1 DEF Permutes
<1> HIDE DEF f, D
<1>4. f \in Injection(D, D)
  BY <1>2, <1>3 DEF Injection, IsInjective
<1>5. f \in Surjection(D, D)
  BY <1>1, <1>4, FS_Injection
<1>6. PICK k \in D : f[k] = m
  BY <1>5 DEF Surjection, D
<1> QED BY <1>1, <1>6 DEF f, D

\* The descending order puts the longer prefix first.
LEMMA LongerFirst ==
  ASSUME NEW c \in Cell, NEW d \in Cell, ~Before(d, c, "DESC")
  PROVE  d.pfxlen <= c.pfxlen
<1>1. /\ c.pfxlen \in Int /\ d.pfxlen \in Int /\ ByteSize \in Int /\ AddrLen \in Nat
      /\ 0 \in 0 .. KeyLen("DESC") - 1
  BY ShapeAssumption, EngineShape, Shape DEF Cell, Pfxlen, MaxPfxlen, KeyLen
<1>2. /\ KeyByte(d, 0, "DESC") = ByteSize - 1 - d.pfxlen
      /\ KeyByte(c, 0, "DESC") = ByteSize - 1 - c.pfxlen
  BY DEF KeyByte, DescByte
<1>3. ~(KeyByte(d, 0, "DESC") < KeyByte(c, 0, "DESC"))
  <2>1. \A r \in 0 .. 0 - 1 : KeyByte(d, r, "DESC") = KeyByte(c, r, "DESC")
    OBVIOUS
  <2> QED BY <1>1, <2>1 DEF Before
<1> QED BY <1>1, <1>2, <1>3

LEMMA FirstIsLongest ==
  ASSUME TypeOK, Permutes, Sorted, ret = "OK", order = "DESC", NEW a \in Address
  PROVE  LET holding == {m \in DOMAIN input : Value(a) \in Span(input[m])}
             longest == {m \in holding : \A l \in holding : input[l].pfxlen <= input[m].pfxlen}
         IN  IF holding = {} THEN FirstMatch(a) = NoMatch
             ELSE /\ FirstMatch(a) # NoMatch
                  /\ arr[FirstMatch(a)].src \in longest
                  /\ \A m \in longest : arr[FirstMatch(a)].src <= m
<1> DEFINE holding == {m \in DOMAIN input : Value(a) \in Span(input[m])}
           longest == {m \in holding : \A l \in holding : input[l].pfxlen <= input[m].pfxlen}
<1>1. /\ IsPrefixArray(input) /\ arr \in [DOMAIN input -> Cell]
      /\ DOMAIN input = 0 .. count - 1 /\ count \in Nat
  BY ArrayShape DEF TypeOK, EngineTypeOK
<1>2. \A m \in DOMAIN input : /\ input[m].addr \in Address /\ input[m].pfxlen \in Pfxlen
                              /\ MaskApply(input[m].addr, input[m].pfxlen) = input[m].addr
  BY <1>1 DEF IsPrefixArray
<1>3. \A k \in DOMAIN input : /\ arr[k].src \in DOMAIN input
                              /\ SameKey(arr[k], input[arr[k].src])
  BY <1>1 DEF Permutes, Cell
<1>4. \A m \in DOMAIN input : PrefixMatches(input[m], a) <=> m \in holding
  BY <1>2, MatchIsMembership
<1>5. \A k \in DOMAIN input : k \in Holds(a) <=> arr[k].src \in holding
  BY <1>1, <1>3, <1>4 DEF Holds, PrefixMatches, SameKey
<1>6. Holds(a) \subseteq DOMAIN input
  BY <1>1 DEF Holds
<1>7. \A m \in holding : \E k \in Holds(a) : arr[k].src = m
  BY <1>1, <1>5, EntriesRemain
<1> HIDE DEF holding
<1>8. CASE holding = {}
  <2>1. Holds(a) = {}
    BY <1>5, <1>6, <1>8
  <2> QED BY <1>8, <2>1 DEF FirstMatch, holding
<1>9. CASE holding # {}
  <2> DEFINE x == FirstMatch(a)
  <2>1. Holds(a) # {}
    BY <1>7, <1>9
  <2>2. x \in Holds(a) /\ \A l \in Holds(a) : x <= l
    <3>1. \E k \in Holds(a) : \A l \in Holds(a) : k <= l
      BY <1>1, <1>6, <2>1, LeastElement
    <3> QED BY <2>1, <3>1 DEF FirstMatch
  <2> HIDE DEF x
  <2>3. x \in DOMAIN input /\ x \in Nat /\ arr[x].src \in holding
    BY <1>1, <1>5, <1>6, <2>2
  <2>4. x # NoMatch
    BY <2>3 DEF NoMatch
  <2>5. ASSUME NEW k \in Holds(a)
        PROVE  arr[k].pfxlen <= arr[x].pfxlen
    <3>1. k \in DOMAIN input /\ arr[k] \in Cell /\ arr[x] \in Cell
      BY <1>1, <1>6, <2>3
    <3>2. k = x \/ x < k
      BY <1>1, <2>2, <2>3, <3>1
    <3>3. CASE k = x
      BY <3>1, <3>3, Shape DEF Cell, Pfxlen, MaxPfxlen
    <3>4. CASE x < k
      BY <1>1, <2>3, <3>1, <3>4, LongerFirst DEF Sorted
    <3> QED BY <3>2, <3>3, <3>4
  <2>6. \A k \in Holds(a) : input[arr[k].src].pfxlen = arr[k].pfxlen
    BY <1>3, <1>6 DEF SameKey
  <2>7. arr[x].src \in longest
    BY <1>7, <2>2, <2>3, <2>5, <2>6
  <2>8. ASSUME NEW m \in longest PROVE arr[x].src <= m
    <3>1. PICK k \in Holds(a) : arr[k].src = m
      BY <1>7
    <3>2. k \in DOMAIN input /\ arr[k] \in Cell /\ arr[x] \in Cell
      BY <1>1, <1>6, <2>3
    <3>3. arr[k].pfxlen = arr[x].pfxlen
      <4>1. arr[x].pfxlen <= arr[k].pfxlen
        BY <2>2, <2>3, <2>6, <3>1
      <4> QED BY <2>5, <3>2, <4>1, Shape DEF Cell, Pfxlen, MaxPfxlen
    <3>4. arr[k].addr = arr[x].addr
      <4>1. ASSUME NEW j \in Holds(a)
            PROVE  arr[j].addr = MaskApply(a, arr[j].pfxlen)
        <5>1. /\ j \in DOMAIN input /\ arr[j].src \in DOMAIN input
              /\ PrefixMatches(input[arr[j].src], a)
              /\ arr[j].addr = input[arr[j].src].addr
              /\ arr[j].pfxlen = input[arr[j].src].pfxlen
          BY <1>3, <1>4, <1>5, <1>6 DEF SameKey
        <5> QED BY <1>2, <5>1, MatchGivesAddress
      <4> QED BY <2>2, <3>3, <4>1
    <3>5. k = x \/ x < k
      BY <1>1, <2>2, <2>3, <3>2
    <3>6. arr[k].src \in Int /\ arr[x].src \in Int
      BY <1>1, <3>2 DEF Cell
    <3>7. CASE k = x
      BY <3>1, <3>6, <3>7
    <3>8. CASE x < k
      <4>1. arr[x].src < arr[k].src
        BY <1>1, <2>3, <3>2, <3>3, <3>4, <3>8 DEF Sorted, SameKey
      <4> QED BY <3>1, <3>6, <4>1
    <3> QED BY <3>5, <3>7, <3>8
  <2> QED BY <1>9, <2>4, <2>7, <2>8 DEF x, holding
<1> QED BY <1>8, <1>9

----------------------------------------------------------------------------
(* The theorems.                                                           *)

SystemInv == IInv /\ ScanInv /\ NoPartialAnswer

\* The sort keeps its invariant while the table is scanned, and the scan its
\* own, in every reachable state of a program that uses both.
THEOREM SystemInvariance == SystemSpec => []SystemInv
<1>1. ScanInit => SystemInv
  BY InitShape, InitOrder, InitScan DEF ScanInit, IInv, SystemInv
<1>2. SystemInv /\ [SystemNext]_allVars => SystemInv'
  <2> SUFFICES ASSUME SystemInv, [SystemNext]_allVars PROVE SystemInv'
    OBVIOUS
  <2>1. [Next]_vars
    BY SystemStepsSort
  <2>2. IInv'
    BY <2>1, ShapePreserved, OrderPreserved DEF SystemInv, IInv
  <2>3. ScanInv' /\ NoPartialAnswer'
    BY ScanPreserved DEF SystemInv
  <2> QED BY <2>2, <2>3 DEF SystemInv
<1> QED BY <1>1, <1>2, PTL DEF SystemSpec

\* Whoever reads matches[] after the return reads all of it or finds it
\* untouched, and no error comes with a match.
THEOREM AnswersWholeOrNone == SystemSpec => []NoPartialAnswer
<1>1. SystemInv => NoPartialAnswer
  BY DEF SystemInv
<1> QED BY <1>1, SystemInvariance, PTL

\* The comment of cidr_bulk_contains is right: after a successful descending
\* sort each answer is the longest prefix that holds the address, and of equal
\* ones the one the caller listed first.
THEOREM FirstMatchIsLongest == SystemSpec => []LongestMatchWhenSorted
<1>1. ASSUME SystemInv PROVE LongestMatchWhenSorted
  <2> SUFFICES ASSUME scan = "returned", scanRet = "OK", ret = "OK", order = "DESC",
                      NEW k \in DOMAIN matches
               PROVE  LET holding == {m \in DOMAIN input : Value(batch[k].addr) \in Span(input[m])}
                          longest == {m \in holding :
                                        \A l \in holding : input[l].pfxlen <= input[m].pfxlen}
                      IN  IF holding = {} THEN matches[k] = NoMatch
                          ELSE /\ matches[k] # NoMatch
                               /\ arr[matches[k]].src \in longest
                               /\ \A m \in longest : arr[matches[k]].src <= m
    BY DEF LongestMatchWhenSorted
  <2>1. matches[k] = FirstMatch(batch[k].addr) /\ k \in DOMAIN batch
    BY <1>1 DEF SystemInv, ScanInv, NoPartialAnswer
  <2>2. batch[k].addr \in Address
    BY <1>1, <2>1, BatchShape DEF SystemInv, ScanInv
  <2>3. TypeOK /\ Permutes /\ Sorted
    BY <1>1 DEF SystemInv, IInv, ShapeInv, OrderInv
  <2>4. PICK x : x = matches[k]
    OBVIOUS
  <2> QED BY <2>1, <2>2, <2>3, FirstIsLongest
<1> QED BY <1>1, SystemInvariance, PTL
=============================================================================
