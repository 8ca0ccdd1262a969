---------------------------- MODULE PatriciaTrie ----------------------------
(***************************************************************************)
(* The pure parts of the LC-trie build of src/cidr_index.c: where a range  *)
(* of sorted prefixes splits, which Patricia node a child slot of a        *)
(* level-compressed node stands for, and the dynamic programme that picks  *)
(* each node's branching factor.  `A` is the sorted prefix array, `T` the  *)
(* Patricia arena: index -> node.                                          *)
(***************************************************************************)
EXTENDS CidrPrefix, FiniteSetsExt

CONSTANT MaxBranch      \* CIDR_LCTRIE_MAX_BRANCH

ASSUME TrieAssumption == MaxBranch \in Nat \ {0}

None == -1      \* CIDR_PAT_NONE, and UINT32_MAX for "no prefix"

----------------------------------------------------------------------------
(* patricia_subtree_build: the range lo .. hi-1, whose prefixes share the  *)
(* bits before `bit`.                                                      *)

EndingAt(A, lo, hi, p) == {k \in lo .. hi - 1 : A[k].pfxlen = p}
Extending(A, lo, hi, p) == {k \in lo .. hi - 1 : A[k].pfxlen > p}
\* Mutant: a path is followed past the bit where it divides.
DivergesNever(A, lo, hi, p) == FALSE

Diverges(A, lo, hi, p) ==
  \E j, k \in Extending(A, lo, hi, p) : AddrBit(A[j].addr, p) # AddrBit(A[k].addr, p)

\* Mutant: paths are not compressed.
StopsEverywhere(A, lo, hi, bit) == bit .. KeyBits - 1

\* The bits at which a path cannot be compressed further.
Stops(A, lo, hi, bit) ==
  {p \in bit .. KeyBits - 1 : EndingAt(A, lo, hi, p) # {} \/ Diverges(A, lo, hi, p)}

Node(bit, prefix, repr) == [left |-> None, right |-> None, prefix |-> prefix,
                            repr |-> repr, bit |-> bit, cost |-> 0, branch |-> 0]

\* The node of a nonempty range, before its children are linked.
NodeFor(A, lo, hi, bit) ==
  LET stops == Stops(A, lo, hi, bit)
      split == Min(stops)
      here  == EndingAt(A, lo, hi, split)
  IN  IF stops = {} THEN Node(KeyBits, lo, lo)
      ELSE Node(split, IF here = {} THEN None ELSE Min(here), lo)

\* First index that extends past the split, and first one of those with bit 1.
ExtStart(A, lo, hi, split) == Min(Extending(A, lo, hi, split) \cup {hi})
Pivot(A, lo, hi, split) ==
  Min({k \in ExtStart(A, lo, hi, split) .. hi - 1 : AddrBit(A[k].addr, split) = 1} \cup {hi})

----------------------------------------------------------------------------
(* patricia_slot_target                                                    *)

IsLeaf(node) == node.left = None /\ node.right = None
Child(node, bit) == IF bit = 0 THEN node.left ELSE node.right

\* slot_pattern_bit: bit r of a slot number of `branch` bits, first bit first.
SlotBit(slot, branch, r) == (slot \div 2^(branch - r - 1)) % 2

\* One round of the loop, at `child` with the first `used` bits of the pattern
\* matched: match the compressed path above the child, then choose a side of it.
\* A prefix stored there keeps the slot alive where nothing lies below.  Bit k
\* of the pattern is bit depth + k of an address.
MatchRound(T, A, depth, branch, slot, s) ==
  LET node  == T[s.child]
      ends  == Min({branch, Max({s.used, node.bit - depth})})
      below == Child(node, SlotBit(slot, branch, ends))
      stopAt(c) == [child |-> c, used |-> branch]
  IN  IF s.child = None \/ s.used >= branch THEN s
      ELSE IF \E k \in s.used .. ends - 1 :
                SlotBit(slot, branch, k) # AddrBit(A[node.repr].addr, depth + k)
           THEN stopAt(None)
      ELSE IF ends = branch THEN stopAt(s.child)
      ELSE IF below = None THEN stopAt(IF node.prefix # None THEN s.child ELSE None)
      ELSE [child |-> below, used |-> ends + 1]

\* The node a slot of node n resolves to, None for a dead slot.
SlotTarget(T, A, n, branch, slot) ==
  LET walk[k \in 0 .. branch] ==
        IF k = 0 THEN [child |-> Child(T[n], SlotBit(slot, branch, 0)), used |-> 1]
        ELSE MatchRound(T, A, T[n].bit, branch, slot, walk[k - 1])
  IN  walk[branch].child

----------------------------------------------------------------------------
(* patricia_dp_compute                                                     *)

\* Mutant: dead slots are thought to take no room.
SlotCostOfLive(T, A, n, branch, slot) ==
  LET target == SlotTarget(T, A, n, branch, slot)
  IN  IF target = None THEN 0 ELSE T[target].cost

SlotCost(T, A, n, branch, slot) ==
  LET target == SlotTarget(T, A, n, branch, slot)
  IN  IF target = None THEN 1 ELSE T[target].cost

\* The packed size of node n with a branching factor: itself and its slots.
BranchCost(T, A, n, branch) ==
  LET sum[k \in 0 .. 2^branch] ==
        IF k = 0 THEN 1 ELSE sum[k - 1] + SlotCost(T, A, n, branch, k - 1)
  IN  sum[2^branch]

\* The choices within a node limit, as <<cost, branch>>; a leaf has one.
BranchChoices(T, A, n, limit) ==
  IF IsLeaf(T[n]) THEN {<<1, 0>>}
  ELSE {x \in {<<BranchCost(T, A, n, b), b>> : b \in 1 .. Min({MaxBranch, KeyBits - T[n].bit})} :
          x[1] <= limit}

\* The cheapest, and of equally cheap ones the widest.
Preferred(x, y) == x[1] < y[1] \/ (x[1] = y[1] /\ x[2] >= y[2])
=============================================================================
