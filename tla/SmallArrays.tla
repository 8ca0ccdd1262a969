----------------------------- MODULE SmallArrays -----------------------------
(***************************************************************************)
(* The arrays the model-checked instances of the aggregation, of the index *)
(* build and of the lookup pass to them: every short array of prefixes,    *)
(* longer ones in ascending order only (the order of the input matters to  *)
(* the sort alone), and mixes of families of two entries.                  *)
(***************************************************************************)
EXTENDS PrefixArray

CONSTANTS MaxCount, MaxAscending

Entry(p, fam) == [addr |-> p.addr, pfxlen |-> p.pfxlen, fam |-> fam]
Entries == {Entry(p, Inet) : p \in Prefix}

\* Arrays in the sort's order, each one entry longer than the ones before.
Ascending[n \in 0 .. MaxAscending] ==
  IF n = 0 THEN [{} -> Entries]
  ELSE {[k \in 0 .. n - 1 |-> IF k < n - 1 THEN A[k] ELSE e] :
          <<A, e>> \in {<<B, f>> \in Ascending[n - 1] \X Entries :
                         n = 1 \/ PrefixCmp(B[n - 2], f) <= 0}}

AnyOrder == UNION {[0 .. n - 1 -> Entries] : n \in 0 .. MaxCount}
MixedFamilies == [0 .. 1 -> {Entry(FromHost(Zeros, 0), f) : f \in Family}]

MCArrays == AnyOrder \cup MixedFamilies
       \cup UNION {Ascending[n] : n \in MaxCount + 1 .. MaxAscending}
=============================================================================
