--------------------------- MODULE MCIndexLookup ---------------------------
(***************************************************************************)
(* Fifteen prefixes of a three-bit address space.  One batch holds every   *)
(* address; the others are refused or empty.  A node limit of three stops  *)
(* the larger builds, one of forty none.                                   *)
(***************************************************************************)
EXTENDS IndexLookup, SmallArrays

\* The order of the input matters to the sort alone.
BuiltArrays == MixedFamilies \cup UNION {Ascending[n] : n \in 0 .. MaxAscending}

\* The address whose value is v.
Nth(v) == CHOOSE x \in Address : Value(x) = v
AllAddresses == [v \in 1 .. 2^KeyBits |-> [addr |-> Nth(v - 1), fam |-> Inet]]
MCBatches == {AllAddresses, <<>>,
              <<[addr |-> Zeros, fam |-> Inet], [addr |-> Zeros, fam |-> Unspec]>>,
              <<[addr |-> Zeros, fam |-> Inet], [addr |-> Zeros, fam |-> Inet6]>>}
WholeBatch == {AllAddresses}
=============================================================================
