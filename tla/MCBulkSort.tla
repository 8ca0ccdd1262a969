----------------------------- MODULE MCBulkSort -----------------------------
(***************************************************************************)
(* Arrays of up to MaxCount prefixes of a sample in every order, on two    *)
(* bytes of three bits, the narrowest bytes a length of two of them fits   *)
(* into.  The prefixes differ in the first byte, in the second, or in the  *)
(* length alone, and leave most buckets empty.  To be refused: every mix   *)
(* of families in three entries, and one more entry than a tag can number. *)
(* One batch asks for the ends of the sample's prefixes and for addresses  *)
(* outside of all but the widest; the others are refused or empty.         *)
(***************************************************************************)
EXTENDS BulkContains

CONSTANT MaxCount

Addr(b0, b1) == [k \in BytePos |-> IF k = 0 THEN b0 ELSE b1]
Sample == {FromHost(Addr(0, 0), 0), FromHost(Addr(0, 0), 4), FromHost(Addr(0, 4), 4),
           FromHost(Addr(0, 4), 6), FromHost(Addr(4, 0), 1), FromHost(Addr(4, 4), 6)}

Entry(p, f) == [addr |-> p.addr, pfxlen |-> p.pfxlen, fam |-> f]
Whole(f) == Entry(FromHost(Zeros, 0), f)

MCArrays == (UNION {[0 .. n - 1 -> {Entry(p, Inet) : p \in Sample}] : n \in 0 .. MaxCount})
       \cup [0 .. 2 -> {Whole(f) : f \in Family}]
       \cup {[k \in 0 .. TagMax |-> Whole(Inet)]}

Ask(a, f) == [addr |-> a, fam |-> f]
MCBatches == {<<>>, <<Ask(Addr(0, 0), Inet), Ask(Addr(0, 4), Inet), Ask(Addr(0, 5), Inet),
                      Ask(Addr(1, 0), Inet), Ask(Addr(4, 4), Inet), Ask(Addr(7, 7), Inet)>>}
        \cup {<<Ask(Zeros, f), Ask(Zeros, g)>> : f, g \in Family}
=============================================================================
