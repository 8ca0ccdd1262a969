------------------------------ MODULE PrefixOps ------------------------------
(***************************************************************************)
(* A caller of the pure prefix functions: two prefixes and one address     *)
(* that only library calls change.  Every prefix it holds came out of a    *)
(* constructor, every address out of an accessor or an addition, so the    *)
(* reachable states are the arguments the functions can be called with.    *)
(* The invariants compare what the byte-wise code computes with the        *)
(* intervals of numbers that CIDR notation stands for.                     *)
(***************************************************************************)
EXTENDS PrefixSpans

VARIABLES p, q, a
opsVars == <<p, q, a>>

OpsInit == /\ a = Zeros
           /\ p = FromHost(Zeros, 0)
           /\ q = p

\* cidr_prefix_from_host on the address at hand.
CallFromHost(len) == /\ p' = FromHost(a, len)
                     /\ UNCHANGED <<q, a>>

\* cidr_prefix_supernet; CIDR_ERR_OVERFLOW at /0 writes nothing.
CallSupernet == /\ p.pfxlen > 0
                /\ p' = Supernet(p)
                /\ UNCHANGED <<q, a>>

\* cidr_prefix_first and cidr_prefix_last.
CallBounds == /\ a' \in {First(p), Last(p)}
              /\ UNCHANGED <<p, q>>

\* The addition the subnet iterator is built from.
CallInc(bit) == /\ a' = BigEndianInc(a, bit)
                /\ UNCHANGED <<p, q>>

Exchange == /\ p' = q
            /\ q' = p
            /\ UNCHANGED a

OpsNext == \/ \E len \in Pfxlen : CallFromHost(len)
           \/ CallSupernet
           \/ CallBounds
           \/ \E bit \in 0 .. KeyBits : CallInc(bit)
           \/ Exchange

OpsSpec == OpsInit /\ [][OpsNext]_opsVars

----------------------------------------------------------------------------
\* The full-mask test of cidr_prefix_contains and the early-exit comparison
\* of bulk_prefix_contains / trie_prefix_matches both decide membership in
\* the interval of the prefix, whose ends cidr_prefix_first/last return.
ContainmentIsInterval ==
  /\ Contains(p, a) <=> Value(a) \in Span(p)
  /\ PrefixMatches(p, a) <=> Value(a) \in Span(p)
  /\ Value(First(p)) .. Value(Last(p)) = Span(p)

\* cidr_prefix_overlaps, which tests two network addresses only, finds every
\* shared address; two prefixes that share one are nested, and the covering
\* one sorts first (what the aggregation scan with one pointer relies on).
OverlapIsNesting ==
  /\ Overlaps(p, q) <=> Span(p) \cap Span(q) # {}
  /\ Overlaps(p, q) => Span(p) \subseteq Span(q) \/ Span(q) \subseteq Span(p)
  /\ Span(q) \subseteq Span(p) => PrefixCmp(p, q) \in {-1, 0}

\* prefixes_are_siblings, which never builds the parents it compares, holds of
\* two different prefixes exactly when they split one parent into halves.
SiblingsFillParent ==
  p # q => (AreSiblings(p, q) <=> /\ p.pfxlen > 0
                                  /\ q.pfxlen > 0
                                  /\ Span(p) \cap Span(q) = {}
                                  /\ Span(Supernet(p)) = Span(p) \cup Span(q))

\* addr_big_endian_inc adds a power of two modulo the address space, whatever
\* byte it starts in and however far the carry runs.
IncIsAddition ==
  \A bit \in 0 .. KeyBits - 1 :
    Value(BigEndianInc(a, bit)) = (Value(a) + 2^bit) % 2^KeyBits
=============================================================================
