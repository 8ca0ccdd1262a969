---------------------------- MODULE PrefixSpans ----------------------------
(***************************************************************************)
(* What prefixes mean: addresses as numbers and prefixes as intervals of   *)
(* them, defined without the masks and byte loops of the code.  The        *)
(* properties of the project are stated in these terms.                    *)
(***************************************************************************)
EXTENDS CidrPrefix

Value(addr) ==
  LET v[n \in 0 .. AddrLen] == IF n = 0 THEN 0 ELSE v[n - 1] * ByteSize + addr[n - 1]
  IN  v[AddrLen]

AddressSpace == 0 .. 2^KeyBits - 1

\* The block of 2^(KeyBits - pfxlen) addresses around an address.
Span(p) == LET size == 2^(KeyBits - p.pfxlen)
               lo   == (Value(p.addr) \div size) * size
           IN  lo .. lo + size - 1

SpanOf(S) == UNION {Span(p) : p \in S}

\* The shortest list of prefixes for a set of addresses: the blocks inside it
\* that are not part of a larger block inside it.
Canonical(addresses) ==
  {p \in Prefix : /\ Span(p) \subseteq addresses
                  /\ p.pfxlen > 0 => ~(Span([p EXCEPT !.pfxlen = @ - 1]) \subseteq addresses)}
=============================================================================
