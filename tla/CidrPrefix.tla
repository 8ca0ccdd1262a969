----------------------------- MODULE CidrPrefix -----------------------------
(***************************************************************************)
(* Addresses and network prefixes of libcidr, and the pure operations that *)
(* src/cidr_prefix.c, src/cidr_bulk.c and src/cidr_index.c compute on      *)
(* them.  An address is AddrLen bytes in network order; a byte is ByteBits *)
(* bits wide, 8 in the library and smaller in the model-checked instances. *)
(* AddrLen is 4 (IPv4) or 16 (IPv6) in the library: both families run the  *)
(* same code, so one width at a time is modelled and the family of an      *)
(* entry is a field that the operations of one width never look into.      *)
(*                                                                         *)
(* All byte masks of the code have the form 0xFF << (8 - r), so masking a  *)
(* byte clears its low bits and is written with arithmetic, not bit by bit.*)
(***************************************************************************)
EXTENDS Integers

CONSTANTS ByteBits, AddrLen

ASSUME ShapeAssumption == /\ ByteBits \in Nat \ {0}
                          /\ AddrLen \in Nat \ {0}

KeyBits == ByteBits * AddrLen
ByteSize == 2^ByteBits
Byte == 0 .. ByteSize - 1
BytePos == 0 .. AddrLen - 1

Address == [BytePos -> Byte]
MaxPfxlen == KeyBits
Pfxlen == 0 .. MaxPfxlen

Zeros == [k \in BytePos |-> 0]

----------------------------------------------------------------------------
(* Masks.                                                                  *)

\* b & (0xFF << (8 - rem)): the top rem bits of a byte.
KeepTop(b, rem) == b - (b % 2^(ByteBits - rem))

\* prefix_mask_apply: bytes before the partial one are kept, the partial one
\* keeps its top rem bits, the rest become zero.
MaskApply(addr, pfxlen) ==
  LET full == pfxlen \div ByteBits
      rem  == pfxlen % ByteBits
  IN  [k \in BytePos |-> IF k < full THEN addr[k]
                         ELSE IF k = full /\ rem > 0 THEN KeepTop(addr[k], rem)
                         ELSE 0]

\* prefix_mask_compute: the network mask itself.
MaskCompute(pfxlen) ==
  LET full == pfxlen \div ByteBits
      rem  == pfxlen % ByteBits
  IN  [k \in BytePos |-> IF k < full THEN ByteSize - 1
                         ELSE IF k = full /\ rem > 0 THEN KeepTop(ByteSize - 1, rem)
                         ELSE 0]

\* b & mask for a mask byte: ones followed by zeros, so ByteSize - mask is the
\* weight of its lowest one.
AndMask(b, mask) == b - (b % (ByteSize - mask))

\* cidr_prefix_from_host: host bits are cleared, never refused.
FromHost(addr, pfxlen) == [addr |-> MaskApply(addr, pfxlen), pfxlen |-> pfxlen]

\* The prefixes the constructors can return: host bits are zero.
Prefix == {p \in [addr : Address, pfxlen : Pfxlen] :
             MaskApply(p.addr, p.pfxlen) = p.addr}

----------------------------------------------------------------------------
(* Containment and the order of addresses and prefixes.                    *)

\* Mutant: the partial byte is not compared.
AgreeOnFullBytes(a, b, n) == \A k \in BytePos : k < n \div ByteBits => a[k] = b[k]

\* The top n bits of two addresses agree: memcmp of the full bytes, then the
\* masked compare of the partial byte.
AgreeOnTop(a, b, n) ==
  LET full == n \div ByteBits
      rem  == n % ByteBits
  IN  /\ \A k \in BytePos : k < full => a[k] = b[k]
      /\ rem > 0 => KeepTop(a[full], rem) = KeepTop(b[full], rem)

\* bulk_prefix_contains and trie_prefix_matches: compare the top pfxlen bits.
PrefixMatches(p, a) == AgreeOnTop(p.addr, a, p.pfxlen)

\* cidr_prefix_contains: (addr & mask) == prefix->addr, over every byte.
Contains(p, a) ==
  LET mask == MaskCompute(p.pfxlen)
  IN  \A k \in BytePos : AndMask(a[k], mask[k]) = p.addr[k]

\* Mutant: only one direction is tested.
OverlapsOneWay(p, q) == Contains(p, q.addr)

\* cidr_prefix_overlaps: one contains the network address of the other.
Overlaps(p, q) == Contains(p, q.addr) \/ Contains(q, p.addr)

\* memcmp of two addresses is negative.
AddrLess(a, b) ==
  \E k \in BytePos : a[k] < b[k] /\ \A j \in BytePos : j < k => a[j] = b[j]

\* cidr_addr_cmp
AddrCmp(a, b) == IF AddrLess(a, b) THEN -1 ELSE IF a = b THEN 0 ELSE 1

\* cidr_prefix_cmp: network address first, then prefix length.
PrefixCmp(p, q) ==
  IF p.addr # q.addr THEN AddrCmp(p.addr, q.addr)
  ELSE IF p.pfxlen < q.pfxlen THEN -1
  ELSE IF p.pfxlen > q.pfxlen THEN 1 ELSE 0

----------------------------------------------------------------------------
(* Derived addresses and prefixes.                                         *)

\* cidr_prefix_last and cidr_prefix_broadcast: addr | ~mask, byte by byte.
FillHost(addr, pfxlen) ==
  LET mask == MaskCompute(pfxlen)
  IN  [k \in BytePos |-> AndMask(addr[k], mask[k]) + (ByteSize - 1 - mask[k])]

First(p) == p.addr
Last(p) == FillHost(p.addr, p.pfxlen)

\* Mutant: the length is not shortened.
SupernetOfSameLength(p) == FromHost(p.addr, p.pfxlen)

\* prefix_supernet_into, and cidr_prefix_supernet for pfxlen > 0.
Supernet(p) == FromHost(p.addr, p.pfxlen - 1)

\* Mutant: the last common bit is compared too.
SiblingsShareAllBits(p, q) == /\ p.pfxlen = q.pfxlen
                              /\ p.pfxlen > 0
                              /\ AgreeOnTop(p.addr, q.addr, p.pfxlen)

\* Mutant: the lengths are not compared.
SiblingsOfAnyLength(p, q) == p.pfxlen > 0 /\ AgreeOnTop(p.addr, q.addr, p.pfxlen - 1)

\* prefixes_are_siblings: same non-zero length, same parent.  Like the code it
\* does not ask that the two differ.
AreSiblings(p, q) ==
  /\ p.pfxlen = q.pfxlen
  /\ p.pfxlen > 0
  /\ AgreeOnTop(p.addr, q.addr, p.pfxlen - 1)

----------------------------------------------------------------------------
(* Big-endian addition of a power of two, with its carry loop.             *)

\* Mutant: the carry is dropped.
IncWithoutCarry(addr, bit) ==
  IF bit >= KeyBits THEN addr
  ELSE LET idx == AddrLen - 1 - (bit \div ByteBits)
       IN  [addr EXCEPT ![idx] = (@ + 2^(bit % ByteBits)) % ByteSize]

\* addr_big_endian_inc: add 2^bit, wrapping; a no-op at the full width.
BigEndianInc(addr, bit) ==
  IF bit >= KeyBits THEN addr
  ELSE LET idx == AddrLen - 1 - (bit \div ByteBits)
           val == addr[idx] + 2^(bit % ByteBits)
           \* byte k receives the carry when the first byte overflowed and
           \* every byte between them was all ones
           carried(k) == /\ k < idx
                         /\ val >= ByteSize
                         /\ \A j \in k + 1 .. idx - 1 : addr[j] = ByteSize - 1
       IN  [k \in BytePos |-> IF k = idx THEN val % ByteSize
                              ELSE IF carried(k) THEN (addr[k] + 1) % ByteSize
                              ELSE addr[k]]

\* trie_addr_bit: bit pos of an address, most significant first; 0 beyond it.
AddrBit(addr, pos) ==
  IF pos \div ByteBits >= AddrLen THEN 0
  ELSE (addr[pos \div ByteBits] \div 2^(ByteBits - 1 - (pos % ByteBits))) % 2
=============================================================================
