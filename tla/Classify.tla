------------------------------ MODULE Classify ------------------------------
(***************************************************************************)
(* src/cidr_classify.c: the table of special-purpose blocks, row by row,   *)
(* and the linear scan over it.  A cidr_class_t is a set of flags.         *)
(***************************************************************************)
EXTENDS PrefixText

\* One entry: the bytes of the block up to the last one that is not zero.
Row(family, head, pfxlen, flags) ==
  [family |-> family,
   prefix |-> [k \in BytesOf(family) |-> IF k < Len(head) THEN head[k + 1] ELSE 0],
   pfxlen |-> pfxlen,
   flags  |-> flags]

\* classify_table, IPv4
Table4 ==
  <<
    Row("INET", <<>>, 8, {"THIS_HOST"}),
    Row("INET", <<>>, 32, {"THIS_HOST"}),
    Row("INET", <<10>>, 8, {"PRIVATE"}),
    Row("INET", <<100, 64>>, 10, {"SHARED"}),
    Row("INET", <<127>>, 8, {"LOOPBACK"}),
    Row("INET", <<169, 254>>, 16, {"LINK_LOCAL"}),
    Row("INET", <<172, 16>>, 12, {"PRIVATE"}),
    Row("INET", <<192>>, 24, {"IETF_RESERVED"}),
    Row("INET", <<192>>, 29, {"IETF_RESERVED"}),
    Row("INET", <<192, 0, 0, 8>>, 32, {"IETF_RESERVED"}),
    Row("INET", <<192, 0, 0, 9>>, 32, {"IETF_RESERVED", "ANYCAST"}),
    Row("INET", <<192, 0, 0, 10>>, 32, {"IETF_RESERVED", "ANYCAST"}),
    Row("INET", <<192, 0, 0, 170>>, 32, {"IETF_RESERVED"}),
    Row("INET", <<192, 0, 0, 171>>, 32, {"IETF_RESERVED"}),
    Row("INET", <<192, 0, 2>>, 24, {"DOCUMENTATION"}),
    Row("INET", <<192, 31, 196>>, 24, {"ANYCAST"}),
    Row("INET", <<192, 52, 193>>, 24, {"ANYCAST"}),
    Row("INET", <<192, 88, 99>>, 24, {"6TO4_RELAY"}),
    Row("INET", <<192, 88, 99, 2>>, 32, {"6TO4_RELAY"}),
    Row("INET", <<192, 168>>, 16, {"PRIVATE"}),
    Row("INET", <<192, 175, 48>>, 24, {"ANYCAST"}),
    Row("INET", <<198, 18>>, 15, {"BENCHMARKING"}),
    Row("INET", <<198, 51, 100>>, 24, {"DOCUMENTATION"}),
    Row("INET", <<203, 0, 113>>, 24, {"DOCUMENTATION"}),
    Row("INET", <<224>>, 4, {"MULTICAST"}),
    Row("INET", <<240>>, 4, {"RESERVED"}),
    Row("INET", <<255, 255, 255, 255>>, 32, {"BROADCAST"})
  >>

\* classify_table, IPv6
Table6 ==
  <<
    Row("INET6", <<>>, 128, {"UNSPECIFIED"}),
    Row("INET6", <<0, 0, 0, 0, 0, 0, 0, 0, 0, 0, 0, 0, 0, 0, 0, 1>>, 128, {"LOOPBACK"}),
    Row("INET6", <<0, 0, 0, 0, 0, 0, 0, 0, 0, 0, 255, 255>>, 96, {"V4MAPPED"}),
    Row("INET6", <<0, 100, 255, 155>>, 96, {"V4TRANSLATED"}),
    Row("INET6", <<0, 100, 255, 155, 0, 1>>, 48, {"V4TRANSLATED"}),
    Row("INET6", <<1>>, 64, {"DISCARD"}),
    Row("INET6", <<1, 0, 0, 0, 0, 0, 0, 1>>, 64, {"IETF_RESERVED"}),
    Row("INET6", <<32, 1>>, 23, {"IETF_RESERVED"}),
    Row("INET6", <<32, 1>>, 32, {"IETF_RESERVED", "TEREDO"}),
    Row("INET6", <<32, 1, 0, 1, 0, 0, 0, 0, 0, 0, 0, 0, 0, 0, 0, 1>>, 128, {"IETF_RESERVED", "ANYCAST"}),
    Row("INET6", <<32, 1, 0, 1, 0, 0, 0, 0, 0, 0, 0, 0, 0, 0, 0, 2>>, 128, {"IETF_RESERVED", "ANYCAST"}),
    Row("INET6", <<32, 1, 0, 1, 0, 0, 0, 0, 0, 0, 0, 0, 0, 0, 0, 3>>, 128, {"IETF_RESERVED", "ANYCAST"}),
    Row("INET6", <<32, 1, 0, 2>>, 48, {"IETF_RESERVED", "BENCHMARKING"}),
    Row("INET6", <<32, 1, 0, 3>>, 32, {"IETF_RESERVED", "ANYCAST"}),
    Row("INET6", <<32, 1, 0, 4, 1, 18>>, 48, {"IETF_RESERVED", "ANYCAST"}),
    Row("INET6", <<32, 1, 0, 16>>, 28, {"IETF_RESERVED"}),
    Row("INET6", <<32, 1, 0, 32>>, 28, {"IETF_RESERVED", "ORCHID"}),
    Row("INET6", <<32, 1, 0, 48>>, 28, {"IETF_RESERVED", "ORCHID"}),
    Row("INET6", <<32, 1, 13, 184>>, 32, {"IETF_RESERVED", "DOCUMENTATION"}),
    Row("INET6", <<32, 2>>, 16, {"6TO4"}),
    Row("INET6", <<38, 32, 0, 79, 128>>, 48, {"ANYCAST"}),
    Row("INET6", <<63, 255>>, 20, {"DOCUMENTATION"}),
    Row("INET6", <<95>>, 16, {"SRV6"}),
    Row("INET6", <<252>>, 7, {"UNIQUE_LOCAL"}),
    Row("INET6", <<254, 128>>, 10, {"LINK_LOCAL"}),
    Row("INET6", <<255>>, 8, {"MULTICAST"})
  >>

classify_table == Table4 \o Table6

\* Mutant: the byte the block ends in is compared as a whole.
RowMatchesWholeBytes(row, bytes) ==
  \A k \in DOMAIN row.prefix : k * 8 < row.pfxlen => bytes[k] = row.prefix[k]

\* (addr_bytes[byte] & byte_mask) == prefix[byte] for every byte.
RowMatches(row, bytes) ==
  \A k \in DOMAIN row.prefix :
    LET kept == IF row.pfxlen >= (k + 1) * 8 THEN bytes[k]
                ELSE IF row.pfxlen <= k * 8 THEN 0
                ELSE V4!KeepTop(bytes[k], row.pfxlen - k * 8)
    IN  kept = row.prefix[k]

\* cidr_addr_classify: the flags of every matching row of the family, GLOBAL if
\* there is none.  A refused call writes nothing.
AddrClassify(addr, out) ==
  LET matching == {i \in DOMAIN classify_table :
                     /\ classify_table[i].family = addr.family
                     /\ RowMatches(classify_table[i], addr.bytes)}
      OrGlobal(flags) == IF flags = {} THEN {"GLOBAL"} ELSE flags
  IN  IF addr.family = "UNSPEC" THEN [rc |-> "INVAL", out |-> out]
      ELSE [rc |-> "OK", out |-> OrGlobal(UNION {classify_table[i].flags : i \in matching})]
=============================================================================
