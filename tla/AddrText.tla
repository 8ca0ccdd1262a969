------------------------------ MODULE AddrText ------------------------------
(***************************************************************************)
(* The address parser and the address formatter of src/cidr_addr.c, in     *)
(* their true dimensions: a cidr_addr_t has a family and 4 or 16 bytes.    *)
(***************************************************************************)
EXTENDS Text

V4Bytes == 0 .. 3
V6Bytes == 0 .. 15
BytesOf(family) == IF family = "INET" THEN V4Bytes ELSE V6Bytes

CIDR_ADDR_STR_MAX == 46

\* A cidr_addr_t the caller has zeroed.
NoAddr == [family |-> "UNSPEC", bytes |-> [k \in V6Bytes |-> 0]]

----------------------------------------------------------------------------
(* The loops of the scanners: a scan has a position and what it has read,  *)
(* and may have been given up.                                             *)

Reject(s) == [s EXCEPT !.bad = TRUE]
ScanEnds(t, s) == s.bad \/ s.p > Len(t)

\* Every pass consumes a token or gives up: as many passes as tokens suffice.
Passes(t, start, Iteration(_, _)) ==
  LET Pass(s) == IF ScanEnds(t, s) THEN s ELSE Iteration(t, s)
      after[n \in 0 .. Len(t)] == IF n = 0 THEN start ELSE Pass(after[n - 1])
  IN  after[Len(t)]

----------------------------------------------------------------------------
(* Dotted decimal.                                                         *)

IsOctet(x) == IsDecimal(x) /\ ~LeadingZero(x) /\ DecValue(x) <= 255

\* One pass through the loop: an octet, and a dot if the text does not end.
OctetIteration(t, s) ==
  LET q == s.p + 1
  IN  IF ~IsOctet(t[s.p]) \/ Len(s.octets) >= 4 THEN Reject(s)
      ELSE IF q <= Len(t) /\ (~IsChar(t, q, ".") \/ q = Len(t)) THEN Reject(s)
      ELSE [s EXCEPT !.octets = Append(@, DecValue(t[s.p])), !.p = q + 1]

\* ipv4_suffix_parse: the four octets of a text, none if it is not dotted decimal.
ScanOctets(t) ==
  LET s == Passes(t, [p |-> 1, octets |-> <<>>, bad |-> FALSE], OctetIteration)
  IN  IF s.bad \/ Len(s.octets) # 4 THEN <<>> ELSE s.octets

\* addr_parse_ipv4, whose loop is the same; the struct is written at the end.
ParseIPv4(t, out) ==
  LET Result(octets) ==
        IF octets = <<>> THEN [rc |-> "PARSE", out |-> out]
        ELSE [rc  |-> "OK",
              out |-> [family |-> "INET", bytes |-> [k \in V4Bytes |-> octets[k + 1]]]]
  IN  Result(ScanOctets(t))

----------------------------------------------------------------------------
(* Hexadecimal groups.  A scan has the :: it met and the groups before and *)
(* after it.                                                               *)

StartOfScan == [p |-> 1, cc |-> FALSE, before |-> <<>>, after |-> <<>>, bad |-> FALSE]
Compress(s, n) == IF s.cc THEN Reject(s) ELSE [s EXCEPT !.cc = TRUE, !.p = @ + n]

IsGroup(x) == x.c = "hex" /\ x.w <= 4

\* before[] and after[] have room for max_groups each.
AddGroup(s, v, max, next) ==
  IF Len(IF s.cc THEN s.after ELSE s.before) >= max THEN Reject(s)
  ELSE IF s.cc THEN [s EXCEPT !.after = Append(@, v), !.p = next]
  ELSE [s EXCEPT !.before = Append(@, v), !.p = next]

\* Mutant: a second :: is taken for the first.
PureIterationAnyCompress(t, s) ==
  LET q == s.p + 1
  IN  IF IsChar(t, s.p, ":") /\ IsChar(t, q, ":") THEN [s EXCEPT !.cc = TRUE, !.p = @ + 2]
      ELSE IF ~IsGroup(t[s.p]) THEN Reject(s)
      ELSE IF q > Len(t) THEN AddGroup(s, t[s.p].v, 8, q)
      ELSE IF ~IsChar(t, q, ":") THEN Reject(s)
      ELSE AddGroup(s, t[s.p].v, 8, IF IsChar(t, q + 1, ":") THEN q ELSE q + 1)

\* One pass through the loop of the pure path.  A colon that does not begin a
\* :: is skipped with the group in front of it, at the end of the text too.
PureIteration(t, s) ==
  LET q == s.p + 1
  IN  IF IsChar(t, s.p, ":") /\ IsChar(t, q, ":") THEN Compress(s, 2)
      ELSE IF ~IsGroup(t[s.p]) THEN Reject(s)
      ELSE IF q > Len(t) THEN AddGroup(s, t[s.p].v, 8, q)
      ELSE IF ~IsChar(t, q, ":") THEN Reject(s)
      ELSE AddGroup(s, t[s.p].v, 8, IF IsChar(t, q + 1, ":") THEN q ELSE q + 1)

\* One pass through the loop of the mixed path, over the text in front of the
\* last colon: a single colon at its end is half of a :: whose other half is
\* that last colon.
MixedIteration(h, s) ==
  LET q == s.p + 1
  IN  IF IsChar(h, s.p, ":") /\ IsChar(h, q, ":") THEN Compress(s, 2)
      ELSE IF IsChar(h, s.p, ":") /\ q > Len(h) THEN Compress(s, 1)
      ELSE IF ~IsGroup(h[s.p]) THEN Reject(s)
      ELSE IF q > Len(h) THEN AddGroup(s, h[s.p].v, 6, q)
      ELSE IF ~IsChar(h, q, ":") THEN Reject(s)
      ELSE AddGroup(s, h[s.p].v, 6,
                    IF IsChar(h, q + 1, ":") \/ q = Len(h) THEN q ELSE q + 1)

ScanPure(t) == Passes(t, StartOfScan, PureIteration)
ScanMixed(h) == Passes(h, StartOfScan, MixedIteration)

\* Without :: every group is there; with it, one or more are missing.
CountFits(s, max) ==
  LET total == Len(s.before) + Len(s.after)
  IN  IF s.cc THEN total < max ELSE total = max

Expand(s, max) ==
  s.before \o [i \in 1 .. max - Len(s.before) - Len(s.after) |-> 0] \o s.after

\* Byte k of a sequence of 16-bit groups.
GroupByte(gs, k) == LET g == gs[k \div 2 + 1]
                    IN  IF k % 2 = 0 THEN g \div 256 ELSE g % 256

\* ::ffff:0:0/96
MappedPrefix(bytes) == /\ \A k \in 0 .. 9 : bytes[k] = 0
                       /\ bytes[10] = 255
                       /\ bytes[11] = 255

\* addr_parse_ipv6, a text with a dot after its last colon.  The bytes are
\* written before the mapped prefix is tested.
ParseMixed(t, out) ==
  LET colon == LastPos(t, ":")
      Result(octets, s) ==
        LET bytes == [k \in V6Bytes |-> IF k < 12 THEN GroupByte(Expand(s, 6), k)
                                        ELSE octets[k - 11]]
        IN  IF octets = <<>> \/ s.bad \/ ~CountFits(s, 6) THEN [rc |-> "PARSE", out |-> out]
            ELSE IF ~MappedPrefix(bytes)
              THEN [rc |-> "PARSE", out |-> [out EXCEPT !.bytes = bytes]]
            ELSE [rc |-> "OK", out |-> [family |-> "INET6", bytes |-> bytes]]
  IN  Result(ScanOctets(After(t, colon)), ScanMixed(Before(t, colon)))

\* addr_parse_ipv6, any other text with a colon.
ParsePure(t, out) ==
  LET Result(s) ==
        IF s.bad \/ ~CountFits(s, 8) THEN [rc |-> "PARSE", out |-> out]
        ELSE [rc  |-> "OK",
              out |-> [family |-> "INET6",
                       bytes  |-> [k \in V6Bytes |-> GroupByte(Expand(s, 8), k)]]]
  IN  Result(ScanPure(t))

\* is_mixed_suffix: a dot after the last colon.
IsMixed(t) == LastPos(t, ".") > LastPos(t, ":")

\* cidr_addr_parse: a text with a colon is IPv6; a failure is written into the
\* family, whatever the parser left in the bytes.
AddrParse(t, out) ==
  LET Marked(r) == IF r.rc = "OK" THEN r
                   ELSE [rc |-> r.rc, out |-> [r.out EXCEPT !.family = "UNSPEC"]]
  IN  Marked(IF LastPos(t, ":") = 0 THEN ParseIPv4(t, out)
             ELSE IF IsMixed(t) THEN ParseMixed(t, out) ELSE ParsePure(t, out))

----------------------------------------------------------------------------
(* Formatting.                                                             *)

Group(bytes, i) == bytes[2 * i] * 256 + bytes[2 * i + 1]

\* Mutant: a later run of the same length wins.
LongestRunLast(groups) ==
  LET after[n \in 0 .. 8] ==
        IF n = 0 THEN [start |-> -1, len |-> 0, curr |-> 0]
        ELSE LET prev == after[n - 1]
                 run  == IF groups[n - 1] = 0 THEN prev.curr + 1 ELSE 0
             IN  IF run >= prev.len /\ run > 0
                   THEN [start |-> n - run, len |-> run, curr |-> run]
                   ELSE [prev EXCEPT !.curr = run]
      best == after[8]
  IN  IF best.len < 2 THEN [start |-> -1, len |-> 0]
      ELSE [start |-> best.start, len |-> best.len]

\* find_zero_compress: the longest run of zero groups, the first one on a tie,
\* none shorter than two.  The code compares a run when it ends; comparing it
\* as it grows picks the same one.
LongestRun(groups) ==
  LET after[n \in 0 .. 8] ==
        IF n = 0 THEN [start |-> -1, len |-> 0, curr |-> 0]
        ELSE LET prev == after[n - 1]
                 run  == IF groups[n - 1] = 0 THEN prev.curr + 1 ELSE 0
             IN  IF run > prev.len
                   THEN [start |-> n - run, len |-> run, curr |-> run]
                   ELSE [prev EXCEPT !.curr = run]
      best == after[8]
  IN  IF best.len < 2 THEN [start |-> -1, len |-> 0]
      ELSE [start |-> best.start, len |-> best.len]

Dotted(bytes, k) ==
  <<Dec(bytes[k]), Char("."), Dec(bytes[k + 1]), Char("."),
    Dec(bytes[k + 2]), Char("."), Dec(bytes[k + 3])>>

FormatIPv4(bytes) == Dotted(bytes, 0)

\* Groups first .. last with colons between them.
Colons(bytes, first, last) ==
  IF last < first THEN <<>>
  ELSE [p \in 1 .. 2 * (last - first) + 1 |->
          IF p % 2 = 1 THEN Hex16(Group(bytes, first + p \div 2)) ELSE Char(":")]

\* addr_format_ipv6
FormatIPv6(bytes) ==
  LET run == LongestRun([i \in 0 .. 7 |-> Group(bytes, i)])
  IN  IF MappedPrefix(bytes)
        THEN <<Char(":"), Char(":"), Hex(65535, 4), Char(":")>> \o Dotted(bytes, 12)
      ELSE IF run.start < 0 THEN Colons(bytes, 0, 7)
      ELSE Colons(bytes, 0, run.start - 1) \o <<Char(":"), Char(":")>>
             \o Colons(bytes, run.start + run.len, 7)

\* cidr_addr_format with a buffer of CIDR_ADDR_STR_MAX; UNSPEC is refused.
AddrFormat(addr) ==
  IF addr.family = "UNSPEC" THEN [rc |-> "INVAL", text |-> <<>>]
  ELSE [rc   |-> "OK",
        text |-> IF addr.family = "INET" THEN FormatIPv4(addr.bytes)
                 ELSE FormatIPv6(addr.bytes)]

\* cidr_addr_to_v4; a failure writes nothing.
AddrToV4(addr, out) ==
  IF addr.family = "UNSPEC" THEN [rc |-> "INVAL", out |-> out]
  ELSE IF addr.family = "INET" \/ ~MappedPrefix(addr.bytes)
    THEN [rc |-> "FAMILY", out |-> out]
  ELSE [rc  |-> "OK",
        out |-> [family |-> "INET", bytes |-> [k \in V4Bytes |-> addr.bytes[k + 12]]]]
=============================================================================
