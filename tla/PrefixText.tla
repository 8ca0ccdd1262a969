----------------------------- MODULE PrefixText -----------------------------
(***************************************************************************)
(* The prefix parser and formatter of src/cidr_prefix.c, and the prefix    *)
(* functions of both families behind one cidr_prefix_t.  V4 and V6 are the *)
(* byte-wise functions of CidrPrefix in the two widths of the library.     *)
(***************************************************************************)
EXTENDS AddrText

V4 == INSTANCE CidrPrefix WITH ByteBits <- 8, AddrLen <- 4
V6 == INSTANCE CidrPrefix WITH ByteBits <- 8, AddrLen <- 16

CIDR_PREFIX_STR_MAX == 50

\* prefix_pfxlen_max
MaxLen(family) == IF family = "INET" THEN 32 ELSE 128

NoPrefix == [addr |-> NoAddr, pfxlen |-> 0]

\* prefix_mask_apply
MaskedTo(addr, n) ==
  [addr EXCEPT !.bytes = IF addr.family = "INET" THEN V4!MaskApply(@, n)
                         ELSE V6!MaskApply(@, n)]

\* A cidr_prefix_t the library may return.
IsNetwork(p) == /\ p.addr.family \in {"INET", "INET6"}
                /\ p.pfxlen \in 0 .. MaxLen(p.addr.family)
                /\ DOMAIN p.addr.bytes = BytesOf(p.addr.family)
                /\ MaskedTo(p.addr, p.pfxlen) = p.addr

\* The functions of CidrPrefix on one of the family's networks.
Raw(p) == [addr |-> p.addr.bytes, pfxlen |-> p.pfxlen]
ContainsAddr(p, a) == IF p.addr.family = "INET" THEN V4!Contains(Raw(p), a.bytes)
                      ELSE V6!Contains(Raw(p), a.bytes)
OverlapsNet(p, q) == IF p.addr.family = "INET" THEN V4!Overlaps(Raw(p), Raw(q))
                     ELSE V6!Overlaps(Raw(p), Raw(q))
FirstOf(p) == p.addr
LastOf(p) == [p.addr EXCEPT !.bytes = IF p.addr.family = "INET" THEN V4!Last(Raw(p))
                                      ELSE V6!Last(Raw(p))]
MaskOf(p) == [p.addr EXCEPT !.bytes = IF p.addr.family = "INET" THEN V4!MaskCompute(p.pfxlen)
                                      ELSE V6!MaskCompute(p.pfxlen)]

----------------------------------------------------------------------------
\* parse_pfxlen: one run of decimal digits up to 128, leading zeros allowed.
ParsePfxlen(t) == IF Len(t) = 1 /\ IsDecimal(t[1]) /\ DecValue(t[1]) <= 128
                    THEN DecValue(t[1]) ELSE -1

\* cidr_prefix_from_host; a failure writes nothing.
FromHost(addr, n, out) ==
  IF addr.family = "UNSPEC" THEN [rc |-> "INVAL", out |-> out]
  ELSE IF n > MaxLen(addr.family) THEN [rc |-> "PFXLEN", out |-> out]
  ELSE [rc |-> "OK", out |-> [addr |-> MaskedTo(addr, n), pfxlen |-> n]]

\* Mutant: the address is parsed into the caller's struct.
PrefixParseInPlace(t, out) ==
  LET slash == LastPos(t, "/")
      host  == Before(t, slash)
      Result(a, n) ==
        LET net  == [addr |-> MaskedTo(a.out, n), pfxlen |-> n]
            \* what the caller's struct holds when a test after the parse fails
            left == [out EXCEPT !.addr = a.out]
        IN  IF a.rc # "OK" THEN [rc |-> a.rc, out |-> left]
            ELSE IF n = -1 \/ n > MaxLen(a.out.family) THEN [rc |-> "PFXLEN", out |-> left]
            ELSE IF net.addr # a.out THEN [rc |-> "HOSTBITS", out |-> left]
            ELSE [rc |-> "OK", out |-> net]
  IN  IF slash <= 1 \/ Width(host) >= CIDR_ADDR_STR_MAX THEN [rc |-> "PARSE", out |-> out]
      ELSE Result(AddrParse(host, out.addr), ParsePfxlen(After(t, slash)))

\* cidr_prefix_parse: the address before the last slash, then the length, then
\* the host bits.  A failure writes nothing.
PrefixParse(t, out) ==
  LET slash == LastPos(t, "/")
      host  == Before(t, slash)
      Fail(rc) == [rc |-> rc, out |-> out]
      Result(a, n) ==
        LET net == [addr |-> MaskedTo(a.out, n), pfxlen |-> n]
        IN  IF a.rc # "OK" THEN Fail(a.rc)
            ELSE IF n = -1 \/ n > MaxLen(a.out.family) THEN Fail("PFXLEN")
            ELSE IF net.addr # a.out THEN Fail("HOSTBITS")
            ELSE [rc |-> "OK", out |-> net]
  IN  IF slash <= 1 \/ Width(host) >= CIDR_ADDR_STR_MAX THEN Fail("PARSE")
      ELSE Result(AddrParse(host, NoAddr), ParsePfxlen(After(t, slash)))

\* cidr_prefix_format with a buffer of CIDR_PREFIX_STR_MAX.
PrefixFormat(p) ==
  LET WithLength(a) == IF a.rc # "OK" THEN a
                       ELSE [rc |-> "OK", text |-> a.text \o <<Char("/"), Dec(p.pfxlen)>>]
  IN  WithLength(AddrFormat(p.addr))

\* cidr_prefix_supernet; nothing is written for a /0.
Supernet(p, out) ==
  IF p.addr.family = "UNSPEC" THEN [rc |-> "INVAL", out |-> out]
  ELSE IF p.pfxlen = 0 THEN [rc |-> "OVERFLOW", out |-> out]
  ELSE [rc |-> "OK", out |-> [addr |-> MaskedTo(p.addr, p.pfxlen - 1), pfxlen |-> p.pfxlen - 1]]
=============================================================================
