------------------------------- MODULE MCText -------------------------------
(***************************************************************************)
(* A program in C or in Python, or a batch, on two dozen texts and on all  *)
(* texts one token away from them, and on every text of up to seven groups *)
(* or octets, colons and dots.                                             *)
(***************************************************************************)
EXTENDS PyValues

Dot(a, b, c, d) == Dotted([k \in V4Bytes |-> <<a, b, c, d>>[k + 1]], 0)
Gr(gs) == FlattenSeq([i \in DOMAIN gs |-> (IF i = 1 THEN <<>> ELSE <<Char(":")>>) \o <<Hex16(gs[i])>>])
CC == <<Char(":"), Char(":")>>
Slash(n) == <<Char("/"), Dec(n)>>
Ffff == Hex(65535, 4)

\* The longest text of an address: 45 characters.
Longest == FlattenSeq([i \in 1 .. 5 |-> <<Hex(0, 4), Char(":")>>]) \o <<Ffff, Char(":")>>
             \o Dot(255, 255, 255, 255)

MCSeeds == {
  \* addresses; two runs of zeros of different lengths and of the same
  Dot(10, 0, 0, 1), CC, CC \o Gr(<<1>>), Gr(<<1, 2, 3, 4, 5, 6, 7, 8>>),
  Gr(<<1, 2, 3, 4, 5, 6, 7>>) \o CC, Gr(<<1, 0, 0, 2, 0, 0, 0, 3>>),
  Gr(<<1, 0, 0, 2, 0, 0, 3, 4>>), Longest, CC \o <<Ffff, Char(":")>> \o Dot(10, 0, 0, 1),
  \* a mixed text outside ::ffff:0:0/96
  CC \o Gr(<<2>>) \o <<Char(":")>> \o Dot(10, 0, 0, 1),
  \* networks, with host bits and without, and lengths only one parser reads
  Dot(10, 0, 0, 0) \o Slash(8), Dot(10, 0, 0, 1) \o Slash(8), Dot(10, 0, 0, 128) \o Slash(25),
  Dot(10, 0, 0, 0) \o <<Char("/"), Char("+"), Dec(24)>>, Dot(10, 0, 0, 0) \o <<Char("/")>>,
  CC \o Slash(0), <<Hex(8193, 4), Char(":"), Hex(3512, 3)>> \o CC \o Slash(32),
  Gr(<<1, 1>>) \o CC \o Slash(33), Longest \o Slash(128),
  \* nothing at all
  <<>>}

MCShortTexts ==
  LET symbols == {Hex(1, 1), Char(":"), Char(".")}
  IN  {t \in UNION {[1 .. n -> symbols] : n \in 1 .. 7} : IsText(t)}

MCTokens == {Char(":"), Char("."), Char("/"), Char(" "), Char("-"), Char("nul"), Char("sur"),
             Hex(0, 1), Hex(8, 2), Hex(298, 3), Hex(1, 5)}

MCMates == {Dot(10, 0, 0, 1), CC \o Gr(<<1>>), Dot(10, 0, 0, 128) \o Slash(25), <<Char("x")>>}

\* A text alone, and between any two of these.
MCAround == {<< <<>>, <<>> >>} \cup {<< <<t>>, <<u>> >> : t \in MCMates, u \in MCMates}

MCLengths == {-1, 12, 33, 1001}

\* The ends of every block of the registry and the addresses next to them.
MCFills ==
  LET next(row) ==
        LET top == IF row.family = "INET" THEN V4!FillHost(row.prefix, row.pfxlen)
                    ELSE V6!FillHost(row.prefix, row.pfxlen)
            past(bytes) == IF row.family = "INET" THEN V4!BigEndianInc(bytes, 0)
                           ELSE V6!BigEndianInc(bytes, 0)
        IN  {row.prefix, top, past(top)}
      rows == {classify_table[i] : i \in DOMAIN classify_table}
  IN  UNION {{[family |-> row.family, bytes |-> b] : b \in next(row)} : row \in rows}
=============================================================================
