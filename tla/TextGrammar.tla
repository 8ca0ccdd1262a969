---------------------------- MODULE TextGrammar ----------------------------
(***************************************************************************)
(* The text forms of addresses as RFC 4291 2.2 and ARCHITECTURE.md 4.1     *)
(* define them, without a scanner: which texts are addresses, and of what. *)
(* A mixed text is an address if it is one after its dotted tail has been  *)
(* written as the two hexadecimal groups it stands for.                    *)
(***************************************************************************)
EXTENDS PrefixText

\* Single items with single separators between them; no item at all is a list.
IsListOf(t, sep, Item(_)) ==
  /\ t # <<>> => Len(t) % 2 = 1
  /\ \A p \in DOMAIN t : IF p % 2 = 1 THEN Item(t[p]) ELSE t[p].c = sep
Items(t) == [i \in 1 .. (Len(t) + 1) \div 2 |-> t[2 * i - 1]]

IsDottedQuad(t) == Len(t) = 7 /\ IsListOf(t, ".", IsOctet)
Quad(t) == [k \in V4Bytes |-> DecValue(t[2 * k + 1])]

IsGroups(t) == IsListOf(t, ":", IsGroup)

\* The places of a :: that leaves lists of groups on both sides.
Gaps(t) == {p \in 1 .. Len(t) - 1 :
              /\ IsChar(t, p, ":")
              /\ IsChar(t, p + 1, ":")
              /\ IsGroups(Before(t, p))
              /\ IsGroups(After(t, p + 1))
              /\ Len(Items(Before(t, p))) + Len(Items(After(t, p + 1))) < 8}

IsHexadecimal(t) == (IsGroups(t) /\ Len(t) = 15) \/ Gaps(t) # {}

\* The eight groups of a hexadecimal text.
GroupsOf(t) ==
  LET gap   == CHOOSE p \in Gaps(t) : TRUE
      left  == Items(Before(t, gap))
      right == Items(After(t, gap + 1))
  IN  IF Gaps(t) = {} THEN [i \in 0 .. 7 |-> Items(t)[i + 1].v]
      ELSE [i \in 0 .. 7 |-> IF i < Len(left) THEN left[i + 1].v
                             ELSE IF i >= 8 - Len(right) THEN right[i - 7 + Len(right)].v
                             ELSE 0]

BytesOfGroups(gs) ==
  [k \in V6Bytes |-> IF k % 2 = 0 THEN gs[k \div 2] \div 256 ELSE gs[k \div 2] % 256]

HasQuad(t) == Len(t) >= 9 /\ IsDottedQuad(SubSeq(t, Len(t) - 6, Len(t)))

\* a.b.c.d at the end, as hexadecimal groups.
InGroups(t) ==
  LET q == Quad(SubSeq(t, Len(t) - 6, Len(t)))
  IN  IF ~HasQuad(t) THEN t
      ELSE SubSeq(t, 1, Len(t) - 7)
             \o <<Hex(q[0] * 256 + q[1], 4), Char(":"), Hex(q[2] * 256 + q[3], 4)>>

IsIPv6Text(t) ==
  /\ LastPos(t, ":") > 0
  /\ IsHexadecimal(InGroups(t))
  /\ HasQuad(t) => MappedPrefix(BytesOfGroups(GroupsOf(InGroups(t))))

IsAddressText(t) == IsDottedQuad(t) \/ IsIPv6Text(t)

\* The address an address text stands for.
Denoted(t) ==
  IF IsDottedQuad(t) THEN [family |-> "INET", bytes |-> Quad(t)]
  ELSE [family |-> "INET6", bytes |-> BytesOfGroups(GroupsOf(InGroups(t)))]

\* What the parser takes beyond that: one more colon after the last group.
IsTrailingColonText(t) ==
  /\ Len(t) > 1
  /\ IsChar(t, Len(t), ":")
  /\ ~IsChar(t, Len(t) - 1, ":")
  /\ ~HasQuad(Front(t))
  /\ IsIPv6Text(Front(t))

----------------------------------------------------------------------------
(* Canonical text, RFC 5952 4: the runs of zero groups an address has, and *)
(* the one its text leaves out.                                            *)

ZeroRuns(gs) == {r \in (0 .. 7) \X (1 .. 8) :
                   /\ r[1] + r[2] <= 8
                   /\ \A i \in r[1] .. r[1] + r[2] - 1 : gs[i] = 0}

\* The :: of a text stands for the leftmost of the longest runs, of two groups
\* or more; a text without :: is of an address without such a run.
ElidesLongestRun(t, gs) ==
  LET left   == Len(Items(Before(t, CHOOSE p \in Gaps(t) : TRUE)))
      right  == Len(Items(After(t, 1 + CHOOSE p \in Gaps(t) : TRUE)))
      elided == <<left, 8 - left - right>>
  IN  IF Gaps(t) = {} THEN \A r \in ZeroRuns(gs) : r[2] = 1
      ELSE /\ elided \in ZeroRuns(gs)
           /\ elided[2] >= 2
           /\ \A r \in ZeroRuns(gs) : \/ r[2] < elided[2]
                                      \/ r[2] = elided[2] /\ r[1] >= elided[1]
=============================================================================
