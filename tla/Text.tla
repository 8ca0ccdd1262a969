-------------------------------- MODULE Text --------------------------------
(***************************************************************************)
(* Texts as the scanners of src/cidr_addr.c and src/cidr_prefix.c read     *)
(* them: a sequence of tokens.  A token is a maximal run of characters     *)
(* that hex_val knows, kept as its value and its width in characters, or   *)
(* one other character.  No two runs are adjacent, so a loop over the      *)
(* digits at hand consumes exactly one token.  The case of hex letters is  *)
(* left out: hex_val reads both, and the formatters write one of them.     *)
(***************************************************************************)
EXTENDS Integers, SequencesExt

\* hex_val[c] # 0xFF for each of the w characters, which read v in base 16.
Hex(v, w) == [c |-> "hex", v |-> v, w |-> w]

\* Any other character; "sur" is one that UTF-8 does not encode, "x" the rest.
Char(c) == [c |-> c, v |-> 0, w |-> 1]

Kinds == {"hex", ":", ".", "/", " ", "+", "-", "nul", "sur", "x"}

IsChar(t, p, c) == p \in DOMAIN t /\ t[p].c = c
IsText(t) == \A p \in 1 .. Len(t) - 1 : ~(t[p].c = "hex" /\ t[p + 1].c = "hex")

\* Number of characters.
Width(t) == LET width[n \in 0 .. Len(t)] == IF n = 0 THEN 0 ELSE width[n - 1] + t[n].w
            IN  width[Len(t)]

\* Position of the last c, 0 without one.
LastPos(t, c) == SelectLastInSeq(t, LAMBDA x : x.c = c)
Before(t, p) == SubSeq(t, 1, p - 1)
After(t, p) == SubSeq(t, p + 1, Len(t))

\* The digits of a run, digit 0 the last one, and what is left in front of them.
Quotients(x) == LET left[k \in 0 .. x.w] == IF k = 0 THEN x.v ELSE left[k - 1] \div 16
                IN  left
Nibble(x, k) == Quotients(x)[k] % 16

\* A run has no more digits than characters.
Token == {x \in [c : Kinds, v : Nat, w : Nat \ {0}] :
            /\ Quotients(x)[x.w] = 0
            /\ x.c # "hex" => x = Char(x.c)}

\* The same characters read as a decimal number.
IsDecimal(x) == x.c = "hex" /\ \A k \in 0 .. x.w - 1 : Nibble(x, k) <= 9
DecValue(x) ==
  LET value[n \in 0 .. x.w] ==
        IF n = 0 THEN 0 ELSE value[n - 1] * 10 + Nibble(x, x.w - n)
  IN  value[x.w]
LeadingZero(x) == x.w > 1 /\ Nibble(x, x.w - 1) = 0

\* uint8_to_dec: 0 .. 255 in decimal, without leading zeros.
Dec(n) ==
  Hex((n \div 100) * 256 + ((n \div 10) % 10) * 16 + (n % 10),
      IF n >= 100 THEN 3 ELSE IF n >= 10 THEN 2 ELSE 1)

\* uint16_to_hex: 0 .. 65535, leading zero digits skipped.
Hex16(v) ==
  Hex(v, IF v < 16 THEN 1 ELSE IF v < 256 THEN 2 ELSE IF v < 4096 THEN 3 ELSE 4)
=============================================================================
