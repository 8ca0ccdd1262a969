------------------------------ MODULE TextCalls ------------------------------
(***************************************************************************)
(* A C caller of the text functions: one text, one cidr_addr_t and one     *)
(* cidr_prefix_t in its frame, which it passes to call after call without  *)
(* clearing them, and a batch interface over three texts.                  *)
(*                                                                         *)
(* Texts come from a set of seeds and all short texts; one edit leads to   *)
(* the texts next to a seed.  left bounds the calls of a behaviour.        *)
(***************************************************************************)
EXTENDS TextGrammar, Classify

CONSTANTS
  Seeds,        \* texts a caller starts from
  ShortTexts,   \* texts for a single call
  Tokens,       \* what an edit inserts
  Mates,        \* texts that follow a first text
  Fills,        \* addresses a caller writes into its struct by hand
  HostLengths,  \* lengths for cidr_prefix_from_host
  Around,       \* the texts before a text and the texts behind it in a batch
  BatchSize,    \* length of the arrays for a batch
  MaxCalls      \* calls on a seed; what is edited or filled in is used for one

IsAddress(a) == /\ a = [family |-> a.family, bytes |-> a.bytes]
                /\ a.family \in {"INET", "INET6"}
                /\ a.bytes \in [BytesOf(a.family) -> 0 .. 255]

ASSUME CallsAssumption == /\ Seeds \cup ShortTexts \cup Mates \subseteq Seq(Token)
                          /\ Tokens \subseteq Token
                          /\ \A a \in Fills : IsAddress(a)
                          /\ HostLengths \subseteq 0 .. 255
                          /\ MaxCalls \in Nat \ {0}
                          /\ BatchSize \in Nat
                          /\ \A b \in Around :
                               /\ b \in Seq(Seq(Token)) \X Seq(Seq(Token))
                               /\ Len(b[1]) + Len(b[2]) < BatchSize

VARIABLES
  caller,   \* "c", "batch" or "python"
  text,     \* the text at hand
  left,     \* calls it will still make
  addr,     \* the caller's cidr_addr_t
  pfx,      \* the caller's cidr_prefix_t
  class,    \* the caller's cidr_class_t
  last,     \* the function called last, the text it had and what it returned
  srcs,     \* srcs[] of cidr_bulk_parse
  outs,     \* out[] of cidr_bulk_parse
  errs,     \* errs[] of cidr_bulk_parse
  said      \* ghost: what the last successful call wrote to addr and to pfx

textVars == <<text, left>>
cVars == <<addr, pfx, class, said>>
batchVars == <<srcs, outs, errs>>
callVars == <<caller, textVars, cVars, last, batchVars>>

NoCall == [call |-> "none", of |-> <<>>, rc |-> "OK"]

\* Mutant: out[] and errs[] are left as they are where a text does not parse.
ParseItemSkips(acc, src, i) ==
  LET Stored(r) ==
        IF r.rc # "OK" THEN [acc EXCEPT !.failure = TRUE]
        ELSE [acc EXCEPT !.out[i] = r.out,
                         !.err[i] = "OK",
                         !.ref = IF @ = "UNSPEC" THEN r.out.family ELSE @,
                         !.mismatch = @ \/ acc.ref \notin {"UNSPEC", r.out.family}]
  IN  Stored(AddrParse(src, acc.out[i]))

\* One item of cidr_bulk_parse: it is parsed into its place, zeroed if that
\* fails, and compared with the family of the first that did not.
ParseItem(acc, src, i) ==
  LET Stored(r) ==
        IF r.rc # "OK"
          THEN [acc EXCEPT !.out[i] = NoAddr, !.err[i] = "PARSE", !.failure = TRUE]
        ELSE [acc EXCEPT !.out[i] = r.out,
                         !.err[i] = "OK",
                         !.ref = IF @ = "UNSPEC" THEN r.out.family ELSE @,
                         !.mismatch = @ \/ acc.ref \notin {"UNSPEC", r.out.family}]
  IN  Stored(AddrParse(src, acc.out[i]))

\* cidr_bulk_parse: every item is attempted, then the worse error wins.
BulkParse(texts, out, err) ==
  LET none == [out |-> out, err |-> err, ref |-> "UNSPEC", failure |-> FALSE,
               mismatch |-> FALSE]
      after[n \in 0 .. Len(texts)] ==
        IF n = 0 THEN none ELSE ParseItem(after[n - 1], texts[n], n)
      Verdict(all) ==
        [rc  |-> IF all.mismatch THEN "FAMILY" ELSE IF all.failure THEN "PARSE" ELSE "OK",
         out |-> all.out,
         err |-> all.err]
  IN  Verdict(after[Len(texts)])

----------------------------------------------------------------------------
\* A text as someone may mistype it.
Edits(t) ==
  LET inserted(p, x) == SubSeq(t, 1, p) \o <<x>> \o SubSeq(t, p + 1, Len(t))
      replaced(p, x) == [t EXCEPT ![p] = x]
      deleted(p)     == Before(t, p) \o After(t, p)
  IN  {u \in {inserted(p, x) : p \in 0 .. Len(t), x \in Tokens}
             \cup {replaced(p, x) : p \in DOMAIN t, x \in Tokens}
             \cup {deleted(p) : p \in DOMAIN t} : IsText(u)}

CInit ==
  /\ caller \in {"c", "batch", "python"}
  /\ \/ text \in Seeds /\ left = MaxCalls
     \/ text \in ShortTexts /\ left = 1
  /\ addr = NoAddr
  /\ pfx = NoPrefix
  /\ class = {}
  /\ last = NoCall
  /\ srcs = <<>>
  \* the arrays still hold what another batch left in them
  /\ outs = [i \in 1 .. BatchSize |-> [family |-> "INET6", bytes |-> [k \in V6Bytes |-> 255]]]
  /\ errs = [i \in 1 .. BatchSize |-> "OK"]
  /\ said = [addr |-> NoAddr, pfx |-> NoPrefix]

Edit == /\ left = MaxCalls
        /\ text \in Seeds
        /\ text' \in Edits(text)
        /\ left' = 1
        /\ UNCHANGED <<caller, cVars, last, batchVars>>

\* A call of a function, its result and the text it leaves at hand.
Called(call, rc, t) == /\ left > 0
                       /\ left' = left - 1
                       /\ last' = [call |-> call, of |-> text, rc |-> rc]
                       /\ text' = t
                       /\ UNCHANGED caller

\* cidr_addr_parse(text, &addr)
CallAddrParse ==
  LET r == AddrParse(text, addr)
  IN  /\ Called("addr_parse", r.rc, text)
      /\ addr' = r.out
      /\ said' = IF r.rc = "OK" THEN [said EXCEPT !.addr = r.out] ELSE said
      /\ UNCHANGED <<pfx, class, batchVars>>

\* cidr_prefix_parse(text, &pfx)
CallPrefixParse ==
  LET r == PrefixParse(text, pfx)
  IN  /\ Called("prefix_parse", r.rc, text)
      /\ pfx' = r.out
      /\ said' = IF r.rc = "OK" THEN [said EXCEPT !.pfx = r.out] ELSE said
      /\ UNCHANGED <<addr, class, batchVars>>

\* The caller reads its next text.
NextText == /\ last # NoCall
            /\ left > 0
            /\ text' \in Mates \ {text}
            /\ UNCHANGED <<caller, left, cVars, last, batchVars>>

\* cidr_addr_format(&addr, text, ...)
CallAddrFormat ==
  LET r == AddrFormat(addr)
  IN  /\ Called("addr_format", r.rc, IF r.rc = "OK" THEN r.text ELSE text)
      /\ UNCHANGED <<cVars, batchVars>>

\* cidr_prefix_format(&pfx, text, ...)
CallPrefixFormat ==
  LET r == PrefixFormat(pfx)
  IN  /\ Called("prefix_format", r.rc, IF r.rc = "OK" THEN r.text ELSE text)
      /\ UNCHANGED <<cVars, batchVars>>

\* cidr_addr_to_v4 into a second struct, kept if it succeeds.
CallToV4 ==
  LET r == AddrToV4(addr, addr)
  IN  /\ Called("to_v4", r.rc, text)
      /\ addr' = r.out
      /\ said' = [said EXCEPT !.addr = r.out]
      /\ UNCHANGED <<pfx, class, batchVars>>

\* cidr_addr_classify(&addr, &class)
CallClassify ==
  LET r == AddrClassify(addr, class)
  IN  /\ Called("classify", r.rc, text)
      /\ class' = r.out
      /\ UNCHANGED <<addr, pfx, said, batchVars>>

\* cidr_prefix_from_host(&addr, n, &pfx)
CallFromHost(n) ==
  LET r == FromHost(addr, n, pfx)
  IN  /\ Called("from_host", r.rc, text)
      /\ pfx' = r.out
      /\ said' = [said EXCEPT !.pfx = r.out]
      /\ UNCHANGED <<addr, class, batchVars>>

\* The caller writes an address into its struct itself.
FillAddr(a) == /\ text = <<>>
               /\ left = MaxCalls
               /\ left' = 1
               /\ addr' = a
               /\ said' = [said EXCEPT !.addr = a]
               /\ UNCHANGED <<caller, text, pfx, class, last, batchVars>>

\* cidr_bulk_parse on no texts, or on the text at hand and others around it.
CallBulkParse ==
  /\ left = MaxCalls
  /\ text \in Seeds
  /\ srcs' \in {<<>>} \cup {b[1] \o <<text>> \o b[2] : b \in Around}
  /\ LET r == BulkParse(srcs', outs, errs)
     IN  /\ Called("bulk_parse", r.rc, text)
         /\ outs' = r.out
         /\ errs' = r.err
  /\ UNCHANGED cVars

CNext ==
  \/ /\ caller = "c"
     /\ \/ Edit
        \/ CallAddrParse
        \/ CallPrefixParse
        \/ NextText
        \/ CallAddrFormat
        \/ CallPrefixFormat
        \/ CallToV4
        \/ CallClassify
        \/ \E n \in HostLengths : CallFromHost(n)
        \/ \E a \in Fills : FillAddr(a)
  \/ /\ caller = "batch"
     /\ CallBulkParse

----------------------------------------------------------------------------
\* What the address parser takes: the address texts, and those with a colon
\* too many at their end (AcceptsOnlyAddressTexts is about that colon).
Taken(t) == IsAddressText(t) \/ IsTrailingColonText(t)
Meaning(t) == Denoted(IF IsAddressText(t) THEN t ELSE Front(t))

\* cidr_addr_parse takes exactly these texts and returns the address they
\* denote; cidr_prefix_parse takes each of them before its slash, the longest
\* ones too: the buffer it copies them into has room for all.
AcceptsGrammar ==
  LET slash == LastPos(last.of, "/")
      host  == Before(last.of, slash)
  IN  /\ last.call = "addr_parse" =>
           /\ last.rc = "OK" <=> Taken(last.of)
           /\ last.rc = "OK" => addr = Meaning(last.of)
      /\ last.call = "prefix_parse" =>
           /\ last.rc # "PARSE" <=> slash > 0 /\ Taken(host)
           /\ last.rc = "OK" => pfx.addr = Meaning(host)

\* ARCHITECTURE.md 4.1.2: "Accepts any of the three text forms defined in RFC
\* 4291", of which none ends with a single colon.
AcceptsOnlyAddressTexts ==
  last.call = "addr_parse" /\ last.rc = "OK" => IsAddressText(last.of)

\* The text of an address or of a network is an address text with its value,
\* fits the buffer, and is the canonical one: no leading zeros, the leftmost
\* of the longest runs of zero groups left out, dotted decimal for mapped
\* addresses only.  Parsing it gives the same struct back.
CanonicalText ==
  /\ addr.family # "UNSPEC" =>
       LET t  == AddrFormat(addr).text
           gs == [i \in 0 .. 7 |-> Group(addr.bytes, i)]
       IN  /\ IsAddressText(t)
           /\ Denoted(t) = addr
           /\ Width(t) < CIDR_ADDR_STR_MAX
           /\ \A p \in DOMAIN t : ~LeadingZero(t[p])
           /\ addr.family = "INET6" =>
                IF MappedPrefix(addr.bytes) THEN HasQuad(t) ELSE ElidesLongestRun(t, gs)
           /\ AddrParse(t, NoAddr) = [rc |-> "OK", out |-> addr]
  /\ pfx.addr.family # "UNSPEC" =>
       LET t == PrefixFormat(pfx).text
       IN  /\ Width(t) < CIDR_PREFIX_STR_MAX
           /\ PrefixParse(t, NoPrefix) = [rc |-> "OK", out |-> pfx]

\* A struct whose family is not UNSPEC is what the last successful call wrote to
\* it, never the bytes of one text with the family or the length of another. A
\* failed cidr_addr_parse, which may have written some of its bytes, marks it so;
\* a failed cidr_prefix_parse may leave it with the value of an earlier call, but
\* not with parts of a new one (PrefixFailureMarked is about that mark).
WholeOrUnspec ==
  /\ last.call = "addr_parse" /\ last.rc # "OK" => addr.family = "UNSPEC"
  /\ addr.family # "UNSPEC" => addr = said.addr
  /\ pfx.addr.family # "UNSPEC" => pfx = said.pfx /\ IsNetwork(pfx)

\* The comment of cidr_prefix_parse: "on failure out->addr.family is written as
\* CIDR_AF_UNSPEC".
PrefixFailureMarked ==
  last.call = "prefix_parse" /\ last.rc # "OK" => pfx.addr.family = "UNSPEC"

\* Whatever its neighbours are and whatever the arrays held, each item of a
\* batch gets the verdict and the value that cidr_addr_parse alone gives it;
\* the verdict on the batch is FAMILY as soon as two items have different
\* families, PARSE only if none have.
BulkVerdict ==
  last.call = "bulk_parse" =>
    LET alone == [i \in DOMAIN srcs |-> AddrParse(srcs[i], NoAddr)]
        ok    == {i \in DOMAIN srcs : alone[i].rc = "OK"}
        mixed == \E i, j \in ok : alone[i].out.family # alone[j].out.family
    IN  /\ \A i \in DOMAIN srcs : /\ errs[i] = alone[i].rc
                                 /\ outs[i].family = alone[i].out.family
                                 /\ outs[i] = IF i \in ok THEN alone[i].out ELSE NoAddr
        /\ last.rc = "FAMILY" <=> mixed
        /\ last.rc = "PARSE" <=> ~mixed /\ ok # DOMAIN srcs

\* Between the first and the last address of a row's block.
InBlock(row, bytes) ==
  IF row.family = "INET"
    THEN /\ ~V4!AddrLess(bytes, row.prefix)
         /\ ~V4!AddrLess(V4!FillHost(row.prefix, row.pfxlen), bytes)
    ELSE /\ ~V6!AddrLess(bytes, row.prefix)
         /\ ~V6!AddrLess(V6!FillHost(row.prefix, row.pfxlen), bytes)

\* An address has the flags of exactly those blocks of the registry it lies in,
\* nested ones included, and GLOBAL exactly when it lies in none.
ClassesOfBlocks ==
  last.call = "classify" /\ last.rc = "OK" =>
    LET rows == {i \in DOMAIN classify_table :
                   /\ classify_table[i].family = addr.family
                   /\ InBlock(classify_table[i], addr.bytes)}
    IN  /\ class \ {"GLOBAL"} = UNION {classify_table[i].flags : i \in rows}
        /\ "GLOBAL" \in class <=> rows = {}
=============================================================================
