---------------------------- MODULE IndexLookup ----------------------------
(***************************************************************************)
(* cidr_index_lookup of src/cidr_index.c on an index that                  *)
(* cidr_index_create has just built: one batch of addresses, validated as  *)
(* a whole, then looked up one after the other.  Each action visits one    *)
(* packed node.                                                            *)
(***************************************************************************)
EXTENDS IndexCreate, PrefixSpans

CONSTANT Batches        \* sequences of [addr, fam] a caller may look up

ASSUME BatchAssumption ==
  Batches \subseteq Seq([addr : Address, fam : Family])

VARIABLES
  batch,
  lookup,     \* "idle", "search" or "returned"
  j,          \* the address being looked up
  at,         \* the packed node visited next
  bitPos,
  best,
  matches,    \* matches[]: the slots written so far
  lookupRet

lookupVars == <<batch, lookup, j, at, bitPos, best, matches, lookupRet>>
allVars == <<vars, lookupVars>>

\* The position of an address in matches[] is its position in the batch.
LookupInit == /\ Init
              /\ batch = <<>>
              /\ lookup = "idle"
              /\ j = 1
              /\ at = 0
              /\ bitPos = 0
              /\ best = None
              /\ matches = Empty
              /\ lookupRet = "none"

CreateStep == CreateNext /\ UNCHANGED lookupVars

\* The caller may not destroy an index that is being read.
DestroyStep == /\ lookup # "search"
               /\ Destroy
               /\ UNCHANGED lookupVars

\* The call: before it the caller's batch is of no interest.
Call(b) == /\ published
           /\ lookup = "idle"
           /\ b \in Batches
           /\ batch' = b
           /\ UNCHANGED <<vars, j, at, bitPos, best, matches>>

LookupEmpty(b) == /\ Call(b)
                  /\ b = <<>>
                  /\ lookup' = "returned"
                  /\ lookupRet' = "OK"

\* Mutant: the batch is taken to be of the family of its first address.
MisfitOfFirst(b, k) == b[1].fam # family

Misfit(b, k) == b[k].fam # family
FirstMisfit(b, k) == Misfit(b, k) /\ \A l \in 1 .. k - 1 : ~Misfit(b, l)

\* The whole batch is validated before anything is written.
LookupRefused(b) == /\ Call(b)
                    /\ \E k \in DOMAIN b :
                         /\ FirstMisfit(b, k)
                         /\ lookupRet' = IF b[k].fam = Unspec THEN "INVAL" ELSE "FAMILY"
                    /\ lookup' = "returned"

LookupBegin(b) == /\ Call(b)
                  /\ b # <<>>
                  /\ \A k \in DOMAIN b : ~Misfit(b, k)
                  /\ lookup' = "search"
                  /\ UNCHANGED lookupRet

Searching == lookup = "search" /\ j <= Len(batch)
Addr == batch[j].addr

\* Mutant: the stored prefix is not compared with the address.
NotedUnchecked(node) == IF node.prefix # None THEN orig[node.prefix] ELSE best

\* Mutant: the first match is kept.
NotedFirst(node) ==
  IF best = None /\ node.prefix # None /\ PrefixMatches(arr[node.prefix], Addr)
  THEN orig[node.prefix] ELSE best

\* The stored prefix, when it holds the address, replaces the best so far.
Noted(node) ==
  IF node.prefix # None /\ PrefixMatches(arr[node.prefix], Addr)
  THEN orig[node.prefix] ELSE best

GoesDown(node) == node.branch > 0 /\ bitPos + node.skip + node.branch <= KeyBits

\* Mutant: takes one bit too many.
ExtractWide(addr, p, branch) ==
  LET v[n \in 0 .. branch + 1] == IF n = 0 THEN 0 ELSE 2 * v[n - 1] + AddrBit(addr, p + n - 1)
  IN  v[branch + 1]

\* `branch` bits of the address from bit p on, most significant first.
Extract(addr, p, branch) ==
  LET v[n \in 0 .. branch] == IF n = 0 THEN 0 ELSE 2 * v[n - 1] + AddrBit(addr, p + n - 1)
  IN  v[branch]

Descend == /\ Searching
           /\ LET node == packed[at]
                  from == bitPos + node.skip
              IN  /\ GoesDown(node)
                  /\ best' = Noted(node)
                  /\ at' = node.base + Extract(Addr, from, node.branch)
                  /\ bitPos' = from + node.branch
           /\ UNCHANGED <<vars, batch, lookup, j, matches, lookupRet>>

\* A leaf, or a node whose bits lie beyond the address: the match is final.
Stop == /\ Searching
        /\ LET node == packed[at]
           IN  /\ ~GoesDown(node)
               /\ matches' = [k \in DOMAIN matches \cup {j} |->
                                IF k = j THEN Noted(node) ELSE matches[k]]
        /\ j' = j + 1
        /\ at' = 0
        /\ bitPos' = 0
        /\ best' = None
        /\ UNCHANGED <<vars, batch, lookup, lookupRet>>

LookupReturn == /\ lookup = "search"
                /\ j > Len(batch)
                /\ lookup' = "returned"
                /\ lookupRet' = "OK"
                /\ UNCHANGED <<vars, batch, j, at, bitPos, best, matches>>

LookupNext == \/ \E b \in Batches : LookupEmpty(b) \/ LookupRefused(b) \/ LookupBegin(b)
              \/ Descend \/ Stop \/ LookupReturn

SystemNext == CreateStep \/ DestroyStep \/ LookupNext

SystemSpec == LookupInit /\ [][SystemNext]_allVars

----------------------------------------------------------------------------
\* A caller that gets an error finds no slot of matches[] written; one that
\* gets CIDR_OK finds an answer to every address, and asked about addresses of
\* the index's family only, wherever in the batch the wrong one stands.
AllOrNothing ==
  lookup = "returned" =>
    IF lookupRet = "OK"
    THEN DOMAIN matches = DOMAIN batch /\ \A k \in DOMAIN batch : batch[k].fam = family
    ELSE DOMAIN matches = {}

\* The traversal never leaves the packed array and never reads a slot that the
\* packing left unwritten, whatever bits the address has.
VisitsWrittenNodes == lookup = "search" => at \in DOMAIN packed

Covering(addr) == {k \in DOMAIN input : Value(addr) \in Span(input[k])}
Longest(addr) == {k \in Covering(addr) :
                    \A l \in Covering(addr) : input[l].pfxlen <= input[k].pfxlen}

\* A lookup never reports a prefix that does not contain the address, however
\* path and level compression skipped bits on the way to it.
NeverWrongMatch ==
  \A k \in DOMAIN matches : matches[k] # None => matches[k] \in Covering(batch[k].addr)

\* When the most specific prefix of an address has no longer prefix inside it,
\* that prefix is found: compression and the packed duplicates lose no leaf of
\* the trie.
InnermostFound ==
  \A k \in DOMAIN matches :
    LET longest == Longest(batch[k].addr)
        innermost == \A l \in longest, m \in DOMAIN input :
                       input[m].pfxlen > input[l].pfxlen =>
                         ~(Value(input[m].addr) \in Span(input[l]))
    IN  longest # {} /\ innermost => matches[k] \in longest

\* libcidr.h and ARCHITECTURE.md section 6.2: the longest-prefix match, always.
LongestPrefixMatch ==
  \A k \in DOMAIN matches :
    LET longest == Longest(batch[k].addr)
    IN  matches[k] \in (IF longest = {} THEN {None} ELSE longest)
=============================================================================
