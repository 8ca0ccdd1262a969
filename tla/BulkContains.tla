---------------------------- MODULE BulkContains ----------------------------
(***************************************************************************)
(* cidr_bulk_contains of src/cidr_bulk.c: every address of a batch is      *)
(* answered with the first prefix of a table that holds it.  The table is  *)
(* the array of BulkSort, as the caller passed it or after                 *)
(* cidr_bulk_sort: the source tells callers who want the longest match to  *)
(* sort in the descending order first.  One action answers one address.    *)
(***************************************************************************)
EXTENDS BulkSort, PrefixSpans, Sequences

CONSTANT Batches        \* sequences of [addr, fam] a caller may ask about

ASSUME BatchAssumption == \A b \in Batches : b \in Seq([addr : Address, fam : Family])

VARIABLES
  batch,
  scan,       \* "idle", "scan" or "returned"
  matches,    \* matches[]: the slots written so far
  errs,       \* errs[], likewise
  scanRet

scanCallVars == <<batch, scan, matches, errs, scanRet>>
allVars == <<vars, scanCallVars>>

NoMatch == -1
Unwritten == [k \in {} |-> NoMatch]

ScanInit == /\ Init
            /\ batch = <<>>
            /\ scan = "idle"
            /\ matches = Unwritten
            /\ errs = Unwritten
            /\ scanRet = "none"

\* The table is sorted before it is scanned, or not at all.
SortTable == /\ scan = "idle"
             /\ Next
             /\ UNCHANGED scanCallVars

\* The call, on the table as it was passed or as the sort returned it.
ScanCall(b) == /\ scan = "idle"
               /\ phase \in {"call", "done"}
               /\ b \in Batches
               /\ batch' = b
               /\ UNCHANGED vars

ScanLeave(err) == /\ scan' = "returned"
                  /\ scanRet' = err

FillOut(b, match, err) == /\ matches' = [k \in DOMAIN b |-> match]
                          /\ errs' = [k \in DOMAIN b |-> err]

----------------------------------------------------------------------------
(* The returns before the scan, in the code's order.                       *)

ScanEmpty(b) == /\ ScanCall(b)
                /\ b = <<>>
                /\ ScanLeave("OK")
                /\ UNCHANGED <<matches, errs>>

\* No prefix, no match; the families of the addresses are not looked at.
ScanEmptyTable(b) == /\ ScanCall(b)
                     /\ b # <<>>
                     /\ count = 0
                     /\ FillOut(b, NoMatch, "OK")
                     /\ ScanLeave("OK")

Asked(b) == ScanCall(b) /\ b # <<>> /\ count > 0
Alien(b, k) == b[k].fam = Unspec \/ b[k].fam # b[1].fam

RejectBatch(b) == /\ Asked(b)
                  /\ \E k \in DOMAIN b :
                       /\ Alien(b, k)
                       /\ \A l \in 1 .. k - 1 : ~Alien(b, l)
                       /\ ScanLeave(IF b[k].fam = Unspec THEN "INVAL" ELSE "FAMILY")
                  /\ UNCHANGED <<matches, errs>>

ValidBatch(b) == Asked(b) /\ \A k \in DOMAIN b : ~Alien(b, k)

RejectTable(b) == /\ ValidBatch(b)
                  /\ \E err \in {"INVAL", "FAMILY"} : FamilyError(err) /\ ScanLeave(err)
                  /\ UNCHANGED <<matches, errs>>

\* Mutant: the mismatch is only reported once the first address is answered.
RejectMismatchLate(b) == /\ ValidBatch(b)
                         /\ OneFamily
                         /\ b[1].fam # arr[0].fam
                         /\ matches' = [k \in {1} |-> NoMatch]
                         /\ errs' = [k \in {1} |-> "FAMILY"]
                         /\ ScanLeave("FAMILY")

\* Addresses of one family, prefixes of the other: every slot is written.
RejectMismatch(b) == /\ ValidBatch(b)
                     /\ OneFamily
                     /\ b[1].fam # arr[0].fam
                     /\ FillOut(b, NoMatch, "FAMILY")
                     /\ ScanLeave("FAMILY")

----------------------------------------------------------------------------
(* The scan.                                                               *)

ScanBegin(b) == /\ ValidBatch(b)
                /\ OneFamily
                /\ b[1].fam = arr[0].fam
                /\ scan' = "scan"
                /\ UNCHANGED <<matches, errs, scanRet>>

Holds(a) == {k \in 0 .. count - 1 : PrefixMatches(arr[k], a)}

\* Mutant: the scan goes on after a match.
LastMatch(a) == IF Holds(a) = {} THEN NoMatch
                ELSE CHOOSE k \in Holds(a) : \A l \in Holds(a) : l <= k

FirstMatch(a) == IF Holds(a) = {} THEN NoMatch
                 ELSE CHOOSE k \in Holds(a) : \A l \in Holds(a) : k <= l

Answered == Cardinality(DOMAIN matches)

Answer == /\ scan = "scan"
          /\ Answered < Len(batch)
          /\ LET j == Answered + 1
             IN  /\ matches' = [k \in 1 .. j |->
                                  IF k = j THEN FirstMatch(batch[j].addr) ELSE matches[k]]
                 /\ errs' = [k \in 1 .. j |-> IF k = j THEN "OK" ELSE errs[k]]
          /\ UNCHANGED <<vars, batch, scan, scanRet>>

ScanReturn == /\ scan = "scan"
              /\ Answered = Len(batch)
              /\ ScanLeave("OK")
              /\ UNCHANGED <<vars, batch, matches, errs>>

ScanReturns(b) == \/ ScanEmpty(b) \/ ScanEmptyTable(b) \/ RejectBatch(b)
                  \/ RejectTable(b) \/ RejectMismatch(b)

ScanNext == \/ \E b \in Batches : ScanReturns(b) \/ ScanBegin(b)
            \/ Answer
            \/ ScanReturn

SystemNext == SortTable \/ ScanNext

\* Whoever has called the sort goes on executing it; whether to scan is the
\* caller's choice.
SystemSpec == ScanInit /\ [][SystemNext]_allVars /\ WF_allVars(SortTable)

----------------------------------------------------------------------------
\* What every step of the call preserves: the slots it has answered are a
\* first part of the batch and hold the first match in the table, which
\* nobody sorts any more.
ScanInv ==
  /\ batch \in Seq([addr : Address, fam : Family])
  /\ scan \in {"idle", "scan", "returned"}
  /\ scan = "idle" => matches = Unwritten /\ errs = Unwritten
  /\ scan # "idle" => phase \in {"call", "done"}
  /\ scan = "scan" => \E n \in 0 .. Len(batch) :
                        /\ DOMAIN matches = 1 .. n
                        /\ \A k \in 1 .. n : errs[k] = "OK"
  /\ scan = "scan" \/ (scan = "returned" /\ scanRet = "OK") =>
       \A k \in DOMAIN matches : matches[k] = FirstMatch(batch[k].addr)

\* The comment of cidr_bulk_contains: after cidr_bulk_sort in the descending
\* order the first match is the longest one.  Of equal prefixes it is the one
\* the caller listed first, which takes the repair pass of the sort.
LongestMatchWhenSorted ==
  scan = "returned" /\ scanRet = "OK" /\ ret = "OK" /\ order = "DESC" =>
    \A k \in DOMAIN matches :
      LET holding == {m \in DOMAIN input : Value(batch[k].addr) \in Span(input[m])}
          longest == {m \in holding : \A l \in holding : input[l].pfxlen <= input[m].pfxlen}
      IN  IF holding = {} THEN matches[k] = NoMatch
          ELSE /\ matches[k] # NoMatch
               /\ arr[matches[k]].src \in longest
               /\ \A m \in longest : arr[matches[k]].src <= m

\* A caller that reads matches[] after the return reads all of it or finds it
\* untouched, and no error comes with a match.
NoPartialAnswer ==
  scan = "returned" =>
    /\ DOMAIN matches \in {{}, DOMAIN batch}
    /\ scanRet = "OK" => DOMAIN matches = DOMAIN batch
    /\ \A k \in DOMAIN matches : errs[k] = scanRet /\ (scanRet # "OK" => matches[k] = NoMatch)
=============================================================================
