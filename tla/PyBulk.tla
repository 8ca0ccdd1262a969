------------------------------- MODULE PyBulk -------------------------------
(***************************************************************************)
(* The bulk functions of the Python extension around the C calls they      *)
(* make: what each of them owns on its way, what each of its failure paths *)
(* lets go of, and the exception it leaves.  Any allocation and any        *)
(* conversion may fail, and a C function that is called returns any of its *)
(* codes.  The values in the arrays are left out.  malloc(0) is not a      *)
(* failure, as with the C library of the extension's platforms.            *)
(***************************************************************************)
EXTENDS Naturals

CONSTANT MaxItems       \* bound on the length of the lists of a caller

ASSUME ItemsAssumption == MaxItems \in Nat

VARIABLES
  fn,       \* the function called
  pc,
  own,      \* references and allocations the call must let go of
  want,     \* what the list helper extracts: "addrs" or "prefixes"
  count,    \* list -> its length, 0 before it is known
  item,     \* the item a loop is at
  raised,   \* an exception is set
  ret       \* "none", "NULL" or "list"

pyBulkVars == <<fn, pc, own, want, count, item, raised, ret>>

InPlace    == {"bulk_aggregate", "bulk_sort"}
Containing == {"bulk_contains", "bulk_contains_packed"}
Functions  == {"bulk_parse"} \cup InPlace \cup Containing
Lists      == {"srcs", "addrs", "prefixes", "result"}

PyBulkInit == /\ fn \in Functions
              /\ pc = "enter"
              /\ own = {}
              /\ want = "prefixes"
              /\ count = [s \in Lists |-> 0]
              /\ item = 0
              /\ raised = FALSE
              /\ ret = "none"

\* The arrays and objects of a function that the C call works on.
Working == IF fn = "bulk_parse" THEN {"srcs", "out", "errs", "utf8_hold"}
           ELSE IF fn = "bulk_contains" THEN {"matches"}
           ELSE IF fn = "bulk_contains_packed" THEN {"addrs", "matches"}
           ELSE {"copy"}

\* What it was given or extracted before.
Arguments == IF fn = "bulk_parse" THEN {"fast"}
             ELSE IF fn = "bulk_contains" THEN {"addrs", "prefixes"}
             ELSE IF fn = "bulk_contains_packed" THEN {"view", "prefixes"}
             ELSE {"prefixes"}

\* What the `error:` label of a function releases, or the failure paths that
\* stand for one in bulk_contains_packed; what is NULL is skipped.
ErrorPath == Arguments \cup Working \cup {"result"}

\* The list that the result has one item for, an aggregation fewer.
Listed == IF fn = "bulk_parse" THEN "srcs"
          ELSE IF fn \in InPlace THEN "prefixes" ELSE "addrs"

ReturnNull(held, released) == /\ own' = held \ released
                              /\ pc' = "returned"
                              /\ ret' = "NULL"

\* An exception is set and the call leaves through its error path.
FailWith(got) == /\ raised' = TRUE
                 /\ ReturnNull(own \cup got, ErrorPath)
                 /\ UNCHANGED <<fn, want, count, item>>

----------------------------------------------------------------------------
(* The arguments; bulk_extract_prefixes and bulk_addrs_from_list.          *)

EnterParse == /\ pc = "enter"
              /\ fn = "bulk_parse"
              /\ own' = {"fast"}
              /\ \E n \in 0 .. MaxItems : count' = [count EXCEPT !.srcs = n]
              /\ pc' = "prepare"
              /\ UNCHANGED <<fn, want, item, raised, ret>>

EnterLists == /\ pc = "enter"
              /\ fn \in InPlace \cup {"bulk_contains"}
              /\ want' = IF fn = "bulk_contains" THEN "addrs" ELSE "prefixes"
              /\ pc' = "extract"
              /\ UNCHANGED <<fn, own, count, item, raised, ret>>

EnterPacked == /\ pc = "enter"
               /\ fn = "bulk_contains_packed"
               /\ own' = {"view"}
               /\ \E n \in 0 .. MaxItems : count' = [count EXCEPT !.addrs = n]
               /\ pc' = "extract"
               /\ UNCHANGED <<fn, want, item, raised, ret>>

\* Arguments that do not parse, no sequence, no buffer, no family.
BadArguments == /\ pc = "enter"
                /\ raised' = TRUE
                /\ ReturnNull({}, {})
                /\ UNCHANGED <<fn, want, count, item>>

\* A buffer that is no packed array of addresses of the family.
RefuseView == /\ pc = "extract"
              /\ fn = "bulk_contains_packed"
              /\ raised' = TRUE
              /\ ReturnNull(own, {"view"})
              /\ UNCHANGED <<fn, want, count, item>>

\* A failure of the helper: it releases what it holds and returns NULL.
HelperFails(released) == /\ own' = own \ released
                         /\ raised' = TRUE
                         /\ pc' = "null"
                         /\ UNCHANGED <<fn, want, count, item, ret>>

ExtractBegin == /\ pc = "extract"
                /\ own' = own \cup {"seq"}
                /\ \E n \in 0 .. MaxItems : count' = [count EXCEPT ![want] = n]
                /\ pc' = "probe"
                /\ UNCHANGED <<fn, want, item, raised, ret>>

NoSequence == pc = "extract" /\ HelperFails({})

\* The first item tells the family; then the array is allocated.
ExtractAllocate == /\ pc = "probe"
                   /\ own' = own \cup {"arr"}
                   /\ item' = 0
                   /\ pc' = "items"
                   /\ UNCHANGED <<fn, want, count, raised, ret>>

NoFirstOrArray == /\ pc = "probe"
                  /\ count[want] > 0
                  /\ HelperFails({"seq"})

ExtractItem == /\ pc = "items"
               /\ item < count[want]
               /\ item' = item + 1
               /\ UNCHANGED <<fn, pc, own, want, count, raised, ret>>

WrongItem == /\ pc = "items"
             /\ item < count[want]
             /\ HelperFails({"seq", "arr"})

\* The array becomes the caller's.
ExtractEnd == /\ pc = "items"
              /\ item = count[want]
              /\ own' = (own \ {"seq", "arr"}) \cup {want}
              /\ want' = "prefixes"
              /\ pc' = IF want = "addrs" THEN "extract" ELSE "prepare"
              /\ UNCHANGED <<fn, count, item, raised, ret>>

\* Mutant: bulk_contains returns at once when its prefixes are refused.
HelperNullReturned == /\ pc = "null"
                      /\ ReturnNull(own, {"view"})
                      /\ UNCHANGED <<fn, want, count, item, raised>>

\* NULL from a helper: bulk_contains owns the addresses when the prefixes are
\* refused, bulk_contains_packed its view, the others nothing.
HelperNull == /\ pc = "null"
              /\ ReturnNull(own, IF fn = "bulk_contains" /\ want = "prefixes" THEN ErrorPath
                                 ELSE IF fn = "bulk_contains_packed" THEN {"view"}
                                 ELSE {})
              /\ UNCHANGED <<fn, want, count, item, raised>>

----------------------------------------------------------------------------
(* The working arrays, the C call, and the result.                         *)

\* Nothing to parse, aggregate or sort: an empty list, if there is memory.
EmptyResult == /\ pc = "prepare"
               /\ fn \notin Containing
               /\ count[Listed] = 0
               /\ \/ own' = (own \ Arguments) \cup {"result"} /\ ret' = "list" /\ UNCHANGED raised
                  \/ own' = own \ Arguments /\ ret' = "NULL" /\ raised' = TRUE
               /\ pc' = "returned"
               /\ UNCHANGED <<fn, want, count, item>>

Preparing == pc = "prepare" /\ (fn \in Containing \/ count[Listed] > 0)

\* bulk_parse goes on to convert its strings.
Allocate == /\ Preparing
            /\ own' = own \cup (IF count[Listed] = 0 THEN {"matches"} ELSE Working)
            /\ pc' = IF fn = "bulk_parse" THEN "convert" ELSE "call"
            /\ item' = 0
            /\ UNCHANGED <<fn, want, count, raised, ret>>

\* Mutant: the exception is forgotten.
NoMemorySilent == /\ Preparing
                  /\ count[Listed] > 0
                  /\ ReturnNull(own, ErrorPath)
                  /\ UNCHANGED <<fn, want, count, item, raised>>

\* An allocation fails.  bulk_parse tries all four before it tests them;
\* bulk_contains_packed stops at the first.
NoMemory == /\ Preparing
            /\ count[Listed] > 0
            /\ \E got \in SUBSET Working \ {Working} :
                 /\ fn = "bulk_contains_packed" => "matches" \notin got
                 /\ FailWith(got)

\* Addresses and prefixes of two families.  bulk_contains tests it with its
\* matches allocated, bulk_contains_packed before it allocates, and also when
\* there are no addresses.
FamilyMismatch == /\ pc = "prepare"
                  /\ fn \in Containing
                  /\ count.prefixes > 0
                  /\ fn = "bulk_contains" => count.addrs > 0
                  /\ FailWith(IF fn = "bulk_contains" THEN {"matches"} ELSE {})

\* Mutant: the encoded string is let go once its characters are in srcs[].
ConvertAndDrop == /\ pc = "convert"
                  /\ item < count.srcs
                  /\ item' = item + 1
                  /\ own' = own \ {"utf8_hold"}
                  /\ UNCHANGED <<fn, pc, want, count, raised, ret>>

\* An item is a string, and is encoded; srcs[] points into the encoding, which
\* utf8_hold keeps.
Convert == /\ pc = "convert"
           /\ item < count.srcs
           /\ item' = item + 1
           /\ UNCHANGED <<fn, pc, own, want, count, raised, ret>>

NotEncodable == /\ pc = "convert"
                /\ item < count.srcs
                /\ FailWith({})

\* cidr_bulk_parse: its code is kept until the result is built.
CallParse == /\ pc = "convert"
             /\ item = count.srcs
             /\ pc' = "build"
             /\ UNCHANGED <<fn, own, want, count, item, raised, ret>>

\* cidr_bulk_contains, _aggregate, _sort.
Call == /\ pc = "call"
        /\ pc' = "build"
        /\ UNCHANGED <<fn, own, want, count, item, raised, ret>>

CallFails == pc = "call" /\ FailWith({})

\* The list of the result, then its items.
Build == /\ pc = "build"
         /\ own' = own \cup {"result"}
         /\ \E n \in 0 .. count[Listed] :
              /\ fn # "bulk_aggregate" => n = count[Listed]
              /\ count[Listed] > 0 => n > 0
              /\ count' = [count EXCEPT !.result = n]
         /\ item' = 0
         /\ pc' = "fill"
         /\ UNCHANGED <<fn, want, raised, ret>>

NoList == pc = "build" /\ FailWith({})

Fill == /\ pc = "fill"
        /\ item < count.result
        /\ item' = item + 1
        /\ UNCHANGED <<fn, pc, own, want, count, raised, ret>>

NoItem == /\ pc = "fill"
          /\ item < count.result
          /\ FailWith({})

\* A string did not parse, or two families met: the list is thrown away.
BatchError == /\ pc = "fill"
              /\ fn = "bulk_parse"
              /\ item = count.result
              /\ FailWith({})

ReturnList == /\ pc = "fill"
              /\ item = count.result
              /\ own' = own \ (Arguments \cup Working)
              /\ pc' = "returned"
              /\ ret' = "list"
              /\ UNCHANGED <<fn, want, count, item, raised>>

Extraction == \/ ExtractBegin \/ NoSequence \/ ExtractAllocate \/ NoFirstOrArray
              \/ ExtractItem \/ WrongItem \/ ExtractEnd \/ HelperNull

PyBulkNext == \/ EnterParse \/ EnterLists \/ EnterPacked \/ BadArguments \/ RefuseView
              \/ Extraction
              \/ EmptyResult \/ Allocate \/ NoMemory \/ FamilyMismatch
              \/ Convert \/ NotEncodable \/ CallParse \/ Call \/ CallFails
              \/ Build \/ NoList \/ Fill \/ NoItem \/ BatchError \/ ReturnList

PyBulkSpec == PyBulkInit /\ [][PyBulkNext]_pyBulkVars

----------------------------------------------------------------------------
(* Properties.                                                             *)

\* A loop stays within the list it walks, and a call owns only what its
\* function allocates.
TypeOK ==
  /\ fn \in Functions
  /\ pc \in {"enter", "extract", "probe", "items", "null", "prepare", "convert",
             "call", "build", "fill", "returned"}
  /\ own \subseteq Arguments \cup Working \cup {"seq", "arr", "result"}
  /\ want \in {"addrs", "prefixes"}
  /\ count \in [Lists -> 0 .. MaxItems]
  /\ item \in 0 .. MaxItems
  /\ pc = "items" => item <= count[want]
  /\ pc = "convert" => item <= count.srcs
  /\ pc = "fill" => item <= count.result
  /\ raised \in BOOLEAN
  /\ ret \in {"none", "NULL", "list"}

\* What the code at a point reads or writes: its lists, the arrays that the C
\* function works on, and behind srcs[] the encoded strings of utf8_hold.
Needed == IF pc = "probe" THEN {"seq"}
          ELSE IF pc = "items" THEN {"seq", "arr"}
          ELSE IF pc = "prepare" THEN Arguments
          ELSE IF pc \in {"convert", "call", "build", "fill"}
            THEN Arguments \cup (IF count[Listed] = 0 THEN {} ELSE Working)
                   \cup (IF pc = "fill" THEN {"result"} ELSE {})
          ELSE {}

\* Nothing a call still works with has been released: no pointer into an array
\* or a string of another object is used after its owner is gone.
UsesLive == Needed \subseteq own

\* Whatever fails at whichever point, a call that has returned holds nothing
\* but the list it returns: no array, no reference to an item or to a list of
\* encoded strings, and no lock on the caller's buffer.
NoLeak == pc = "returned" => own = IF ret = "list" THEN {"result"} ELSE {}

\* The contract of a C function with the interpreter: NULL with an exception
\* set, or a list and no exception.
RaisedIffNull == pc = "returned" => (ret = "NULL" <=> raised)
=============================================================================
