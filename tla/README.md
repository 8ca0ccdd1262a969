# libcidr in TLA+

A verification development for libcidr, a C11 library for IPv4/IPv6 prefixes
with a CPython extension. It models the library's algorithms step by step where
the steps are what can go wrong, its parsers and formatters as functions on
texts, and the extension's objects and calls; checks them with TLC on small
address spaces and small sets of texts; and proves with TLAPS, for every size, the
every safety property it checks: those of the prefix functions, the sort,
containment, aggregation and the index, of the parsers, formatters and the
classification, that the in-place aggregation implements an abstract one, and the
ownership rules and the value types of the extension.

Paths below are relative to the repository: `src/cidr_bulk.c` is the C file of
that name, `python/_libcidr_ext.c` the extension. (PROJECT.json prefixes them
with `src/`.)

## 1. The system

The library keeps no global state. Every C function works on memory the caller
passes; only `cidr_index_create` allocates. There are no threads inside, no
I/O, no timers, nothing persisted. What is hard is therefore not message
passing but: in-place algorithms with moving read and write positions, the
family field of each prefix being borrowed for order tags, wrap-around at the
end of the address space, a trie built by two recursions that have to agree on
sizes, ownership on failure paths, and Python code that can run in the middle of
an extension function.

| Component | State | Operations | What makes it correct | Where |
|---|---|---|---|---|
| Addresses and prefixes | values; host bits zero | `cidr_prefix_from_host`, masking | a prefix is an aligned block | `CidrPrefix`, `PrefixOps` |
| Prefix arithmetic | none | contains, overlaps, supernet, first, last, network, broadcast, comparisons, carry addition | agrees with intervals of numbers | `CidrPrefix`, `PrefixSpans`, `PrefixOps` |
| Subnet iterator | in the caller's frame: current, limit, target, done | init, next | ascending, no gaps, complete, ends | `SubnetIter` |
| Radix sort | the caller's array, `start_pos`, `next`, the scan position, the recursion | `radix_sort_prefixes`, `radix_sort_order_tags` | permutes, stays in bounds, orders, ends | `RadixEngine`, `PrefixArray` |
| Bulk sort | the array; tags in its family fields | `cidr_bulk_sort` | ordered; stable in the descending order; families restored | `BulkSort` |
| Bulk containment | output arrays | `cidr_bulk_contains` | first match, which is the longest after a descending sort; no partial answer | `BulkContains` |
| Bulk aggregation | the array and two positions in it | `cidr_bulk_aggregate` | covers the input at every step, ends in the canonical list | `AggregateSpec`, `BulkAggregate` |
| Index | five allocations, a Patricia arena, the packed trie | `cidr_index_create`, `cidr_index_destroy` | in bounds, nothing leaked, all prefixes stored | `PatriciaTrie`, `IndexCreate` |
| Lookup | none of its own | `cidr_index_lookup` | written nodes only, the longest match | `IndexLookup` |
| Address parser | the caller's struct | `cidr_addr_parse` | takes the text forms of RFC 4291 and no others; a failure shows in the family | `Text`, `AddrText` |
| Prefix parser | the caller's struct | `cidr_prefix_parse`, `cidr_prefix_from_host` | no host bits; nothing written on failure | `PrefixText` |
| Formatting | none | `cidr_addr_format`, `cidr_prefix_format` | canonical, fits the buffer, is read back as the same value | `AddrText`, `PrefixText` |
| IPv4-mapped conversion | none | `cidr_addr_to_v4` | only ::ffff:0:0/96 | `AddrText` |
| Classification | a constant table | `cidr_addr_classify` | the flags of exactly the blocks around an address | `Classify` |
| Bulk parse | output arrays | `cidr_bulk_parse` | each item as if alone; which error wins | `TextCalls` |
| Python `PrefixIndex` | the object, its index pointer, references | new, lookup, `__enter__`, `__exit__`, dealloc | freed once, never used after | `PyPrefixIndex` |
| Python bulk functions | references, arrays, a locked buffer, the exception | `bulk_parse`, `bulk_contains`, `bulk_aggregate`, `bulk_sort`, `bulk_contains_packed` | nothing kept on any way out; NULL with an exception | `PyBulk` |
| Python subnet iterator | a C iterator | `subnets`, `__next__` | the length asked for | the cast and the end of iteration, in `SubnetIter` |
| Python address and network types | a C value each | constructors, conversions, methods, comparison | the value its text says; consistent answers | `PyValues` |
| Python module | exceptions, type objects | initialisation at import | | not modelled |

How they interact: bulk sort, aggregation and index build all call the one radix
sort; the index build and the descending bulk sort also write an order tag over
every `family` field and restore it later; a caller of bulk containment who
wants longest matches must sort first; lookup reads what create packed; the
extension copies Python lists into C arrays, calls one C function, and builds a
list of its results. The prefix parser copies the text before the last slash and
calls the address parser; bulk parse calls it for each text; the constructors of
the extension call both, and a parser of their own for `strict=False`.

### What is hard to test here

PROJECT.json lists each hazard at its line with the properties that cover it. In
short: a bucket's next slot running past its end; the partition loop, a `for`
without an increment; entries lost or doubled by in-place passes; tags escaping
to the caller; duplicates left in the wrong order by an unstable sort; equal
prefixes taken for siblings; the limit of the last subnet wrapping to zero; the
cost programme and the packing disagreeing on one slot; level compression
jumping over a stored prefix; five allocations failing in turn; an index
destroyed while a lookup is still collecting its arguments; borrowed pointers
into strings that have to outlive a C call; two scanning loops with a test for
each position of a `::`; structs and arrays that are used again after a failure;
blocks that end inside a byte; two parsers of one length field; comparisons,
containment and overlap that have to agree over two types and two families.

## 2. The modules

`A -> B` reads "A extends B".

    PrefixOps, SubnetIter, AggregateSpec -> PrefixSpans -> CidrPrefix
    BulkSort, BulkAggregate -> PrefixArray -> RadixEngine -> CidrPrefix
    BulkContains -> BulkSort
    IndexLookup -> IndexCreate -> PatriciaTrie, PrefixArray
    BulkAggregate implements AggregateSpec
    SpanProofs -> PrefixSpans
    PrefixProofs -> PrefixOps, SubnetIter, SpanProofs
    RadixProofs -> PrefixArray, SpanProofs
    BulkSortProofs -> BulkContains, RadixProofs
    BulkAggregateProofs -> BulkAggregate, RadixProofs
    IndexProofs -> IndexLookup, RadixProofs
    PyValues -> TextCalls -> TextGrammar, Classify -> PrefixText -> AddrText -> Text
    PrefixText uses CidrPrefix twice, as V4 and as V6
    ParserProofs -> TextCalls, and uses SpanProofs twice, as S4 and as S6
    PyExtension -> PyBulk, PyPrefixIndex
    ProgramProofs -> ParserProofs, PyValues, PyExtension

**CidrPrefix** has the values and the byte-wise functions of
`src/cidr_prefix.c`, `cidr_addr_cmp`, and the two mask-free comparisons of
`src/cidr_bulk.c` and `src/cidr_index.c`. An address is a function from byte
positions to bytes; `ByteBits` and `AddrLen` give the width of a byte and the
number of bytes (8 and 4 or 16 in the code). One width stands for one family.
**PrefixSpans** is the reference: prefixes as intervals of numbers, and the
canonical set of blocks of a set of addresses. **PrefixOps** is a caller that
applies one function after another to two prefixes and an address, so that the
arguments are values the library itself produced.

**RadixEngine** is the loop of `radix_sort_segment` and `radix_sort_order_tags`:
`Enter` counts and places the buckets, `Advance` and `SwapOut` are one round of
the partition loop each, `Recurse` makes the calls for the buckets, `Return` is
the early return. `pending` is the set of calls still to be made; the leftmost
runs next, which is the order of the recursion. The ghost field `src` of a cell
is its position in the caller's array. **PrefixArray** adds what the users of
the sort share: validation of the families, tags, restoring of the family, and
the invariants of the sort. **BulkSort** is `cidr_bulk_sort` with one action per
return and per phase; `RepairRun` is one round of
`prefixes_restore_desc_duplicate_order`.

**BulkContains** puts `cidr_bulk_contains` behind an optional `cidr_bulk_sort`
of the same table, as its source comment tells callers to do. One action answers
one address. It is checked in the same run as the sort.

**AggregateSpec** states what aggregation may do to a set of prefixes: drop a
covered one, merge two halves, and finish when the set is canonical.
**BulkAggregate** is `cidr_bulk_aggregate`, one action per loop iteration of its
duplicate, cover and merge passes. `live` is refined by the cells that have been
kept or not been read yet; the slots between the two positions hold leftovers.

**PatriciaTrie** has the pure parts of the index build: where a range splits,
what a slot of a compressed node resolves to (`patricia_slot_target`), the cost
programme (`patricia_dp_compute`); `MatchRound` is one round of its walk along the
pattern of a slot. **IndexCreate** runs `cidr_index_create`:
allocations, tagging, sort, duplicates, then both recursions one call per action
from an explicit stack, then publication, and `cidr_index_destroy`. `PackNode`
writes a node and puts all its slots on the stack; `PackDead` writes the slots
that resolve to no node. Each allocation may fail. **IndexLookup** looks a batch up in what was built: the
validation of the whole batch, then one action per visited node.

**SubnetIter** is the iterator with its caller's loop. A caller may leave the
loop and initialise the same iterator again.

**PyPrefixIndex** is a `PrefixIndex` object shared by several callers. `lookup`
reads the index pointer, then collects its argument by running the caller's
iterator; this is the one point where other Python code can run, and where it
may close the index or drop references. **PyBulk** follows the five bulk
functions and their two list helpers through everything that can fail: the
state is the set of things the call owns, whether an exception is set, and what
it returned. `Needed` says what the next step reads or writes. **PyExtension** puts
both into one interpreter: a bulk call runs code of its caller too, which may use
the index. Its steps interleave more finely than the interpreter lock allows.

**Text** is what the scanners see: a text is a sequence of tokens, a token being a
maximal run of hexadecimal digits (its value and its width) or one other
character. The inner loops of the scanners consume such a run as a whole, so
nothing of their control is lost. **AddrText** has the address parser and
formatter in their true sizes; `PureIteration` and `MixedIteration` are one pass
through the two loops of `addr_parse_ipv6`. A parser is a function of the text
and of what the caller's struct held, because it may write to it before it
fails. **PrefixText** has the prefix parser and formatter, and the functions of
`CidrPrefix` for both families; **Classify** the table of
`src/cidr_classify.c`, row by row, and its scan. **TextGrammar** is the reference:
the text forms and the canonical form without a scanner. **TextCalls** is a
caller in C that keeps one text, one address and one prefix and passes them from
call to call, and a batch caller of `cidr_bulk_parse`. **PyValues** adds a
Python program that makes address and network objects from texts, bytes,
numbers, tuples and other objects, derives new ones, and asks questions about
them.

Names are the source's where TLA+ allows; the "map" of PROJECT.json gives the
lines of each definition. Definitions marked "Mutant" are plausible bugs of the
definition after them; the specifications do not use them.

## 3. What is checked

| Run | Properties | What it shows |
|---|---|---|
| `prefixes` | `ContainmentIsInterval`, `OverlapIsNesting`, `SiblingsFillParent`, `IncIsAddition`, `InOrder`, `Complete`, `LoopEnds` | The byte-wise functions agree with interval arithmetic on all pairs of prefixes; the subnet iterator goes in order, without gaps, is complete when the end is representable, and always ends. |
| `bulk_sort` | `SwapInsideBucket`, `StaysInSegment`, `Sorted`, `Returns`, `FamilyRestored`, `IInv`, `LongestMatchWhenSorted`, `NoPartialAnswer` | Every step in bounds, nothing lost, the result ordered (and stable in the descending order), the loop ends, no return leaves a tag in a family. `IInv` is the invariant of the proofs and contains the type invariant and that the array is a permutation of the input. After a descending sort the first match of a scan is the longest and the earliest of its duplicates; no partial output on errors. |
| `aggregate` | `CoverPreserved`, `MergeInputDisjoint`, `ResultIsCanonical`, `ImplementsAggregateSpec`, `Returns` | The in-place passes cover the input at every step, never feed equal prefixes to the sibling test, and implement the abstract aggregation. |
| `index` | `NoLeak`, `BuffersFit`, `PrefixesStored`, `SkipLeadsToBit`, `VisitsWrittenNodes`, `NeverWrongMatch`, `InnermostFound`, `AllOrNothing` | The arena and the packed array are large enough, the prediction equals the packing, every failure of create frees everything, at the node limits too; lookups read written nodes only, answer a batch as a whole or refuse it without a trace, report only prefixes that match, and find every innermost prefix. |
| `extension` | `NoLeak`, `RaisedIffNull`, `UsesLive`, `OwnedOnce`, `MatchesAreLive` | Whatever fails, a bulk call keeps nothing and reports it, and it uses nothing it has released. Beside it an index is freed exactly once and never used after, in every order of three callers. |
| `text` | `AcceptsGrammar`, `CanonicalText`, `WholeOrUnspec`, `BulkVerdict`, `ClassesOfBlocks`, `NetworkConstructors`, `AnswersAgree` | The parsers take the grammar (and the texts of `trailing_colon`), formatting is canonical and is read back, no struct that names a family holds parts of two texts, each item of a batch is treated as if it were alone, an address has the classes of the blocks around it. The Python types hold what their texts say, of a text with a number for its length `strict=False` takes what `strict=True` takes or rejects for host bits, and comparison, containment and overlap agree with one another. |
| `index_duplicates` | `LowestIndexWins` violated | see below |
| `index_longest_match` | `LongestPrefixMatch` violated | see below |
| `subnet_count` | `SubnetCount` violated | see below |
| `trailing_colon` | `AcceptsOnlyAddressTexts` violated | see below |
| `prefix_failure` | `PrefixFailureMarked` violated | see below |
| `loose_length` | `LooseOnlyClearsHostBits` violated | see below |

### Disagreements between code and documentation

* **Lookup is not always a longest-prefix match** (`index_longest_match`). When a
  slot of a level-compressed node passes a Patricia node that stores a prefix and
  has a child in the slot's direction, `patricia_slot_target` (`src/cidr_index.c`,
  439) goes on to the child. The stored prefix is then on no path through this
  slot, and an address under it but not under the child gets a shorter match or
  none. `InnermostFound` and `NeverWrongMatch` say what does hold: what is
  reported always matches, and a prefix without longer ones inside is found.
* **Duplicates do not resolve to the lowest index** (`index_duplicates`). The
  function takes the first entry of each run of equals in sorted order. The
  ascending sort is not stable: `SwapOut` exchanges items of one bucket out of
  their order, although the comment at `src/cidr_bulk.c:219` calls this stable.
  The descending bulk sort has a repair pass for this reason; the index build
  has none.
* **The last block enumerates one subnet** (`subnet_count`). For a parent other
  than /0 that ends at the last address (255.0.0.0/8), the limit wraps to zero
  and the test at `src/cidr_prefix.c:848` stops after the first subnet.
  `Complete` covers all other parents.
* **A colon too many** (`trailing_colon`). After a group the pure IPv6 path skips
  a colon that does not begin a `::` and leaves its loop if the text ends there
  (`src/cidr_addr.c`, 453-458), so `::1:` and `1:2:3:4:5:6:7:8:` are accepted.
  `AcceptsGrammar` says that these are the only texts taken beyond the grammar.
* **A failed prefix parse leaves no mark** (`prefix_failure`). The comment of
  `cidr_prefix_parse` (`src/cidr_prefix.c`, 130-131) promises `CIDR_AF_UNSPEC` in
  the family on failure; the function writes nothing then, and a struct used
  before still holds the network of an earlier text. `WholeOrUnspec` says what
  holds, and would hold with the mark too: a prefix that names a family is a
  whole network of one successful call.
* **`strict=False` takes more lengths** (`loose_length`). It reads the length with
  `strtol`, which takes nothing at all as zero, spaces and a sign: `10.0.0.1/` is
  the network 0.0.0.0/0, `10.0.0.0/+24` is 10.0.0.0/24. By the comment of
  `network_construct_impl` strict decides about host bits, and by ARCHITECTURE
  8.7.1 the loose form behaves as `ipaddress`, which refuses these texts.
  `NetworkConstructors` says what holds of all other texts, and what of these:
  they too give a network around the address in front of the slash.

Smaller ones without a run:

* `subnets(prefixlen=280)` casts the request to `uint8_t` before the range check
  and enumerates /24; `Cast` models this. `prefix_extract_ipaddress` casts the
  `prefixlen` of whatever object it is given in the same way and tests nothing.
* For an empty list the helpers of the extension return `malloc(0)`; where that is
  NULL the caller returns NULL without an exception. `PyBulk` takes `malloc(0)`
  as a success, as in the C library of the platforms ARCHITECTURE names.
* A str with a nul in it is read up to the nul.
* `binding_string_to_addr` hands the text to the error message after it has
  released the object the text is in.
* The docstring of `bulk_parse` says that failed items appear as None; the list
  that would hold them is discarded when the exception is raised.
* ARCHITECTURE 4.1.2 calls IPv4-compatible addresses rejected. Their dotted form
  is; in groups (`::1:1`) such an address is taken. `TextGrammar` reads the
  sentence as one about the dotted form.
* `==` between objects of two families raises `FamilyError`, so a dictionary with
  both may raise on a collision of hashes.

### Bounds

Address spaces are small; the structure is what matters, since the code has no
constant that depends on the width except the ones that are CONSTANTS here.

* Two bytes of two bits (`prefixes`, `subnet_count`): 31 prefixes, lengths that end
  inside a byte and on its boundary, carries from one byte to the next and off
  the front.
* Two bytes of three bits for `bulk_sort`, so that a length fits a byte: keys of
  three bytes, arrays of up to four of six prefixes that share a first byte, a
  second byte or all but the length. Four entries suffice for a bucket to fill
  from both sides and for a swap to bring back an item of a third bucket.
  One tag byte numbers seven entries, and an array of eight is refused.
  The scans that follow use the same arrays, unsorted and sorted both ways; their
  batches are none, six addresses at once (ends of the sample's prefixes and
  addresses outside all but the widest), and pairs with every two families.
* One byte of three bits for aggregation and index: fifteen prefixes, all
  ascending arrays of up to four (`MaxAscending`) and for the aggregation all
  arrays of up to two (`MaxCount`) in any order; the order of the input matters
  to the sort only. Four prefixes allow two merge passes, a branching factor up
  to three (`MaxBranch`), stored prefixes inside compressed levels, and
  duplicates. Three-bit prefixes need a branch of three bits at most, so the
  limit of the code on branching is reached by the address width first.
* Node limits (`NodeLimits`): 40 is never reached, 3 is at every place it is
  tested.
* Lookup batches (`Batches`): all eight addresses at once, none, and pairs whose
  second address has another family, so that the batch is refused after its
  first address has been accepted.
* `SkipSize` 16 and `CastSize` 8 stand for 256, larger than any length.
* Three callers of a `PrefixIndex`: two lookups in flight and one more to close.
  They are interchangeable (symmetry); no liveness is checked there.
* Lists of up to three items in `extension` (`MaxItems`).
* Texts: twenty `Seeds`, among them the longest address text and network text,
  and every text one insertion, replacement or deletion of one of eleven `Tokens`
  away from them; all 1929 `ShortTexts` of up to seven of the tokens 1, colon and
  dot, which contain every way to place `::`, colons and dots around up to four
  groups. Eight and nine groups come with the seeds and their edits.
* A caller makes `MaxCalls` = 3 calls on a seed, with other texts (`Mates`) after
  the first, so that a failed call meets a struct two calls have written; edited
  and short texts are used for one call.
* A batch is empty, is the seed alone, or is the seed between any two `Mates`
  (`Around`), which has both orders of a failure and a second family; the
  caller's arrays have `BatchSize` = 3 places, so that a batch may leave places
  behind it unwritten.
* `Fills`: the first and last address of each of the 53 blocks of the
  classification table, and the one after it. An error in a mask shows there.
* `Lengths` of tuples: negative, inside and outside the width of IPv4, and one
  past `LONG_MAX`, whose value 1000 stands for the largest C long.

Deadlock checking is off where a call ends and nothing is left to do.

### Fairness

`Returns` assumes `WF_vars(Next)`: the model of a C call is one thread that is
somewhere inside the function, and a thread that has started a call goes on
executing it. `LoopEnds` assumes weak fairness of the caller's loop
(`Yield \/ Stop`) and not of `Abandon`: a caller that stays in its loop calls
`next` again (in `prefixes` a caller uses the pure functions or the iterator, and
only the latter has a loop). `bulk_sort` assumes `WF(SortTable)` only: the sort that has been
called goes on, whether its caller scans the table afterwards is its own
business. No other fairness is assumed, and none between threads.

## 4. What is proved

The proof modules, checked by tlapm, hold for arrays, batches, lists and texts of
every length, bytes and addresses of every width (of the two real ones in the
functions on texts), tags of every length, every limit on nodes and on
branching, and any set of callers. Every safety property that a passing run
checks is a theorem here, action properties and the refinement included.

| Module | Theorem | Statement |
|---|---|---|
| `PrefixProofs` | `HeldAlways` | `[]HeldInv` of `PrefixOps`: host bits are clear in every prefix a caller holds |
| | `ContainmentIsExact`, `OverlapsAreNested`, `SiblingsAreExact`, `IncIsExact` | the four properties of the pure functions in `prefixes`: the byte loops compute on intervals of numbers |
| | `IterInvariance` | `[]IterInv` of `SubnetIter` |
| | `SubnetsAscend`, `SubnetsComplete` | `[]InOrder`, `[]Complete` |
| `BulkSortProofs` | `Invariance`, `TypeCorrect` | `[]IInv`, `[]TypeOK` of `BulkSort` |
| | `PartitionSafe` | `[]SwapInsideBucket`: the partition never leaves a bucket |
| | `NothingLost` | `[]Permutes`: at every step the array is a permutation of the input |
| | `SortSorts` | `[]Sorted`: ordered, and stable in the descending order |
| | `FamiliesReturn` | `[]FamilyRestored`: no return leaves a tag in a family |
| | `CallsStayInSegment` | `StaysInSegment`: a call writes its own range only |
| | `SystemInvariance`, `AnswersWholeOrNone` | the scan of `BulkContains` behind the sort; `[]NoPartialAnswer` |
| | `FirstMatchIsLongest` | `[]LongestMatchWhenSorted` |
| `BulkAggregateProofs` | `AggregateInvariance` | `[]IInv` of `BulkAggregate` |
| | `NoAddressLost`, `MergeSeesDisjoint`, `AggregateIsCanonical` | `[]CoverPreserved`, `[]MergeInputDisjoint`, `[]ResultIsCanonical` |
| | `AggregateRefines` | `ImplementsAggregateSpec`: the in-place passes implement `AggregateSpec` |
| `IndexProofs` | `NothingLeaks` | `[]NoLeak` of `IndexCreate`, lookups running or not |
| | `PrefixesAreStored` | `[]PrefixesStored`: each prefix is in one node of the finished trie |
| | `BothBuffersFit` | `[]BuffersFit`: the arena has room, the prediction equals the packing |
| | `SkipsAreRight` | `SkipLeadsToBit`: what a packed node tells the lookup to skip |
| | `LookupStaysInside` | `[]VisitsWrittenNodes` |
| | `MatchesAreRight`, `InnermostIsFound` | `[]NeverWrongMatch`, `[]InnermostFound` |
| | `AllAnsweredOrNone` | `[]AllOrNothing` |
| `ProgramProofs` | `ProgramInvariant` | `[]Holds`: what the programs of `TextCalls` and `PyValues` can hold |
| | `StructsAreWhole` | `[]WholeOrUnspec`: a struct that names a family is what one successful call wrote |
| | `ParsersAcceptGrammar` | `[]AcceptsGrammar`: the parsers take exactly the grammar, with its values |
| | `TextsAreCanonical` | `[]CanonicalText`: the one canonical form, within its buffer, read back as the same value |
| | `BatchesAreVerdicts` | `[]BulkVerdict`: each text of a batch as if alone, the family error first |
| | `ClassesAreBlocks` | `[]ClassesOfBlocks`: the flags of exactly the blocks around an address |
| | `ObjectsAreConstructible` | `[]NetworkConstructors`: objects are what their texts say, and of texts with a number for a length strict decides about host bits only |
| | `QuestionsAgree` | `[]AnswersAgree` |
| | `OwnershipHolds`, `FreedOnce` | `[](IndexTypeOK /\ OwnedOnce)`, `[]OwnedOnce`: exit and dealloc together free the index once |
| | `NoMatchAfterFree` | `MatchesAreLive`: no lookup returns matches of a freed index |
| | `BulkInvariance` | `[]BulkInv` of `PyBulk` |
| | `NothingLeaks` | `[]NoLeak`: a call that returned owns its result only |
| | `ExceptionWithNull` | `[]RaisedIffNull`: NULL exactly with an exception |
| | `NothingUsedAfterRelease` | `[]UsesLive`: what a step uses is still owned |
| | `ExtensionIsSafe` | the properties of `PyBulk` and `PyPrefixIndex` hold in `PyExtension` |

Three modules hold lemmas only. `SpanProofs` is about numbers and addresses,
`RadixProofs` about the sort engine; neither mentions a caller, so that the bulk
sort, the aggregation and the index build share them. `ParserProofs` is about the
parsers as functions on texts.

**Induction.** The models compute with loops written as recursive functions
(`Value`, `BigEndianInc`, `SlotTarget`, `BranchCost`, `Extract`). `LeastElement` gets
the least element of a set of naturals from the well-foundedness of inclusion
between finite sets; `SetInduction` and `RoundByRound` follow, with the induction
step as an assumption about a set. `LoopExists` says that a loop of n rounds has a
result, and what its rounds are. Each recursive function is tied to such a loop
once (`WalkIs`, `CostIs`, `TakenIs`, and for `Value` the lemmas at the head of
`SpanProofs`). `PowersOfTwo` gets the powers of two of the prover's `^` from the
same lemmas. In `ParserProofs` `LoopType` and `LoopResult` do it for the scanning
loops, whose number of rounds is the length of the text.

**Bytes and numbers.** An address is its `Value`; a length n divides the address
space into blocks of `2^(KeyBits - n)`. The lemmas of `SpanProofs` go from bytes
to these blocks once for each way the code looks at bytes: comparing two
addresses compares numbers, masking rounds down to the block, two addresses have
their first n bits in common exactly when they are in one block, the carry loop
adds modulo the space, bit n of an address is the parity of its block. What is
left of the four theorems about `PrefixOps` is then about blocks. The position of
the subnet iterator is the number of subnets returned: `IterInv` has
`current = parent + Yielded * size` while it is not done, which no counter of the
code says, and `limit` as the wrapped address after the parent.

**The sort is safe.** `SwapInsideBucket` is not inductive: that the next slot of
a bucket is free depends on how the buckets were placed and on everything the
scan has done so far. `PartitionInv` says it: while a call runs, `start[d]` is
still the number of cells with a smaller digit, *counted in the array as it is
now*, and the slots of bucket `d` from `start[d]` to `next[d]` hold digit `d`.
The argument is then a count. Swapping two cells of a segment does not change
how many have a digit below `d` (`SwapKeepsBuckets`, a bijection). A bucket is as
wide as its digit is frequent (`BucketWidth`). If the item at the scan position
has digit `d` and lies outside bucket `d`, and that bucket had no free slot, the
bucket would hold as many items of digit `d` as there are, and the one outside
would be one more (`FreeSlot`). So `next[d]` is inside the bucket and the swap is
safe (`PartitionIsSafe`); buckets of different digits do not overlap
(`BucketsAscend`, `BucketsInFrame`), so the swap disturbs no other filled slot.

**The sort sorts.** `CallsInv`: the open calls share no slot, the cells of a call
agree on the key bytes before its position, and what the scan has passed is in
its bucket. `OrderedApart`: two cells that no open call covers together are in
order. When no call is open this is `Sorted`. In the repair pass `DuplicatesInv`
says the same of the tags of equal keys, which are positions of the input.
`IInv` adds the types, `Permutes`, that no call is open outside the sorting
phases, that outside them (and throughout an ascending sort) every entry has its
own family, and that while sorting the family to be restored is the one of every
input entry; the last two give `FamilyRestored`.

**The scan.** `ScanInv`: the slots answered are a first part of the batch and hold
the first match in a table nobody sorts any more. That the first is the longest
follows from `Sorted` and from two matches of one address being nested.

**Aggregation.** The live slots are the ones before the write position and the
ones not read yet. `AscendingInv` says what a pass leaves behind its write
position: a strict order, then disjointness, then no siblings side by side if
nothing was merged. `CoverPreserved` is inductive with it, since what a pass
leaves out is equal to, inside, or the other half of what it keeps
(`OtherHalf`). A list that is ascending, disjoint and without neighbouring
siblings is the canonical one (`ListIsCanonical`): two halves of a parent are
neighbours, because nothing disjoint fits between them (`SiblingsAreNeighbours`).
For the refinement `live` of `AggregateSpec` is the set of live prefixes of the
array. `AbstractStep` maps each round of a loop to a `Drop`, a `MergeHalves`, a
return or no step.

**The trie.** `HeapInv` lists what is live at each point of create. `TrieInv` says
that a node leads the prefixes that share its bits to the side of their next bit,
stores the one that ends there, and lies above its children; `BuildInv` that the
open calls are ranges of the sorted array, one after the other, that hold exactly
the prefixes no node stores yet. The room in the arena is part of it: with a call
open, `PatCount + 1 <= 2 * Top.lo + Len(calls)`, so that what remains to be built
is paid for by the entries left of the top call. `RouteInv`: the side of a node
that prefixes go to has a child, or a call that makes it. `CostInv`: costs are
computed from the last node to the first, each from those of the nodes below.

**The packed array.** Slots of the packed array have no names in the code: which
node a slot stands for is known while its call is open and nowhere afterwards.
`PackInv` therefore says that there is a map g from the reserved slots to places,
a place being a node and the depth at which it is met, such that each written
slot holds the node of its place and each unwritten one has a call. `PackNode`
extends g by the slots it reserves (`PackNodePlaces`). `RoomInv` has the filling
of the array before each open call: from `packedNext` it grows by what each call
will reserve and ends at the cost of the root, so the last call ends there.

**The lookup.** `SearchInv`: the node visited is the one of a place, met at its
depth, and every innermost prefix of the address is found already, with the node
past it, or lies ahead. A round of the search reads the slot that the address
spells; the walk of `patricia_slot_target` through this pattern stays on the route
to the prefix (`RoundLeads`, `SlotLeads`), or stops at the node that stores it.
The walk may pass a stored prefix, but then that prefix has a longer one inside
it; this is where `InnermostFound` needs its hypothesis and the longest match of
the documentation fails.

**The parser is the grammar.** The loops of `addr_parse_ipv6` are one loop,
`GroupIteration`, with another limit on the groups and another position that
counts as a `::` (`PureIsGroupIteration`, `MixedIsGroupIteration`). Its invariant
`Reading` says what a scan that has not failed has behind it: groups and single
colons in turn, at most one `::`, the values of the groups read, before and after
it. At the end this is a text laid out as `LaidOut` of the grammar wants, and a
laid out text never makes a round fail (`ScanReads`, `GroupsScanned`); one colon at
the very end is skipped as a separator, which is the text `IsTrailingColonText`
admits (`WrittenIs`). A mixed text is the same with two groups in the place of its
dotted tail (`LongerList`, `LaidLonger`, `LaidShorter`). `ExpandIs` and
`FilledIs` compare the bytes of both. `ParserIsGrammar` is the conclusion;
`TakenFits` and `GroupWidths` bound the text in front of a slash, so the buffer of
the prefix parser refuses nothing the address parser would take.

**The formatter.** `RunsSoFar` is the invariant of `find_zero_compress`: the run
kept is the leftmost of the longest that have ended, and the open one starts where
the zeros before the scan position do. At the end it is what the canonical form
leaves out (`LongestRunIs`). `IPv4Named`, `MappedText` and `FormatIPv6Is` show that
each text formed is one the grammar takes, with the bytes it was formed from; the
round trip is then `ParserIsGrammar` read from right to left (`NamedParses`). For
networks `PrefixNamed` adds the slash and the length.

**Batches.** `BatchSoFar` says of the loop of `cidr_bulk_parse` that behind n texts
it holds the verdict on each of them, knows whether one failed, the family of the
first that did not, and whether another one differed. What the arrays held before
does not occur in it.

**What programs hold.** `Holds` is the invariant of the callers in C and in
Python: texts are sequences of tokens, an address in a caller's struct is one the
last successful call wrote (`said`), a prefix has no host bits, an object is the
object of such an address or network. Its preservation has one lemma per call;
the other properties need of a step only what it wrote and the classes in `Steps`
say that: it fills a struct, parses an address, a prefix or a batch, writes by a
conversion, classifies, or is quiet. `AnswersAgree`, `NetworkConstructors` and
`BulkVerdict` are about the step just taken, so they follow from `Holds` in the
state before it.

**Questions and classes.** contains, overlaps, the comparisons and the
classification look at bytes under a mask; the properties speak of the first and
the last address. `ContainsIsBetween` of `SpanProofs` joins the two, with address
comparison as comparison of numbers, and `WithinSortsFirst` puts a covering
network first. Both widths are instances of it (`ContainsIsInSpan`,
`OverlapsIsInSpan`, `NetworksCompare`). For the classification the masked last byte
of a row is the mask of `CidrPrefix` (`MatchIsMask`), and all 53 rows have clear
host bits and lengths within their family (`RowsAreGood`), without which a row would
match no address of its own block.

**The Python objects.** `OwnedOnce` is inductive with the types, because the code
clears the pointer in the step that frees the index; a lookup tests the pointer
after its argument has been collected, which gives `MatchesAreLive`. `NoLeak`
speaks of the end of a call only. `Holdable` gives for every point before it the
references, arrays and buffer the call may own there, and `Owned` says it owns no
others; each way out then has to release at least `Holdable` of the point it
leaves. `UsesLive` is the other direction, and `LiveInv` its invariant: `Holdable`
bounds what is owned from above, `LiveInv` from below.

The invariants were checked by TLC on the instances of section 3 before they were
proved, except `PackInv`, `RoomInv` and `SearchInv`, which speak of a map or a
sequence that exists and that TLC would have to search for, and `Holds`, which
speaks of every address.

**Assumptions.** TLC evaluates all of them in some run.

* `ShapeAssumption`: bytes and addresses have a positive width.
  `EngineAssumption`: tags have a positive length, and a prefix length fits a key
  byte. (That powers of two are positive naturals and add up is not assumed but
  proved, in `PowersOfTwo` and `PowersAdd`.)
* `ArraysAssumption`, `IterAssumption`: what a caller passes in are prefixes with
  clear host bits, which is what every constructor of the library makes.
* `BatchAssumption` (of `BulkContains` and of `IndexLookup`): batches are
  sequences of addresses, each with a family.
* `TrieAssumption`, `LimitAssumption`, `SkipAssumption`: the limits on branching and
  on nodes are positive; a skip count wraps at more than the number of key bits
  (256 and 128 in the code).
* `CallersAssumption`, `ItemsAssumption`: finitely many callers; the bound on list
  lengths is a natural.
* `CallsAssumption`: what is typed is a sequence of tokens, what a caller fills
  into its struct is an address, lengths passed to C functions fit their
  `uint8_t`, a program makes a positive number of calls, and a batch is no longer
  than the arrays it is parsed into. `PyAssumption`: lengths
  in Python are integers, and a C long holds every prefix length.

**Only model-checked**: the liveness properties `Returns` and `LoopEnds`, since
the prover has no rule for fairness here. The six properties of section 3 that
are violated are of course not theorems; what holds in their place is:
`IsTrailingColonText` in `AcceptsGrammar`, `InnermostFound` and `NeverWrongMatch`,
the hypothesis of `Complete`, `PrefixesStored` without an order of duplicates,
`WholeOrUnspec`, and the two cases of `LooseAgrees` in `NetworkConstructors`.

## 5. Not modelled

NULL arguments and buffers that are too small (one line of tests at the top of
each function) and debug-only assertions. In the extension: the registration of
types and exceptions at import; the getters that copy a field (`packed`,
`version`, `prefixlen`), `num_addresses` and the hashes; failing allocations of
single result objects, `PyBulk` and `PyPrefixIndex` have those of lists and
arrays; objects of other classes that imitate an address or a network; the result
objects of the subnet iterator. The case of hexadecimal digits and the wording of
messages. Tests, benchmarks and build files are not part of the library; the
tests were read for what they promise. Threads that share an index read it only;
ordering destroy after the last lookup is the caller's duty, and `IndexLookup`
builds it into `DestroyStep`.

## 6. Plan

Done: every component of the C library, the Python objects and functions, and the
proofs of section 4. What is left to model is listed in section 5; the first
candidate is the result objects of the subnet iterator, whose allocation may fail
after the iterator has advanced.

Every safety property the passing runs check is proved; what is left to prove
comes with what is left to model.
