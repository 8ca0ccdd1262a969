---------------------------- MODULE PyPrefixIndex ----------------------------
(***************************************************************************)
(* The PrefixIndex object of the Python extension and the C index it owns. *)
(*                                                                         *)
(* No function of the extension releases the interpreter lock, so a        *)
(* function body is one step, except where it calls back into Python:      *)
(* bulk_addrs_from_list iterates over an argument of the caller, whose     *)
(* iterator may run any code and let other threads run.  lookup() tests    *)
(* the index before that call and uses it after.  A caller is a thread or  *)
(* a call nested in such an iterator; nested calls are the interleavings   *)
(* where the inner one ends first.                                         *)
(***************************************************************************)
EXTENDS Naturals, FiniteSets

CONSTANT Callers

ASSUME CallersAssumption == IsFiniteSet(Callers)

VARIABLES
  heap,     \* the cidr_index_t: "none", "live" or "freed"
  frees,    \* ghost: how often it was destroyed
  object,   \* the Python object: "none", "alive" or "gone"
  index,    \* self->index: "NULL" or "ptr"
  holds,    \* who holds a reference to the object
  at,       \* caller -> "idle" or "extract", inside bulk_addrs_from_list
  result    \* caller -> what its last call came to

indexVars == <<heap, frees, object, index, holds, at, result>>

IndexInit == /\ heap = "none"
             /\ frees = 0
             /\ object = "none"
             /\ index = "NULL"
             /\ holds = {}
             /\ at = [c \in Callers |-> "idle"]
             /\ result = [c \in Callers |-> "none"]

Returns(c, r) == /\ at' = [at EXCEPT ![c] = "idle"]
                 /\ result' = [result EXCEPT ![c] = r]

----------------------------------------------------------------------------
\* prefixindex_new: the index is created before the object that will own it.
New(c) ==
  /\ object = "none"
  /\ heap = "none"
  /\ at[c] = "idle"
  /\ \/ /\ heap' = "live"
        /\ object' = "alive"
        /\ index' = "ptr"
        /\ holds' = {c}
        /\ Returns(c, "new")
        /\ UNCHANGED frees
     \/ \* PyType_GenericNew failed: the index has no owner
        /\ heap' = "freed"
        /\ frees' = frees + 1
        /\ Returns(c, "error")
        /\ UNCHANGED <<object, index, holds>>

\* Mutant: the pointer is not cleared.
DestroyOwnedDangling == IF index = "ptr"
                        THEN heap' = "freed" /\ frees' = frees + 1 /\ UNCHANGED index
                        ELSE UNCHANGED <<heap, frees, index>>

\* prefixindex_destroy_owned
DestroyOwned == IF index = "ptr"
                THEN heap' = "freed" /\ frees' = frees + 1 /\ index' = "NULL"
                ELSE UNCHANGED <<heap, frees, index>>

\* The method is entered with a reference of the caller's.
MayCall(c) == c \in holds /\ at[c] = "idle"

LookupDestroyed(c) == /\ MayCall(c)
                      /\ index = "NULL"
                      /\ Returns(c, "destroyed")
                      /\ UNCHANGED <<heap, frees, object, index, holds>>

LookupBegin(c) == /\ MayCall(c)
                  /\ index = "ptr"
                  /\ at' = [at EXCEPT ![c] = "extract"]
                  /\ result' = [result EXCEPT ![c] = "none"]
                  /\ UNCHANGED <<heap, frees, object, index, holds>>

\* The argument was no list of addresses of this family, or an empty one:
\* the index is not looked at again.
LookupLeave(c) == /\ at[c] = "extract"
                  /\ \E r \in {"error", "empty"} : Returns(c, r)
                  /\ UNCHANGED <<heap, frees, object, index, holds>>

\* cidr_index_lookup(self->index, ...), with the pointer of now: NULL is
\* refused by the C function.
LookupFinish(c) == /\ at[c] = "extract"
                   /\ Returns(c, IF index = "NULL" THEN "error" ELSE "matches")
                   /\ UNCHANGED <<heap, frees, object, index, holds>>

\* prefixindex_exit
Exit(c) == /\ MayCall(c)
           /\ DestroyOwned
           /\ Returns(c, "closed")
           /\ UNCHANGED <<object, holds>>

\* prefixindex_enter and every other way of sharing the object.
Share(c, d) == /\ c \in holds
               /\ d \notin holds
               /\ holds' = holds \cup {d}
               /\ UNCHANGED <<heap, frees, object, index, at, result>>

\* Mutant: the last reference takes the object, not the index.
DropWithoutDestroy(c) ==
  /\ MayCall(c)
  /\ holds' = holds \ {c}
  /\ object' = IF holds' = {} THEN "gone" ELSE object
  /\ UNCHANGED <<heap, frees, index, at, result>>

\* A caller drops its reference; with the last one goes the object
\* (prefixindex_dealloc).  A running method keeps the reference it was given.
Drop(c) ==
  /\ MayCall(c)
  /\ holds' = holds \ {c}
  /\ IF holds' = {} THEN object' = "gone" /\ DestroyOwned
                    ELSE UNCHANGED <<object, heap, frees, index>>
  /\ UNCHANGED <<at, result>>

IndexNext ==
  \E c \in Callers :
    \/ New(c)
    \/ LookupDestroyed(c) \/ LookupBegin(c) \/ LookupLeave(c) \/ LookupFinish(c)
    \/ Exit(c) \/ Drop(c)
    \/ \E d \in Callers : Share(c, d)

IndexSpec == IndexInit /\ [][IndexNext]_indexVars

----------------------------------------------------------------------------
IndexTypeOK ==
  /\ heap \in {"none", "live", "freed"}
  /\ frees \in {0, 1}
  /\ object \in {"none", "alive", "gone"}
  /\ index \in {"NULL", "ptr"}
  /\ holds \subseteq Callers
  /\ at \in [Callers -> {"idle", "extract"}]
  /\ result \in [Callers -> {"none", "new", "destroyed", "error", "empty",
                             "matches", "closed"}]

\* Whoever exits, drops its reference or looks up in whatever order: the
\* object points to the index exactly while it lives, an index is freed once,
\* and it does not outlive the object.
OwnedOnce ==
  /\ index = "ptr" <=> heap = "live"
  /\ heap = "freed" <=> frees = 1
  /\ heap = "live" => object = "alive"

\* A lookup that was waiting for its argument while the index was destroyed
\* never reads it: matches come from a live index only, and once it is freed
\* every lookup ends in an error or with nothing to look up.
MatchesAreLive ==
  [][\A c \in Callers :
       at[c] = "extract" /\ at'[c] = "idle" /\ result'[c] = "matches" =>
         heap = "live"]_indexVars
=============================================================================
