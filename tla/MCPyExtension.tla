--------------------------- MODULE MCPyExtension ---------------------------
(* Lists of up to three items: a loop fails at its first item, at a later  *)
(* one, at its last one or not at all.  Two lookups in flight and a third  *)
(* caller that closes the index or drops the last other reference; the     *)
(* callers are interchangeable.                                            *)
EXTENDS PyExtension, TLC

CallerSymmetry == Permutations(Callers)
=============================================================================
