----------------------------- MODULE MCPrefixes -----------------------------
(***************************************************************************)
(* Two bytes of two bits: 16 addresses and 31 prefixes, with masks that    *)
(* end inside a byte and on a byte boundary, and carries and steps that    *)
(* cross from one byte into the other.  A caller uses either the pure      *)
(* functions or the iterator: neither keeps state that the other sees, so  *)
(* taking turns with both would only multiply the states.                  *)
(***************************************************************************)
EXTENDS PrefixOps, MCSubnetIter

VARIABLE uses

programVars == <<uses, opsVars, vars>>

ProgramInit == uses \in {"functions", "iterator"} /\ OpsInit /\ Init

ProgramNext == \/ uses = "functions" /\ OpsNext /\ UNCHANGED <<uses, vars>>
               \/ uses = "iterator" /\ Next /\ UNCHANGED <<uses, opsVars>>

\* The fairness of FairSpec: a caller that stays in its loop keeps calling.
ProgramSpec == ProgramInit /\ [][ProgramNext]_programVars /\ WF_vars(Yield \/ Stop)
=============================================================================
