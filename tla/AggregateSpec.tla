--------------------------- MODULE AggregateSpec ---------------------------
(***************************************************************************)
(* What cidr_bulk_aggregate promises, without arrays or an order: a set of *)
(* prefixes shrinks by dropping what another one covers and by replacing   *)
(* two halves with their parent, until neither is possible.                *)
(***************************************************************************)
EXTENDS PrefixSpans

VARIABLES
  live,     \* the prefixes the array stands for
  status    \* "working", "done" or "refused"
absVars == <<live, status>>

AbsInit == live \subseteq Prefix /\ status = "working"

Drop(p, q) == /\ p # q
              /\ Span(p) \subseteq Span(q)
              /\ live' = live \ {p}

MergeHalves(p, q) ==
  \E r \in Prefix : /\ p # q
                    /\ p.pfxlen = r.pfxlen + 1
                    /\ q.pfxlen = r.pfxlen + 1
                    /\ Span(p) \cup Span(q) = Span(r)
                    /\ live' = (live \ {p, q}) \cup {r}

Minimal == live = Canonical(SpanOf(live))

Shrink == /\ status = "working"
          /\ \E p, q \in live : Drop(p, q) \/ MergeHalves(p, q)
          /\ UNCHANGED status

Finish == /\ status = "working"
          /\ Minimal
          /\ status' = "done"
          /\ UNCHANGED live

\* Prefixes of two families cannot be aggregated.
Refuse == /\ status = "working"
          /\ status' = "refused"
          /\ UNCHANGED live

AbsNext == Shrink \/ Finish \/ Refuse

AbsSpec == AbsInit /\ [][AbsNext]_absVars
=============================================================================
