----------------------------- MODULE SubnetIter -----------------------------
(***************************************************************************)
(* The subnet iterator of src/cidr_prefix.c and the caller's documented    *)
(* loop over it.  The iterator lives in the caller's frame and holds no    *)
(* resource: a caller may leave a loop early and initialise the same       *)
(* iterator again.                                                         *)
(***************************************************************************)
EXTENDS PrefixSpans, FiniteSets

CONSTANTS
  Parents,      \* the prefixes a caller enumerates
  Requests,     \* the lengths it asks for, in range or not
  CastSize      \* 2^8: network_subnets_impl casts the request to a uint8_t

ASSUME IterAssumption == /\ Parents \subseteq Prefix
                         /\ Requests \subseteq Int
                         /\ CastSize \in Nat \ 0 .. MaxPfxlen

VARIABLES
  current,    \* iter->current.addr
  limit,      \* iter->limit: the address past the parent, and its length
  target,     \* iter->target_pfxlen
  done,       \* iter->done
  out,        \* the caller's *out
  phase,      \* of the caller: "idle", "loop", "end", "refused"
  parent,     \* ghost: the prefix being enumerated
  yielded     \* ghost: what its enumeration has returned, in order

iterVars == <<current, limit, target, done>>
vars == <<iterVars, out, phase, parent, yielded>>

NoSubnet == [addr |-> Zeros, pfxlen |-> MaxPfxlen + 1]
Nothing == [k \in {} |-> NoSubnet]

Init == /\ current = Zeros
        /\ limit = FromHost(Zeros, 0)
        /\ target = 0
        /\ done = TRUE
        /\ out = NoSubnet
        /\ phase = "idle"
        /\ parent = FromHost(Zeros, 0)
        /\ yielded = Nothing

\* The conversion of a Python int to uint8_t; C callers pass a uint8_t.
Cast(n) == n % CastSize

InRange(p, len) == len > p.pfxlen /\ len <= MaxPfxlen

\* subnets(prefixlen=n) and cidr_subnet_iter_init, CIDR_OK
Begin(p, n) ==
  /\ phase = "idle"
  /\ InRange(p, Cast(n))
  /\ current' = p.addr
  /\ limit' = [addr   |-> BigEndianInc(p.addr, KeyBits - p.pfxlen),
               pfxlen |-> p.pfxlen]
  /\ target' = Cast(n)
  /\ done' = FALSE
  /\ phase' = "loop"
  /\ parent' = p
  /\ yielded' = Nothing
  /\ UNCHANGED out

\* CIDR_ERR_PFXLEN: the iterator keeps what it held.
Refuse(p, n) == /\ phase = "idle"
                /\ ~InRange(p, Cast(n))
                /\ phase' = "refused"
                /\ UNCHANGED <<iterVars, out, parent, yielded>>

\* Mutant: the limit itself is still yielded.
ExhaustedPastLimit(addr) == IF limit.pfxlen = 0 THEN addr = limit.addr
                            ELSE AddrLess(limit.addr, addr)

\* Mutant: no special case for the whole address space.
ExhaustedByOrder(addr) == ~AddrLess(addr, limit.addr)

\* Mutant: the whole address space has no end.
ExhaustedUnlessWhole(addr) == limit.pfxlen > 0 /\ ~AddrLess(addr, limit.addr)

\* Without a representable limit the end is the return to the first address.
Exhausted(addr) == IF limit.pfxlen = 0 THEN addr = limit.addr
                   ELSE ~AddrLess(addr, limit.addr)

\* The ghost sequence is cut off one past the number of addresses: no
\* enumeration is as long, and one that repeats itself has finitely many states.
MaxYielded == 2^KeyBits + 1
Appended(s, p) == LET n == Cardinality(DOMAIN s)
                  IN  IF n = MaxYielded THEN s
                      ELSE [k \in 0 .. n |-> IF k = n THEN p ELSE s[k]]

\* cidr_subnet_iter_next, CIDR_OK
Yield ==
  /\ phase = "loop"
  /\ ~done
  /\ out' = [addr |-> current, pfxlen |-> target]
  /\ current' = BigEndianInc(current, KeyBits - target)
  /\ done' = Exhausted(current')
  /\ yielded' = Appended(yielded, out')
  /\ UNCHANGED <<limit, target, phase, parent>>

\* cidr_subnet_iter_next, CIDR_ERR_DONE: the caller's loop ends.
Stop == /\ phase = "loop"
        /\ done
        /\ phase' = "end"
        /\ UNCHANGED <<iterVars, out, parent, yielded>>

\* The caller leaves the loop early, or is ready for another enumeration.
Abandon == /\ phase # "idle"
           /\ phase' = "idle"
           /\ UNCHANGED <<iterVars, out, parent, yielded>>

Next == \/ \E p \in Parents, n \in Requests : Begin(p, n) \/ Refuse(p, n)
        \/ Yield
        \/ Stop
        \/ Abandon

Spec == Init /\ [][Next]_vars

\* A caller that stays in its loop keeps calling.
FairSpec == Spec /\ WF_vars(Yield \/ Stop)

----------------------------------------------------------------------------
\* The subnets come in ascending order without gaps: each is the block that
\* begins where the one before it ended, and all of them lie in the parent,
\* also when the address after the parent or after the subnet is not
\* representable and the addition wraps to zero.
InOrder ==
  \A k \in DOMAIN yielded :
    /\ yielded[k].pfxlen = target
    /\ Value(yielded[k].addr) = Value(parent.addr) + k * 2^(KeyBits - target)
    /\ Span(yielded[k]) \subseteq Span(parent)

\* The address after the parent has a representation, or the iterator treats
\* its absence apart, as it does for /0.
EndRepresentable == parent.pfxlen = 0 \/ limit.addr # Zeros

\* An enumeration that has come to its end has returned every address of the
\* parent: the iterator never says CIDR_ERR_DONE too early, provided the end
\* is representable (SubnetCount is about the other parents).
Complete ==
  phase = "end" /\ EndRepresentable =>
    SpanOf({yielded[k] : k \in DOMAIN yielded}) = Span(parent)

\* Why both hold: the iterator's position is the number of subnets returned, as
\* long as it is not done; done means that the next one would begin at the limit
\* or, where the limit has wrapped to zero, nothing but one more subnet.
Subnets == 2^(target - parent.pfxlen)
Yielded == Cardinality(DOMAIN yielded)

IterTypeOK ==
  /\ current \in Address
  /\ limit \in [addr : Address, pfxlen : Pfxlen]
  /\ target \in Pfxlen
  /\ done \in BOOLEAN
  /\ phase \in {"idle", "loop", "end", "refused"}
  /\ parent \in Prefix
  /\ yielded = [k \in 0 .. Yielded - 1 |-> yielded[k]]
  /\ \A k \in DOMAIN yielded : yielded[k] \in [addr : Address, pfxlen : Pfxlen]

IterInv ==
  /\ IterTypeOK
  /\ Yielded \in 0 .. 2^KeyBits
  /\ phase \in {"loop", "end"} =>
       /\ parent.pfxlen < target
       /\ limit = [addr   |-> BigEndianInc(parent.addr, KeyBits - parent.pfxlen),
                   pfxlen |-> parent.pfxlen]
       /\ ~done => /\ Yielded < Subnets
                   /\ Value(current) = Value(parent.addr) + Yielded * 2^(KeyBits - target)
       /\ done /\ EndRepresentable => Yielded = Subnets
  /\ phase = "end" => done
  /\ InOrder

\* `while (next(...) == CIDR_OK)` ends: the advancing address cannot step over
\* the limit, or wrap past it, and run on.
LoopEnds == phase = "loop" ~> phase # "loop"

\* ARCHITECTURE.md 4.3.8: "The number of subnets is
\* 2^(target_pfxlen - prefix->pfxlen)", of every prefix the library can hold.
SubnetCount ==
  phase = "end" => Cardinality(DOMAIN yielded) = 2^(target - parent.pfxlen)
=============================================================================
