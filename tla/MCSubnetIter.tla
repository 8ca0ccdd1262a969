---------------------------- MODULE MCSubnetIter ----------------------------
(***************************************************************************)
(* Two bytes of two bits: steps inside a byte, on a byte boundary and with *)
(* a carry from one byte into the other, from every prefix of the space.   *)
(* The lengths 0 and MaxPfxlen + 1 are the ones to refuse; CastSize + 3 is *)
(* one that the cast turns into a length in range.                         *)
(***************************************************************************)
EXTENDS SubnetIter

NearRange == 0 .. MaxPfxlen + 1 \cup {CastSize + 3}
=============================================================================
