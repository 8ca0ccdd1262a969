--------------------------- MODULE MCIndexCreate ---------------------------
(* One byte of three bits, fifteen prefixes: tries up to the full depth.    *)
EXTENDS IndexCreate, SmallArrays
=============================================================================
