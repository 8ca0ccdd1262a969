-------------------------- MODULE MCBulkAggregate --------------------------
(* One byte of three bits: eight addresses, fifteen prefixes.  Ascending    *)
(* arrays of four leave room for two passes of merges.                      *)
EXTENDS BulkAggregate, SmallArrays
=============================================================================
