---------------------------- MODULE PyExtension ----------------------------
(***************************************************************************)
(* The extension in one interpreter: a bulk call on its way and the        *)
(* callers of a PrefixIndex.  A bulk call runs code of its caller too      *)
(* while it takes a list apart, and that code may use the index.  The      *)
(* steps interleave more finely than the interpreter lock allows, which    *)
(* adds behaviours and leaves none out.                                    *)
(***************************************************************************)
EXTENDS PyBulk, PyPrefixIndex

extensionVars == <<pyBulkVars, indexVars>>

ExtensionInit == PyBulkInit /\ IndexInit

ExtensionNext == \/ PyBulkNext /\ UNCHANGED indexVars
                 \/ IndexNext /\ UNCHANGED pyBulkVars

ExtensionSpec == ExtensionInit /\ [][ExtensionNext]_extensionVars
=============================================================================
