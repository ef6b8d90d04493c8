-------------------------- MODULE MCSmbIdxSearch --------------------------
(* Every index file of at most MaxLen records with keys of the set Keys.   *)
EXTENDS SmbIdxSearch
=============================================================================
