----------------------------- MODULE MCSmbBase -----------------------------
(* SmbBase for TLC.  Processes are model values; those of one kind are     *)
(* interchangeable, which the safety runs use.                             *)
EXTENDS SmbBase, TLC
Symmetry ==
    Permutations(Adders) \cup Permutations(Headers) \cup Permutations(Updaters) \cup Permutations(Purgers)
=============================================================================
