---- MODULE MCSmbMaint ----
(* Model checking of SmbMaint: the values of the constants are in the .cfg files. *)
EXTENDS SmbMaint, TLC
====
