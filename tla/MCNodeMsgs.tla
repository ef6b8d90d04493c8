----------------------------- MODULE MCNodeMsgs -----------------------------
(* NodeMsgs for TLC: senders are interchangeable. *)
EXTENDS NodeMsgs, TLC

Symmetry == Permutations(Senders)
=============================================================================
