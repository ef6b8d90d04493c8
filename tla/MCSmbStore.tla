---------------------------- MODULE MCSmbStore -----------------------------
(* SmbStore for TLC.  Two units fill a block: a sender's text is half a    *)
(* block, or a block of body and half a block of tail; a mailer's has a    *)
(* body and a tail that share one block.                                   *)
EXTENDS SmbStore

MCSendLayouts == {<<1>>, <<2, 1>>}
MCMailLayouts == {<<1, 1>>}
=============================================================================
