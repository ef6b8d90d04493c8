---------------------------- MODULE FileTransfer ----------------------------
(***************************************************************************)
(* What a stop-and-wait transfer of a file promises its two ends, whatever *)
(* happens on the line: a block is confirmed to the sender once and only   *)
(* after the receiver has taken it, the next one is taken only after that, *)
(* the receiver calls the file complete only when all that was taken is    *)
(* confirmed, and the sender only after the receiver.  Nothing is promised *)
(* of a transfer that is void.                                             *)
(***************************************************************************)
EXTENDS Naturals

VARIABLES
    taken,      \* blocks the receiver has answered
    confirmed,  \* blocks the sender has seen answered
    received,   \* the receiver calls the file complete
    reported,   \* so does the sender
    void

counts == <<taken, confirmed>>
ends == <<received, reported>>
vars == <<counts, ends, void>>

Init == taken = 0 /\ confirmed = 0 /\ ~received /\ ~reported /\ ~void

Take    == ~received /\ taken = confirmed /\ taken' = taken + 1 /\ UNCHANGED <<confirmed, ends>>
Confirm == confirmed < taken /\ confirmed' = taken /\ UNCHANGED <<taken, ends>>
Receive == taken = confirmed /\ received' /\ UNCHANGED <<counts, reported>>
Report  == received /\ reported' /\ UNCHANGED <<counts, received>>

Next == void' \/ (UNCHANGED void /\ (Take \/ Confirm \/ Receive \/ Report))

Spec == Init /\ [][Next]_vars
=============================================================================
