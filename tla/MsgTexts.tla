------------------------------ MODULE MsgTexts ------------------------------
(***************************************************************************)
(* What a message base gives the people who read it: a message, once        *)
(* posted, has a number of its own and says the same thing until it is      *)
(* marked for deletion.  A deletion is final, but for one that is made      *)
(* while the base is being cleaned: it comes undone when the cleaning ends, *)
(* unless the cleaner has seen it.  Nothing is posted meanwhile.            *)
(***************************************************************************)
EXTENDS Integers

CONSTANT Texts

VARIABLES
    box,        \* the readable messages: number -> text
    last,       \* the highest number given out
    cleaning,   \* the base is being cleaned
    unsure      \* the messages deleted meanwhile, unseen: number -> text

vars == <<box, last, cleaning, unsure>>

Nobody == [n \in {} |-> 0]
With(f, n, t) == [i \in DOMAIN f \cup {n} |-> IF i = n THEN t ELSE f[i]]
Without(f, n) == [i \in DOMAIN f \ {n} |-> f[i]]

Init == box = Nobody /\ last = 0 /\ cleaning = FALSE /\ unsure = Nobody

Post ==
    /\ ~cleaning
    /\ last' = last + 1
    /\ \E t \in Texts : box' = With(box, last', t)
    /\ UNCHANGED <<cleaning, unsure>>

Delete ==
    /\ \E n \in DOMAIN box :
        /\ box' = Without(box, n)
        /\ unsure' = IF cleaning THEN With(unsure, n, box[n]) ELSE unsure
    /\ UNCHANGED <<last, cleaning>>

BeginCleaning ==
    /\ ~cleaning
    /\ cleaning' = TRUE
    /\ UNCHANGED <<box, last, unsure>>

SeeDeleted ==
    /\ \E n \in DOMAIN unsure : unsure' = Without(unsure, n)
    /\ UNCHANGED <<box, last, cleaning>>

EndCleaning ==
    /\ cleaning
    /\ cleaning' = FALSE
    /\ box' = [n \in DOMAIN box \cup DOMAIN unsure |-> IF n \in DOMAIN box THEN box[n] ELSE unsure[n]]
    /\ unsure' = Nobody
    /\ UNCHANGED last

Next == Post \/ Delete \/ BeginCleaning \/ SeeDeleted \/ EndCleaning

Spec == Init /\ [][Next]_vars
=============================================================================
