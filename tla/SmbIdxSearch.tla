---------------------------- MODULE SmbIdxSearch ----------------------------
(***************************************************************************)
(* The two searches of a message base's index file that bisect it:          *)
(*   smb_getmsgidx          the record of a message number,                 *)
(*   smb_getmsgidx_by_time  a record imported at or after a time.           *)
(* Each turn of their loops reads one record of the file, which is sorted   *)
(* by number (see IndexSorted in SmbBase) and by time of import, where      *)
(* several records may have the same time.  Offsets count from zero.        *)
(***************************************************************************)
EXTENDS Integers, Sequences

CONSTANTS
    Keys,       \* message numbers, or times
    MaxLen      \* longest index file considered

ASSUME SearchAssumption == Keys \subseteq Nat \ {0} /\ MaxLen \in Nat

VARIABLES
    call,       \* the search: "number" or "time"
    idx,        \* the keys in the index file
    key,        \* the key looked for
    pc,         \* "search", "found" or "missing"
    bot, top,   \* the range left
    l           \* offset of the record to read; at the end, of the record found

vars == <<call, idx, key, pc, bot, top, l>>

Sorted(s, strictly) ==
    \A i, j \in 1..Len(s) : i < j => s[i] < s[j] \/ (~strictly /\ s[i] = s[j])

Indexes == UNION {[1..n -> Keys] : n \in 0..MaxLen}

At(o) == idx[o + 1]
Total == Len(idx)

-----------------------------------------------------------------------------
(* Plausible mistakes: one thing wrong in an action below.  No              *)
(* specification uses them.                                                 *)

NumberBelowKeepsTop ==          \* only the middle is moved
    /\ call = "number" /\ pc = "search" /\ l < Total
    /\ bot # top - 1 /\ At(l) > key
    /\ l' = bot + (l - bot) \div 2
    /\ UNCHANGED <<call, idx, key, pc, bot, top>>

TimeEarlierKeepsMiddle ==       \* a middle that is too low is looked at again
    /\ call = "time" /\ pc = "search" /\ bot <= top
    /\ At((bot + top) \div 2) < key
    /\ bot' = (bot + top) \div 2
    /\ UNCHANGED <<call, idx, key, pc, top, l>>

NumberBelowSkips ==             \* top taken as inclusive
    /\ call = "number" /\ pc = "search" /\ l < Total
    /\ bot # top - 1 /\ At(l) > key
    /\ top' = l - 1
    /\ l' = bot + (l - 1 - bot) \div 2
    /\ UNCHANGED <<call, idx, key, pc, bot>>

TimeLaterKeepsMatch ==          \* the match is not moved down
    /\ call = "time" /\ pc = "search" /\ bot <= top
    /\ At((bot + top) \div 2) > key /\ (bot + top) \div 2 > 0
    /\ top' = (bot + top) \div 2 - 1
    /\ UNCHANGED <<call, idx, key, pc, bot, l>>

-----------------------------------------------------------------------------
(* A call on some index file.  An empty file, or one whose last record is   *)
(* too old, is answered before the loop.                                    *)

Init ==
    /\ call \in {"number", "time"}
    /\ idx \in Indexes
    /\ Sorted(idx, call = "number")
    /\ key \in Keys
    /\ bot = 0
    /\ IF Total = 0 \/ (call = "time" /\ idx[Total] < key)
       THEN pc = "missing" /\ top = 0 /\ l = 0
       ELSE /\ pc = "search"
            /\ top = IF call = "number" THEN Total ELSE Total - 1
            /\ l = IF call = "number" THEN Total \div 2 ELSE Total - 1

\* smb_getmsgidx: "bot" has been read and is too low, or is zero; "top" has
\* been read and is too high, or is the end of the file.
NumberPastEnd ==
    /\ call = "number" /\ pc = "search" /\ l >= Total
    /\ pc' = "missing"
    /\ UNCHANGED <<call, idx, key, bot, top, l>>

NumberMissing ==
    /\ call = "number" /\ pc = "search" /\ l < Total
    /\ bot = top - 1 /\ At(l) # key
    /\ pc' = "missing"
    /\ UNCHANGED <<call, idx, key, bot, top, l>>

NumberBelow ==
    /\ call = "number" /\ pc = "search" /\ l < Total
    /\ bot # top - 1 /\ At(l) > key
    /\ top' = l
    /\ l' = bot + (l - bot) \div 2
    /\ UNCHANGED <<call, idx, key, pc, bot>>

NumberAbove ==
    /\ call = "number" /\ pc = "search" /\ l < Total
    /\ bot # top - 1 /\ At(l) < key
    /\ bot' = l
    /\ l' = top - (top - l) \div 2
    /\ UNCHANGED <<call, idx, key, pc, top>>

NumberFound ==
    /\ call = "number" /\ pc = "search" /\ l < Total
    /\ At(l) = key
    /\ pc' = "found"
    /\ UNCHANGED <<call, idx, key, bot, top, l>>

\* smb_getmsgidx_by_time: l is match_offset
Middle == (bot + top) \div 2

TimeEarlier ==
    /\ call = "time" /\ pc = "search" /\ bot <= top
    /\ At(Middle) < key
    /\ bot' = Middle + 1
    /\ UNCHANGED <<call, idx, key, pc, top, l>>

TimeLater ==
    /\ call = "time" /\ pc = "search" /\ bot <= top
    /\ At(Middle) > key /\ Middle > 0
    /\ l' = Middle
    /\ top' = Middle - 1
    /\ UNCHANGED <<call, idx, key, pc, bot>>

TimeStop ==
    /\ call = "time" /\ pc = "search" /\ bot <= top
    /\ At(Middle) = key \/ (At(Middle) > key /\ Middle = 0)
    /\ l' = Middle
    /\ pc' = "found"
    /\ UNCHANGED <<call, idx, key, bot, top>>

TimeEnd ==
    /\ call = "time" /\ pc = "search" /\ bot > top
    /\ pc' = "found"
    /\ UNCHANGED <<call, idx, key, bot, top, l>>

Next ==
    \/ NumberPastEnd \/ NumberMissing \/ NumberBelow \/ NumberAbove \/ NumberFound
    \/ TimeEarlier \/ TimeLater \/ TimeStop \/ TimeEnd

Spec == Init /\ [][Next]_vars

\* The loop runs on its own: nothing in it waits
FairSpec == Spec /\ WF_vars(Next)

-----------------------------------------------------------------------------
\* smb_getmsgidx finds a message that is in the index, whatever its place, and
\* no other one, and says that a message is not there only when it is not.
NumberResult ==
    call = "number" =>
        /\ pc = "found" => l \in 0..Total-1 /\ At(l) = key
        /\ pc = "missing" => \A i \in 1..Total : idx[i] # key

\* smb_getmsgidx_by_time returns a record at or after the time, and none but
\* records with that very time are between it and the last earlier one.  Of
\* several with that time it may be any, as the loop stops at the first one it
\* meets.  It is weaker than the heading of the function, "Finds index of last
\* message imported at or after specified time": of times 5, 5, 5 the code
\* finds the middle one, neither the last nor the first, and a caller that goes
\* on from there (getmsgnum) skips those before it.
TimeResult ==
    call = "time" =>
        /\ pc = "found" => /\ l \in 0..Total-1 /\ At(l) >= key
                           /\ \A i \in 1..l : idx[i] < key \/ At(l) = key
        /\ pc = "missing" => \A i \in 1..Total : idx[i] < key

\* With every turn of either loop the range gets smaller, and the one by time,
\* which does not check, never reads a record outside the file.
RangeShrinks ==
    [][/\ pc' = "search" => top' - bot' < top - bot
       /\ call = "time" /\ bot <= top => Middle \in 0..Total-1]_vars

\* Both searches end.
Ends == <>(pc # "search")
=============================================================================
