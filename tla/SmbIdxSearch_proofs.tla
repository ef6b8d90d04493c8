------------------------- MODULE SmbIdxSearch_proofs -------------------------
(***************************************************************************)
(* The searches of SmbIdxSearch are right for an index file of any length.  *)
(* The inductive invariant is what the loops know: everything before the    *)
(* range left is too low, everything after it too high, and (by number)     *)
(* the record to read is inside the range unless a single record is left.   *)
(***************************************************************************)
EXTENDS SmbIdxSearch, TLAPS

FileInv ==
    /\ call \in {"number", "time"}
    /\ idx \in Seq(Nat)
    /\ \A i, j \in 1..Total : i < j => idx[i] <= idx[j]
    /\ call = "number" => \A i, j \in 1..Total : i < j => idx[i] < idx[j]
    /\ key \in Nat
    /\ pc \in {"search", "found", "missing"}
    /\ bot \in Int /\ top \in Int /\ l \in Int

NumberInv ==
    (call = "number" /\ pc = "search") =>
        /\ 0 <= bot /\ bot < top /\ top <= Total
        /\ \A i \in 1..Total : i <= bot => idx[i] < key
        /\ \A i \in 1..Total : i > top => idx[i] > key
        /\ bot <= l /\ l <= top
        /\ bot + 1 < top => bot < l /\ l < top
        /\ top < Total => idx[top + 1] > key
        /\ l = top => idx[bot + 1] < key

TimeInv ==
    (call = "time" /\ pc = "search") =>
        /\ 0 <= bot /\ bot <= top + 1 /\ top < Total
        /\ 0 <= l /\ l < Total
        /\ \A i \in 1..Total : i <= bot => idx[i] < key
        /\ idx[l + 1] >= key
        /\ \A i \in 1..Total : i >= top + 2 => idx[i] >= key
        /\ l = top + 1 \/ (l = top /\ top = Total - 1)

SearchInv == FileInv /\ NumberInv /\ TimeInv /\ NumberResult /\ TimeResult

-----------------------------------------------------------------------------
LEMMA HalfBounds ==
    ASSUME NEW n \in Nat
    PROVE  /\ n \div 2 \in Nat
           /\ n \div 2 <= n
           /\ n > 0 => n \div 2 < n
           /\ n > 1 => n \div 2 > 0
BY SMT

LEMMA InitSearchInv == Init => SearchInv
<1> SUFFICES ASSUME Init PROVE SearchInv
  OBVIOUS
<1>1. PICK n \in 0..MaxLen : idx \in [1..n -> Keys]
  BY DEF Init, Indexes
<1>2. /\ idx \in Seq(Nat) /\ Len(idx) = n
  <2>1. n \in Nat
    BY <1>1, SearchAssumption
  <2>2. idx \in [1..n -> Nat]
    BY <1>1, SearchAssumption
  <2> QED  BY <2>1, <2>2
<1>3. key \in Nat /\ Total \in Nat /\ \A i \in 1..Total : idx[i] \in Nat
  BY <1>2, SearchAssumption DEF Init, Total
<1>4. FileInv
  <2>1. \A i, j \in 1..Total : i < j => idx[i] <= idx[j]
    BY <1>3 DEF Init, Sorted, Total
  <2>2. call = "number" => \A i, j \in 1..Total : i < j => idx[i] < idx[j]
    BY DEF Init, Sorted, Total
  <2>3. Total \div 2 \in Int
    BY <1>3, HalfBounds
  <2> QED  BY <1>2, <1>3, <2>1, <2>2, <2>3 DEF FileInv, Init
<1>5. CASE pc = "missing"
  <2>1. Total = 0 \/ (call = "time" /\ idx[Total] < key)
    BY <1>5 DEF Init
  <2>2. call = "time" => \A i \in 1..Total : idx[i] < key
    <3> SUFFICES ASSUME call = "time", NEW i \in 1..Total PROVE idx[i] < key
      OBVIOUS
    <3>1. idx[i] <= idx[Total] /\ idx[i] \in Nat /\ idx[Total] \in Nat
      BY <1>3, <1>4 DEF FileInv
    <3>2. idx[Total] < key
      BY <1>3, <2>1
    <3> QED  BY <1>3, <3>1, <3>2
  <2>3. call = "number" => Total = 0
    BY <2>1
  <2> QED  BY <1>4, <1>5, <2>2, <2>3 DEF SearchInv, NumberInv, TimeInv, NumberResult, TimeResult
<1>6. CASE pc # "missing"
  <2>1. /\ pc = "search" /\ bot = 0 /\ Total > 0
        /\ call = "number" => top = Total /\ l = Total \div 2
        /\ call = "time" => top = Total - 1 /\ l = Total - 1 /\ ~(idx[Total] < key)
    BY <1>3, <1>6 DEF Init
  <2>2. call = "time" => idx[l + 1] >= key
    BY <1>3, <2>1
  <2>3. NumberInv
    BY <1>3, <2>1, HalfBounds DEF NumberInv
  <2>4. TimeInv
    BY <1>3, <2>1, <2>2 DEF TimeInv
  <2> QED  BY <1>4, <2>1, <2>3, <2>4 DEF SearchInv, NumberResult, TimeResult
<1> QED  BY <1>5, <1>6

LEMMA NumberStep ==
    ASSUME SearchInv, call = "number", pc = "search",
           NumberPastEnd \/ NumberMissing \/ NumberBelow \/ NumberAbove \/ NumberFound
    PROVE  /\ SearchInv'
           /\ pc' = "search" => top' - bot' < top - bot
<1>0. /\ Total \in Nat /\ \A i \in 1..Total : idx[i] \in Nat
      /\ FileInv /\ NumberInv
  BY DEF SearchInv, FileInv, Total
<1>1. /\ 0 <= bot /\ bot < top /\ top <= Total /\ bot <= l /\ l <= top
      /\ \A i \in 1..Total : i <= bot => idx[i] < key
      /\ \A i \in 1..Total : i > top => idx[i] > key
      /\ bot + 1 < top => bot < l /\ l < top
      /\ top < Total => idx[top + 1] > key
      /\ l = top => idx[bot + 1] < key
  BY <1>0 DEF NumberInv
<1>2. /\ bot \in Int /\ top \in Int /\ l \in Int /\ key \in Nat
      /\ \A i, j \in 1..Total : i < j => idx[i] < idx[j]
  BY <1>0 DEF FileInv
<1>3. CASE NumberPastEnd
  <2>1. l = top /\ top = Total /\ bot + 1 = Total /\ idx[bot + 1] < key
    BY <1>0, <1>1, <1>2, <1>3 DEF NumberPastEnd
  <2>2. \A i \in 1..Total : idx[i] # key
    BY <1>0, <1>1, <1>2, <2>1
  <2>3. pc' = "missing" /\ UNCHANGED <<call, idx, key, bot, top, l>> /\ Total' = Total
    BY <1>3 DEF NumberPastEnd, Total
  <2> QED  BY <1>0, <2>2, <2>3 DEF SearchInv, FileInv, NumberInv, TimeInv, NumberResult, TimeResult
<1>4. CASE NumberMissing
  <2>1. bot = top - 1 /\ idx[l + 1] # key /\ l \in {bot, top}
    BY <1>1, <1>2, <1>4 DEF NumberMissing, At
  <2>2. idx[bot + 1] # key
    BY <1>0, <1>1, <1>2, <2>1
  <2>3. \A i \in 1..Total : idx[i] # key
    BY <1>0, <1>1, <1>2, <2>1, <2>2
  <2>4. pc' = "missing" /\ UNCHANGED <<call, idx, key, bot, top, l>> /\ Total' = Total
    BY <1>4 DEF NumberMissing, Total
  <2> QED  BY <1>0, <2>3, <2>4 DEF SearchInv, FileInv, NumberInv, TimeInv, NumberResult, TimeResult
<1>5. CASE NumberBelow
  <2>1. /\ l < Total /\ bot < l /\ l < top /\ idx[l + 1] > key
        /\ top' = l /\ l' = bot + (l - bot) \div 2
        /\ UNCHANGED <<call, idx, key, pc, bot>> /\ Total' = Total
    BY <1>1, <1>2, <1>5 DEF NumberBelow, At, Total
  <2>2. \A i \in 1..Total : i > l => idx[i] > key
    <3> SUFFICES ASSUME NEW i \in 1..Total, i > l PROVE idx[i] > key
      OBVIOUS
    <3>1. l + 1 \in 1..Total /\ (i = l + 1 \/ l + 1 < i)
      BY <1>0, <1>1, <1>2, <2>1
    <3>2. idx[l + 1] <= idx[i]
      BY <1>0, <1>2, <3>1
    <3> QED  BY <1>0, <1>2, <2>1, <3>1, <3>2
  <2>3. LET h == (l - bot) \div 2
        IN  h \in Nat /\ h < l - bot /\ (l - bot > 1 => h > 0)
    <3>1. l - bot \in Nat /\ l - bot > 0
      BY <1>1, <1>2, <2>1
    <3> QED  BY <3>1, HalfBounds
  <2>4. l' \in Int /\ bot <= l' /\ l' < l /\ (bot + 1 < l => bot < l')
    BY <1>2, <2>1, <2>3
  <2>5. NumberInv'
    BY <1>0, <1>1, <1>2, <2>1, <2>2, <2>4 DEF NumberInv
  <2>6. FileInv' /\ top' - bot' < top - bot
    BY <1>0, <1>2, <2>1, <2>4 DEF FileInv
  <2> QED  BY <2>1, <2>5, <2>6 DEF SearchInv, TimeInv, NumberResult, TimeResult
<1>6. CASE NumberAbove
  <2>1. /\ l < Total /\ bot < l /\ l < top /\ idx[l + 1] < key
        /\ bot' = l /\ l' = top - (top - l) \div 2
        /\ UNCHANGED <<call, idx, key, pc, top>> /\ Total' = Total
    BY <1>1, <1>2, <1>6 DEF NumberAbove, At, Total
  <2>2. \A i \in 1..Total : i <= l => idx[i] < key
    <3> SUFFICES ASSUME NEW i \in 1..Total, i <= l PROVE idx[i] < key
      OBVIOUS
    <3>1. l + 1 \in 1..Total /\ i < l + 1
      BY <1>0, <1>1, <1>2, <2>1
    <3>2. idx[i] <= idx[l + 1]
      BY <1>0, <1>2, <3>1
    <3> QED  BY <1>0, <1>2, <2>1, <3>1, <3>2
  <2>3. LET h == (top - l) \div 2
        IN  h \in Nat /\ h < top - l /\ (top - l > 1 => h > 0)
    <3>1. top - l \in Nat /\ top - l > 0
      BY <1>1, <1>2, <2>1
    <3> QED  BY <3>1, HalfBounds
  <2>4. l' \in Int /\ l < l' /\ l' <= top /\ (l + 1 < top => l' < top)
    BY <1>2, <2>1, <2>3
  <2>5. NumberInv'
    BY <1>0, <1>1, <1>2, <2>1, <2>2, <2>4 DEF NumberInv
  <2>6. FileInv' /\ top' - bot' < top - bot
    BY <1>0, <1>2, <2>1, <2>4 DEF FileInv
  <2> QED  BY <2>1, <2>5, <2>6 DEF SearchInv, TimeInv, NumberResult, TimeResult
<1>7. CASE NumberFound
  <2>1. l \in 0..Total-1 /\ idx[l + 1] = key
    BY <1>0, <1>1, <1>2, <1>7 DEF NumberFound, At
  <2>2. pc' = "found" /\ UNCHANGED <<call, idx, key, bot, top, l>> /\ Total' = Total
    BY <1>7 DEF NumberFound, Total
  <2> QED  BY <1>0, <2>1, <2>2
           DEF SearchInv, FileInv, NumberInv, TimeInv, NumberResult, TimeResult, At
<1> QED  BY <1>3, <1>4, <1>5, <1>6, <1>7

LEMMA TimeStep ==
    ASSUME SearchInv, call = "time", pc = "search",
           TimeEarlier \/ TimeLater \/ TimeStop \/ TimeEnd
    PROVE  /\ SearchInv'
           /\ pc' = "search" => top' - bot' < top - bot
           /\ bot <= top => Middle \in 0..Total-1
<1>0. /\ Total \in Nat /\ \A i \in 1..Total : idx[i] \in Nat
      /\ FileInv /\ TimeInv
  BY DEF SearchInv, FileInv, Total
<1>1. /\ 0 <= bot /\ bot <= top + 1 /\ top < Total /\ 0 <= l /\ l < Total
      /\ \A i \in 1..Total : i <= bot => idx[i] < key
      /\ idx[l + 1] >= key
      /\ \A i \in 1..Total : i >= top + 2 => idx[i] >= key
      /\ l = top + 1 \/ (l = top /\ top = Total - 1)
  BY <1>0 DEF TimeInv
<1>2. /\ bot \in Int /\ top \in Int /\ l \in Int /\ key \in Nat
      /\ \A i, j \in 1..Total : i < j => idx[i] <= idx[j]
  BY <1>0 DEF FileInv
<1>3. ASSUME bot <= top
      PROVE  Middle \in Int /\ bot <= Middle /\ Middle <= top
  BY <1>1, <1>2, <1>3 DEF Middle
<1>4. bot <= top => Middle \in 0..Total-1
  <2> SUFFICES ASSUME bot <= top PROVE Middle \in 0..Total-1
    OBVIOUS
  <2>1. Middle \in Int /\ bot <= Middle /\ Middle <= top
    BY <1>3
  <2> HIDE DEF Middle
  <2> QED  BY <1>0, <1>1, <1>2, <2>1
<1>5. CASE TimeEarlier
  <2>1. /\ bot <= top /\ idx[Middle + 1] < key /\ bot' = Middle + 1
        /\ UNCHANGED <<call, idx, key, pc, top, l>> /\ Total' = Total
    BY <1>5 DEF TimeEarlier, At, Total
  <2>2. Middle \in Int /\ bot <= Middle /\ Middle <= top
    BY <1>3, <2>1
  <2> HIDE DEF Middle
  <2>3. \A i \in 1..Total : i <= Middle + 1 => idx[i] < key
    <3> SUFFICES ASSUME NEW i \in 1..Total, i <= Middle + 1 PROVE idx[i] < key
      OBVIOUS
    <3>1. Middle + 1 \in 1..Total /\ (i = Middle + 1 \/ i < Middle + 1)
      BY <1>0, <1>1, <1>2, <2>2
    <3>2. idx[i] <= idx[Middle + 1]
      BY <1>0, <1>2, <3>1
    <3> QED  BY <1>0, <1>2, <2>1, <3>1, <3>2
  <2>4. TimeInv'
    BY <1>0, <1>1, <1>2, <2>1, <2>2, <2>3 DEF TimeInv
  <2>5. FileInv' /\ top' - bot' < top - bot
    BY <1>0, <1>2, <2>1, <2>2 DEF FileInv
  <2> QED  BY <1>4, <2>1, <2>4, <2>5 DEF SearchInv, NumberInv, NumberResult, TimeResult
<1>6. CASE TimeLater
  <2>1. /\ bot <= top /\ idx[Middle + 1] > key /\ Middle > 0
        /\ l' = Middle /\ top' = Middle - 1
        /\ UNCHANGED <<call, idx, key, pc, bot>> /\ Total' = Total
    BY <1>6 DEF TimeLater, At, Total
  <2>2. Middle \in Int /\ bot <= Middle /\ Middle <= top
    BY <1>3, <2>1
  <2> HIDE DEF Middle
  <2>3. \A i \in 1..Total : i >= Middle + 1 => idx[i] >= key
    <3> SUFFICES ASSUME NEW i \in 1..Total, i >= Middle + 1 PROVE idx[i] >= key
      OBVIOUS
    <3>1. Middle + 1 \in 1..Total /\ (i = Middle + 1 \/ Middle + 1 < i)
      BY <1>0, <1>1, <1>2, <2>2
    <3>2. idx[Middle + 1] <= idx[i]
      BY <1>0, <1>2, <3>1
    <3> QED  BY <1>0, <1>2, <2>1, <3>1, <3>2
  <2>4. TimeInv'
    BY <1>0, <1>1, <1>2, <2>1, <2>2, <2>3 DEF TimeInv
  <2>5. FileInv' /\ top' - bot' < top - bot
    BY <1>0, <1>2, <2>1, <2>2 DEF FileInv
  <2> QED  BY <1>4, <2>1, <2>4, <2>5 DEF SearchInv, NumberInv, NumberResult, TimeResult
<1>7. CASE TimeStop
  <2>1. /\ idx[Middle + 1] = key \/ (idx[Middle + 1] > key /\ Middle = 0)
        /\ bot <= top
        /\ l' = Middle /\ pc' = "found"
        /\ UNCHANGED <<call, idx, key, bot, top>> /\ Total' = Total
    BY <1>7 DEF TimeStop, At, Total
  <2>2. Middle \in Int /\ Middle \in 0..Total-1
    BY <1>3, <1>4, <2>1
  <2> HIDE DEF Middle
  <2>3. idx[Middle + 1] >= key /\ (idx[Middle + 1] = key \/ Middle = 0)
    BY <1>0, <1>2, <2>1, <2>2
  <2>4. TimeResult'
    BY <1>0, <2>1, <2>2, <2>3 DEF TimeResult, At
  <2>5. FileInv'
    BY <1>0, <1>2, <2>1, <2>2 DEF FileInv
  <2> QED  BY <1>4, <2>1, <2>4, <2>5 DEF SearchInv, NumberInv, TimeInv, NumberResult
<1>8. CASE TimeEnd
  <2>1. /\ bot > top /\ pc' = "found"
        /\ UNCHANGED <<call, idx, key, bot, top, l>> /\ Total' = Total
    BY <1>8 DEF TimeEnd, Total
  <2>2. l = bot
    BY <1>0, <1>1, <1>2, <2>1
  <2>3. l \in 0..Total-1 /\ \A i \in 1..l : idx[i] < key
    BY <1>0, <1>1, <1>2, <2>2
  <2>4. TimeResult'
    BY <1>1, <2>1, <2>3 DEF TimeResult, At
  <2>5. FileInv'
    BY <1>0, <2>1 DEF FileInv
  <2> QED  BY <1>4, <2>1, <2>4, <2>5 DEF SearchInv, NumberInv, TimeInv, NumberResult
<1> QED  BY <1>5, <1>6, <1>7, <1>8

LEMMA StepSearchInv ==
    ASSUME SearchInv, [Next]_vars
    PROVE  /\ SearchInv'
           /\ [/\ pc' = "search" => top' - bot' < top - bot
               /\ call = "time" /\ bot <= top => Middle \in 0..Total-1]_vars
<1>1. CASE NumberPastEnd \/ NumberMissing \/ NumberBelow \/ NumberAbove \/ NumberFound
  <2>1. call = "number" /\ pc = "search"
    BY <1>1 DEF NumberPastEnd, NumberMissing, NumberBelow, NumberAbove, NumberFound
  <2> QED  BY <1>1, <2>1, NumberStep
<1>2. CASE TimeEarlier \/ TimeLater \/ TimeStop \/ TimeEnd
  <2>1. call = "time" /\ pc = "search"
    BY <1>2 DEF TimeEarlier, TimeLater, TimeStop, TimeEnd
  <2> QED  BY <1>2, <2>1, TimeStep
<1>3. CASE UNCHANGED vars
  <2> QED  BY <1>3 DEF vars, SearchInv, FileInv, NumberInv, TimeInv, NumberResult,
                       TimeResult, Total, At
<1> QED  BY <1>1, <1>2, <1>3 DEF Next

\* Both searches return the right record, or rightly none, for every index
\* file and every key.
THEOREM SearchCorrect == Spec => [](NumberResult /\ TimeResult)
<1>1. Init => SearchInv
  BY InitSearchInv
<1>2. SearchInv /\ [Next]_vars => SearchInv'
  BY StepSearchInv
<1>3. SearchInv => NumberResult /\ TimeResult
  BY DEF SearchInv
<1> QED  BY <1>1, <1>2, <1>3, PTL DEF Spec

\* Every turn of either loop leaves a smaller range, and smb_getmsgidx_by_time
\* reads inside the file: so both loops end, whatever they look for.
THEOREM SearchShrinks == Spec => RangeShrinks
<1>1. Init => SearchInv
  BY InitSearchInv
<1>2. SearchInv /\ [Next]_vars => SearchInv'
  BY StepSearchInv
<1>3. SearchInv /\ [Next]_vars =>
        [/\ pc' = "search" => top' - bot' < top - bot
         /\ call = "time" /\ bot <= top => Middle \in 0..Total-1]_vars
  BY StepSearchInv
<1> QED  BY <1>1, <1>2, <1>3, PTL DEF Spec, RangeShrinks
=============================================================================
