-------------------------- MODULE SmbStore_proofs --------------------------
(***************************************************************************)
(* Proofs about SmbStore: no readable message is in a block that counts as *)
(* free, the counts come out right when all calls have returned, and what  *)
(* readers see is the abstract message base of MsgTexts.                   *)
(*                                                                         *)
(* A message marked while a purge runs stays late until the purge sees the *)
(* mark or loses it: purges spare it, and its text is still whole.         *)
(*                                                                         *)
(* Kinds says what each process knows where it is.  StoreInv says of each  *)
(* block that is not short whose it is (a process storing or freeing it,   *)
(* or the headers of one text), that its count is what headers, fields and *)
(* forwarders claim, and that it holds the text it was allocated for.  A   *)
(* step is shown to keep Sound(b) for one block b after the other.         *)
(***************************************************************************)
EXTENDS SmbStore, FiniteSetTheorems, FunctionTheorems, WellFoundedInduction, TLAPS

-----------------------------------------------------------------------------
(* The bases these theorems are about.                                      *)

\* No layout has a tail that starts in the middle of a block and ends in the
\* next; a sender's fields do not share a block; no purge begins beside
\* headers that are not counted yet, or frees a message marked during it that
\* is being forwarded (see QuietPurge).
FirstText(lay) == [txt |-> 1, off |-> 0, lay |-> lay]

QuietBase ==
    /\ QuietPurge
    /\ \A lay \in Layouts :
         /\ Len(lay) \in {1, 2}
         /\ \A b \in Nat : b \in TextBlocks(FirstText(lay))
                             <=> \E x \in 1..Len(lay) : b \in FieldBlocks(FirstText(lay), x)
    /\ \A lay \in SendLayouts : \A b \in Nat : Fields(FirstText(lay), b) <= 1

\* No count wraps
Roomy ==
    \A p \in Proc : pc[p] = "inc" =>
        \A i \in 1..Len(sda) :
            sda[i] + (IF p \in Forwarders THEN 1 ELSE cnt[p] - 1) * Fields(msg[p], i - 1) < RefWidth

-----------------------------------------------------------------------------
(* Where the processes are, and who has what open or locked.                *)

Mails == Mailers \cup Listers

SendPlaces == {"idle", "store", "hdr", "undo", "free"}
MailPlaces == {"idle", "store", "rcpt", "inc", "free"}
ListPlaces == {"idle", "store", "rcpt", "inc_open", "inc"}
ForwardPlaces == {"idle", "fwd", "inc", "fwd_hdr", "undo", "free"}
PurgePlaces == {"idle", "pg_open", "pg_scan", "pg_free"}
InPurge == {"pg_scan", "pg_free"}
NoTextYet == {"idle", "store", "pg_open", "pg_scan"}
FirstField == {"idle", "store", "hdr", "rcpt", "inc_open", "inc", "fwd", "fwd_hdr"}

TextsOf == [txt : Nat, off : Nat, lay : Layouts]
HdrsOf == [num : Nat, txt : Nat, off : Nat, lay : Layouts, marked : BOOLEAN]
TextOf(h) == [txt |-> h.txt, off |-> h.off, lay |-> h.lay]

Types ==
    /\ pc = [p \in Proc |-> pc[p]]
    /\ sda \in Seq(Nat) /\ sdt \in Seq(Nat \X Nat) /\ Len(sdt) = Len(sda)
    /\ last \in Nat /\ texts \in Nat /\ texts <= MaxTexts
    /\ hdrs \subseteq HdrsOf /\ IsFiniteSet(hdrs)
    /\ msg \in [Proc -> TextsOf \cup {NoText}]
    /\ fld \in [Proc -> {1, 2}] /\ cnt \in [Proc -> Nat]
    /\ haLock \in Purgers \cup {None}

Numbers ==
    /\ \A h \in hdrs : h.num <= last /\ h.txt \in 1..texts
    /\ \A g, h \in hdrs : g.num = h.num => g = h
    /\ late \subseteq 0..last /\ \A h \in hdrs : h.num \in late => h.marked

Place(p) ==
    /\ p \in Senders => pc[p] \in SendPlaces
    /\ p \in Mailers => pc[p] \in MailPlaces
    /\ p \in Listers => pc[p] \in ListPlaces
    /\ p \in Forwarders => pc[p] \in ForwardPlaces
    /\ p \in Purgers => pc[p] \in PurgePlaces

Owned(p) ==
    /\ pc[p] \in {"store", "hdr", "pg_open"} => hdrLock = p
    /\ pc[p] \in {"inc", "free", "pg_scan", "pg_free"} => daLock = p
    /\ pc[p] \in InPurge => haLock = p
    /\ haLock = p => pc[p] \in InPurge
    /\ pc[p] = "store" => texts < MaxTexts

\* What a purge finds idle when it begins, and what it keeps from beginning
BesideOpen(p, l) ==
    /\ p \in Mails => l = "idle"
    /\ p \in Forwarders => l \in {"idle", "fwd", "inc"}

BesidePurge(p, l) ==
    /\ p \in Mails => l \in {"idle", "store"}
    /\ p \in Forwarders => l \in {"idle", "fwd"}
    /\ p \in Senders => l # "hdr"

Still(q) ==
    /\ pc[q] = "pg_open" => \A p \in Proc : BesideOpen(p, pc[p])
    /\ pc[q] \in InPurge => \A p \in Proc : BesidePurge(p, pc[p])

\* No purge frees what it has: it is not marked, or the mark has not been seen
Spared(h) == h.marked => h.num \in late

\* What the process holds is the text of a message
Known(p) ==
    /\ pc[p] \in FirstField => fld[p] = 1
    /\ pc[p] \notin NoTextYet =>
         msg[p] \in TextsOf /\ fld[p] \in 1..Len(msg[p].lay) /\ msg[p].txt \in 1..texts
    /\ p \in Senders /\ pc[p] \notin NoTextYet => msg[p].lay \in SendLayouts
    /\ p \notin Purgers /\ (p \in Senders \/ p \in Forwarders \/ pc[p] \in {"idle", "store", "free"}) => cnt[p] = 0
    /\ p \in Mails /\ pc[p] \in {"inc_open", "inc"} => cnt[p] > 1
    /\ p \in Forwarders /\ pc[p] # "idle" =>
         /\ \E h \in hdrs : TextOf(h) = msg[p]
         /\ (\E q \in Purgers : pc[q] # "idle") => \E h \in hdrs : TextOf(h) = msg[p] /\ Spared(h)
    /\ pc[p] = "pg_free" => \E h \in hdrs : h.num = cnt[p] /\ ~Spared(h) /\ TextOf(h) = msg[p]

Kinds == Types /\ Numbers /\ \A p \in Proc : Place(p) /\ Owned(p) /\ Still(p) /\ Known(p)

-----------------------------------------------------------------------------
(* Claims on a block.                                                       *)

Uncounted(p) == p \in Mails /\ pc[p] \in {"rcpt", "inc_open", "inc"}
Handing(p) == p \in Forwarders /\ pc[p] \in {"fwd_hdr", "undo", "free"}

\* p alone answers for block b, or for it and the headers it has added
Owns(p, b) ==
    \/ Uncounted(p) /\ b \in TextBlocks(msg[p])
    \/ p \in Senders /\ pc[p] \in {"hdr", "undo", "free"} /\ b \in Unfreed(p)
    \/ p \in Mailers /\ pc[p] = "free" /\ b \in Unfreed(p)

\* References a forwarder has added and not yet given a header or back
Hands(b) == {u \in Forwarders \X {1, 2} :
                /\ Handing(u[1]) /\ u[2] \in fld[u[1]]..Len(msg[u[1]].lay)
                /\ b \in FieldBlocks(msg[u[1]], u[2])}

\* The count of block b in file s: none past its end
RefsIn(s, b) == IF b < Len(s) THEN s[b + 1] ELSE 0

\* A purge has freed one field of two that have block b
Gone(b) == IF \E q \in Purgers : pc[q] = "pg_free" /\ fld[q] = 2 /\ b \in FieldBlocks(msg[q], 1)
           THEN 1 ELSE 0

Refs(b) == RefsIn(sda, b)
Claims(b) == Uses(Headers(b), b) + Cardinality(Hands(b))

\* The claims on a block agree
Agree(b) ==
    /\ \A g, h \in Headers(b) : TextOf(g) = TextOf(h)
    /\ \A p \in Proc : Owns(p, b) =>
         /\ \A q \in Proc : Owns(q, b) => q = p
         /\ \A h \in Headers(b) : TextOf(h) = msg[p] /\ cnt[p] > 0

\* Its count is what they come to
Counted(b) ==
    /\ IsFiniteSet(Hands(b))
    /\ (\A p \in Proc : ~Owns(p, b)) => \A h \in Headers(b) :
         LET n == Refs(b) + Gone(b) + Fields(h, b) - 1
         IN  n >= Claims(b) /\ (b \notin leaked => n = Claims(b))
    /\ \A p \in Mails : Uncounted(p) /\ Owns(p, b) =>
         LET n == Refs(b) + cnt[p] * Fields(msg[p], b) - 1
         IN  n >= Claims(b) /\ (b \notin leaked => n = Claims(b)) /\ Refs(b) > Cardinality(Hands(b))
    /\ \A p \in Senders : Owns(p, b) => Refs(b) >= 1 /\ (b \notin leaked => Refs(b) = 1)
    /\ Headers(b) = {} /\ (\A p \in Proc : ~Owns(p, b)) => b \in leaked \/ Refs(b) = 0

\* and it holds what it was allocated for.
Filled(b, m) == Refs(b) > 0 => sdt[b + 1] = <<m.txt, b - m.off>>

Contents(b) ==
    /\ \A h \in Headers(b) : Filled(b, h)
    /\ \A p \in Proc : Owns(p, b) => Filled(b, msg[p])

Sound(b) == Agree(b) /\ Counted(b) /\ Contents(b)

StoreInv == \A b \in Nat \ short : Sound(b)

-----------------------------------------------------------------------------
(* Lengths and blocks.                                                      *)

LEMMA DivNat ==
  ASSUME NEW a \in Nat, NEW n \in Nat \ {0}
  PROVE  a \div n \in Nat /\ (a >= n => a \div n >= 1)
  OBVIOUS

\* Something of a positive length has at least a block.
LEMMA SomeBlocks ==
  ASSUME NEW len \in Nat \ {0}
  PROVE  DatBlocks(len) \in Nat \ {0}
  <1>1. len + BlockLen - 1 \in Nat /\ len + BlockLen - 1 >= BlockLen /\ BlockLen \in Nat \ {0}
    BY SmbStoreAssumption
  <1>2. PICK a \in Nat : a = len + BlockLen - 1
    BY <1>1
  <1>3. a \div BlockLen \in Nat /\ a \div BlockLen >= 1
    BY <1>1, <1>2, DivNat
  <1> QED
    BY <1>2, <1>3 DEF DatBlocks

LEMMA OneOrTwo ==
  ASSUME NEW n \in {1, 2}
  PROVE  1..n \subseteq {1, 2} /\ 1 \in 1..n /\ n \in 1..n
  <1>1. CASE n = 1
    BY <1>1
  <1>2. CASE n = 2
    BY <1>2
  <1> QED
    BY <1>1, <1>2

\* A layout of a quiet base has one or two fields, of some length each.
LEMMA TwoFields ==
  ASSUME QuietBase, NEW lay \in Layouts
  PROVE  /\ lay \in Seq(Nat \ {0}) /\ Len(lay) \in {1, 2}
         /\ \A x \in 1..Len(lay) : x \in {1, 2} /\ lay[x] \in Nat \ {0} /\ FieldStart(lay, x) \in Nat
         /\ TextLen(lay) \in Nat \ {0}
  <1>1. lay \in Seq(Nat \ {0}) /\ Len(lay) \in {1, 2}
    BY SmbStoreAssumption DEF QuietBase
  <1>3. 1 \in 1..Len(lay) /\ Len(lay) \in 1..Len(lay) /\ 1..Len(lay) \subseteq {1, 2}
    BY <1>1, OneOrTwo
  <1>a. \A x \in 1..Len(lay) : lay[x] \in Nat \ {0}
    BY <1>1
  <1>b. lay[1] \in Nat \ {0}
    BY <1>3, <1>a
  <1>2. \A x \in 1..Len(lay) : x \in {1, 2} /\ lay[x] \in Nat \ {0} /\ FieldStart(lay, x) \in Nat
    BY <1>3, <1>a, <1>b DEF FieldStart
  <1>4. FieldStart(lay, Len(lay)) \in Nat /\ lay[Len(lay)] \in Nat \ {0}
    BY <1>2, <1>3
  <1> QED
    BY <1>1, <1>2, <1>4 DEF TextLen

\* The blocks of a text and of its fields are intervals ...
LEMMA TextInterval ==
  ASSUME QuietBase, NEW m, m.off \in Nat, m.lay \in Layouts
  PROVE  \E g \in Nat : m.off <= g /\ TextBlocks(m) = m.off..g
  <1>1. TextLen(m.lay) \in Nat \ {0}
    BY TwoFields
  <1>2. PICK n \in Nat \ {0} : n = DatBlocks(TextLen(m.lay))
    BY <1>1, SomeBlocks
  <1>3. m.off + n - 1 \in Nat /\ m.off <= m.off + n - 1
    BY <1>2
  <1> QED
    BY <1>2, <1>3 DEF TextBlocks

LEMMA FieldInterval ==
  ASSUME QuietBase, NEW m, m.off \in Nat, m.lay \in Layouts, NEW x \in 1..Len(m.lay)
  PROVE  \E f, g \in Nat : m.off <= f /\ f <= g /\ FieldBlocks(m, x) = f..g
  <1>1. m.lay[x] \in Nat \ {0} /\ FieldStart(m.lay, x) \in Nat
    BY TwoFields
  <1>2. PICK n \in Nat \ {0} : n = DatBlocks(m.lay[x])
    BY <1>1, SomeBlocks
  <1>3. PICK d \in Nat : d = FieldStart(m.lay, x) \div BlockLen
    BY <1>1, DivNat, SmbStoreAssumption
  <1>4. FieldBlocks(m, x) = m.off + d..m.off + d + n - 1
    BY <1>2, <1>3 DEF FieldBlocks
  <1>5. m.off + d \in Nat /\ m.off + d + n - 1 \in Nat /\ m.off <= m.off + d /\ m.off + d <= m.off + d + n - 1
    BY <1>2, <1>3
  <1> QED
    BY <1>4, <1>5

\* ... and lie where they would in a text at the beginning, but further on.
LEMMA TextShift ==
  ASSUME QuietBase, NEW m, m.off \in Nat, m.lay \in Layouts, NEW b \in Nat
  PROVE  b \in TextBlocks(m) <=> b >= m.off /\ b - m.off \in TextBlocks(FirstText(m.lay))
  <1>1. TextLen(m.lay) \in Nat \ {0}
    BY TwoFields
  <1>2. PICK n \in Nat \ {0} : n = DatBlocks(TextLen(m.lay))
    BY <1>1, SomeBlocks
  <1>3. TextBlocks(m) = m.off..m.off + n - 1
    BY <1>2 DEF TextBlocks
  <1>4. TextBlocks(FirstText(m.lay)) = 0..0 + n - 1
    BY <1>2 DEF TextBlocks, FirstText
  <1> QED
    BY <1>3, <1>4

LEMMA FieldShift ==
  ASSUME QuietBase, NEW m, m.off \in Nat, m.lay \in Layouts, NEW b \in Nat, NEW x \in 1..Len(m.lay)
  PROVE  b \in FieldBlocks(m, x) <=> b >= m.off /\ b - m.off \in FieldBlocks(FirstText(m.lay), x)
  <1>1. m.lay[x] \in Nat \ {0} /\ FieldStart(m.lay, x) \in Nat
    BY TwoFields
  <1>2. PICK n \in Nat \ {0} : n = DatBlocks(m.lay[x])
    BY <1>1, SomeBlocks
  <1>3. PICK d \in Nat : d = FieldStart(m.lay, x) \div BlockLen
    BY <1>1, DivNat, SmbStoreAssumption
  <1>4. FieldBlocks(m, x) = m.off + d..m.off + d + n - 1
    BY <1>2, <1>3 DEF FieldBlocks
  <1>5. FieldBlocks(FirstText(m.lay), x) = 0 + d..0 + d + n - 1
    BY <1>2, <1>3 DEF FieldBlocks, FirstText
  <1> QED
    BY <1>3, <1>4, <1>5

\* A block is a text's when it is one of its fields'.
LEMMA TextOrField ==
  ASSUME QuietBase, NEW m, m.off \in Nat, m.lay \in Layouts, NEW b \in Nat
  PROVE  b \in TextBlocks(m) <=> \E x \in 1..Len(m.lay) : b \in FieldBlocks(m, x)
  <1>1. CASE b < m.off
    BY <1>1, TextShift, FieldShift
  <1>2. CASE b >= m.off
    <2>1. PICK c \in Nat : c = b - m.off
      BY <1>2
    <2>2. c \in TextBlocks(FirstText(m.lay)) <=> \E x \in 1..Len(m.lay) : c \in FieldBlocks(FirstText(m.lay), x)
      BY DEF QuietBase
    <2>3. b \in TextBlocks(m) <=> c \in TextBlocks(FirstText(m.lay))
      BY <1>2, <2>1, TextShift
    <2>4. \A x \in 1..Len(m.lay) : b \in FieldBlocks(m, x) <=> c \in FieldBlocks(FirstText(m.lay), x)
      BY <1>2, <2>1, FieldShift
    <2> QED
      BY <2>2, <2>3, <2>4
  <1> QED
    BY <1>1, <1>2

LEMMA BlocksAreNat ==
  ASSUME QuietBase, NEW m, m.off \in Nat, m.lay \in Layouts
  PROVE  /\ TextBlocks(m) \subseteq Nat
         /\ \A x \in 1..Len(m.lay) : FieldBlocks(m, x) \subseteq TextBlocks(m)
  <1>1. TextBlocks(m) \subseteq Nat
    BY TextInterval
  <1>2. ASSUME NEW x \in 1..Len(m.lay) PROVE FieldBlocks(m, x) \subseteq TextBlocks(m)
    <2>1. FieldBlocks(m, x) \subseteq Nat
      BY FieldInterval
    <2> QED
      BY <2>1, TextOrField
  <1> QED
    BY <1>1, <1>2

-----------------------------------------------------------------------------
(* Fields that have a block.                                                *)

\* Field x of m has block b: once, or not at all
In(m, x, b) == IF x <= Len(m.lay) /\ b \in FieldBlocks(m, x) THEN 1 ELSE 0

LEMMA InTwo ==
  ASSUME QuietBase, NEW m, m.off \in Nat, m.lay \in Layouts, NEW b \in Nat
  PROVE  /\ Fields(m, b) = In(m, 1, b) + In(m, 2, b)
         /\ In(m, 1, b) \in {0, 1} /\ In(m, 2, b) \in {0, 1}
         /\ b \in TextBlocks(m) <=> Fields(m, b) \in {1, 2}
         /\ b \notin TextBlocks(m) <=> Fields(m, b) = 0
         /\ Len(m.lay) = 1 => In(m, 2, b) = 0
         /\ \A x \in {1, 2} : In(m, x, b) = 1 <=> x \in 1..Len(m.lay) /\ b \in FieldBlocks(m, x)
  <1>1. Len(m.lay) \in {1, 2} /\ 1..Len(m.lay) \subseteq {1, 2}
    BY TwoFields, OneOrTwo
  <1>0. \A x \in {1, 2} : x \in 1..Len(m.lay) <=> x <= Len(m.lay)
    <2>1. CASE Len(m.lay) = 1
      BY <2>1
    <2>2. CASE Len(m.lay) = 2
      BY <2>2
    <2> QED
      BY <1>1, <2>1, <2>2
  <1> DEFINE S == {x \in 1..Len(m.lay) : b \in FieldBlocks(m, x)}
  <1>2. Fields(m, b) = Cardinality(S)
    BY DEF Fields
  <1>3. S = (IF In(m, 1, b) = 1 THEN {1} ELSE {}) \cup (IF In(m, 2, b) = 1 THEN {2} ELSE {})
    <2>1. ASSUME NEW x PROVE x \in S <=> (x = 1 /\ In(m, 1, b) = 1) \/ (x = 2 /\ In(m, 2, b) = 1)
      <3>1. CASE x \notin {1, 2}
        BY <1>1, <3>1
      <3>2. CASE x = 1
        BY <1>0, <3>2 DEF In
      <3>3. CASE x = 2
        BY <1>0, <3>3 DEF In
      <3> QED
        BY <3>1, <3>2, <3>3
    <2> QED
      BY <2>1
  <1>4. In(m, 1, b) \in {0, 1} /\ In(m, 2, b) \in {0, 1}
    BY DEF In
  <1>5. Cardinality({}) = 0 /\ Cardinality({1}) = 1 /\ Cardinality({2}) = 1
    BY FS_EmptySet, FS_Singleton
  <1>6. Cardinality({1, 2}) = 2
    <2>a. IsFiniteSet({1})
      BY FS_Singleton
    <2>1. 2 \notin {1} /\ {1, 2} = {1} \cup {2}
      OBVIOUS
    <2>2. Cardinality({1} \cup {2}) = Cardinality({1}) + 1
      BY <2>a, <2>1, FS_AddElement
    <2> QED
      BY <1>5, <2>1, <2>2
  <1> HIDE DEF S
  <1>7. Fields(m, b) = In(m, 1, b) + In(m, 2, b)
    <2>1. CASE In(m, 1, b) = 0 /\ In(m, 2, b) = 0
      <3>1. S = {}
        BY <2>1, <1>3
      <3> QED
        BY <2>1, <3>1, <1>2, <1>5
    <2>2. CASE In(m, 1, b) = 1 /\ In(m, 2, b) = 0
      <3>1. S = {1}
        BY <2>2, <1>3
      <3> QED
        BY <2>2, <3>1, <1>2, <1>5
    <2>3. CASE In(m, 1, b) = 0 /\ In(m, 2, b) = 1
      <3>1. S = {2}
        BY <2>3, <1>3
      <3> QED
        BY <2>3, <3>1, <1>2, <1>5
    <2>4. CASE In(m, 1, b) = 1 /\ In(m, 2, b) = 1
      <3>1. S = {1, 2}
        BY <2>4, <1>3
      <3> QED
        BY <2>4, <3>1, <1>2, <1>6
    <2> QED
      BY <1>4, <2>1, <2>2, <2>3, <2>4
  <1>8. \A x \in {1, 2} : In(m, x, b) = 1 <=> x \in 1..Len(m.lay) /\ b \in FieldBlocks(m, x)
    BY <1>0 DEF In
  <1>9. b \in TextBlocks(m) <=> In(m, 1, b) = 1 \/ In(m, 2, b) = 1
    <2>1. b \in TextBlocks(m) <=> \E x \in 1..Len(m.lay) : b \in FieldBlocks(m, x)
      BY TextOrField
    <2>2. \A x \in 1..Len(m.lay) : x \in {1, 2}
      BY <1>1
    <2> QED
      BY <1>8, <2>1, <2>2
  <1>10. Len(m.lay) = 1 => In(m, 2, b) = 0
    BY DEF In
  <1> QED
    BY <1>4, <1>7, <1>8, <1>9, <1>10

\* A sender's fields share no block.
LEMMA SendersShareNone ==
  ASSUME QuietBase, NEW m, m.off \in Nat, m.lay \in SendLayouts, NEW b \in Nat
  PROVE  Fields(m, b) <= 1
  <1>1. m.lay \in Layouts
    BY DEF Layouts
  <1>2. CASE b < m.off
    <2>1. \A x \in 1..Len(m.lay) : b \notin FieldBlocks(m, x)
      BY <1>1, <1>2, FieldShift
    <2>2. b \notin TextBlocks(m)
      BY <1>1, <2>1, TextOrField
    <2> QED
      BY <1>1, <2>2, InTwo
  <1>3. CASE b >= m.off
    <2>1. PICK c \in Nat : c = b - m.off
      BY <1>3
    <2>2. \A x \in 1..Len(m.lay) : b \in FieldBlocks(m, x) <=> c \in FieldBlocks(FirstText(m.lay), x)
      BY <1>1, <1>3, <2>1, FieldShift
    <2>3. FirstText(m.lay).lay = m.lay
      BY DEF FirstText
    <2>4. Fields(m, b) = Fields(FirstText(m.lay), c)
      BY <2>2, <2>3 DEF Fields
    <2> QED
      BY <2>4 DEF QuietBase
  <1> QED
    BY <1>2, <1>3

-----------------------------------------------------------------------------
(* Counting.                                                                *)

LEMMA AddedOne ==
  ASSUME NEW S, IsFiniteSet(S), NEW e, e \notin S, NEW P \in BOOLEAN
  PROVE  /\ IsFiniteSet(S \cup (IF P THEN {e} ELSE {}))
         /\ Cardinality(S \cup (IF P THEN {e} ELSE {})) = Cardinality(S) + (IF P THEN 1 ELSE 0)
         /\ Cardinality(S) \in Nat
  <1>0. Cardinality(S) \in Nat
    BY FS_CardinalityType
  <1>1. CASE P
    <2>1. S \cup (IF P THEN {e} ELSE {}) = S \cup {e}
      BY <1>1
    <2>2. IsFiniteSet(S \cup {e}) /\ Cardinality(S \cup {e}) = Cardinality(S) + 1
      BY FS_AddElement
    <2> QED
      BY <1>0, <1>1, <2>1, <2>2
  <1>2. CASE ~P
    <2>1. S \cup (IF P THEN {e} ELSE {}) = S
      BY <1>2
    <2> QED
      BY <1>0, <1>2, <2>1
  <1> QED
    BY <1>1, <1>2

\* A finite set with and without two elements
LEMMA TwoOf ==
  ASSUME NEW S, IsFiniteSet(S), NEW d, NEW e, d # e
  PROVE  /\ IsFiniteSet(S \ {d, e}) /\ Cardinality(S \ {d, e}) \in Nat /\ Cardinality(S) \in Nat
         /\ Cardinality(S) = Cardinality(S \ {d, e}) + (IF d \in S THEN 1 ELSE 0) + (IF e \in S THEN 1 ELSE 0)
  <1> DEFINE V == S \ {d, e}
             U == V \cup (IF d \in S THEN {d} ELSE {})
  <1>1. IsFiniteSet(V) /\ Cardinality(V) \in Nat
    BY FS_Subset, FS_CardinalityType
  <1>2. d \notin V /\ (d \in S) \in BOOLEAN
    OBVIOUS
  <1>3. e \notin U /\ (e \in S) \in BOOLEAN
    OBVIOUS
  <1>4. S = U \cup (IF e \in S THEN {e} ELSE {})
    OBVIOUS
  <1>5. IsFiniteSet(U) /\ Cardinality(U) = Cardinality(V) + (IF d \in S THEN 1 ELSE 0)
    <2> HIDE DEF V
    <2> QED
      BY <1>1, <1>2, AddedOne
  <1>6. Cardinality(U \cup (IF e \in S THEN {e} ELSE {})) = Cardinality(U) + (IF e \in S THEN 1 ELSE 0)
    <2> HIDE DEF V, U
    <2> QED
      BY <1>3, <1>5, AddedOne
  <1>7. Cardinality(S) \in Nat
    BY FS_CardinalityType
  <1>8. Cardinality(S) = Cardinality(U) + (IF e \in S THEN 1 ELSE 0)
    <2> HIDE DEF V, U
    <2> QED
      BY <1>4, <1>6
  <1>9. PICK t \in {Cardinality(V)}, u \in {Cardinality(U)}, c \in {Cardinality(S)} : TRUE
    OBVIOUS
  <1>10. t \in Nat /\ u = t + (IF d \in S THEN 1 ELSE 0) /\ c = u + (IF e \in S THEN 1 ELSE 0)
    <2> HIDE DEF V, U
    <2> QED
      BY <1>1, <1>5, <1>8, <1>9
  <1>11. c = t + (IF d \in S THEN 1 ELSE 0) + (IF e \in S THEN 1 ELSE 0)
    BY <1>10
  <1> QED
    BY <1>1, <1>7, <1>9, <1>11

\* Headers that point to texts
Pointers(H) == IsFiniteSet(H) /\ \A h \in H : h.off \in Nat /\ h.lay \in Layouts

LEMMA UsesNone == \A b : Uses({}, b) = 0
  <1>1. \A b : {u \in {} \X {1, 2} : u[2] <= Len(u[1].lay) /\ b \in FieldBlocks(u[1], u[2])} = {}
    OBVIOUS
  <1> QED
    BY <1>1, FS_EmptySet DEF Uses

\* One more header
LEMMA UsesAdded ==
  ASSUME QuietBase, NEW H, Pointers(H), NEW h, h \notin H, h.off \in Nat, h.lay \in Layouts, NEW b \in Nat
  PROVE  /\ Uses(H, b) \in Nat
         /\ Uses(H \cup {h}, b) = Uses(H, b) + Fields(h, b)
  <1> DEFINE Has(u) == u[2] <= Len(u[1].lay) /\ b \in FieldBlocks(u[1], u[2])
             D == {u \in H \X {1, 2} : Has(u)}
             E == {u \in (H \cup {h}) \X {1, 2} : Has(u)}
  <1>1. IsFiniteSet(H \X {1, 2}) /\ IsFiniteSet((H \cup {h}) \X {1, 2})
    <2>1. IsFiniteSet(H \cup {h})
      BY FS_AddElement DEF Pointers
    <2>2. IsFiniteSet({1, 2})
      <3>1. IsFiniteSet({1})
        BY FS_Singleton
      <3>2. IsFiniteSet({1} \cup {2})
        BY <3>1, FS_AddElement
      <3>3. {1, 2} = {1} \cup {2}
        OBVIOUS
      <3> QED
        BY <3>2, <3>3
    <2> QED
      BY <2>1, <2>2, FS_Product DEF Pointers
  <1>2. IsFiniteSet(D) /\ IsFiniteSet(E)
    <2>1. D \subseteq H \X {1, 2} /\ E \subseteq (H \cup {h}) \X {1, 2}
      OBVIOUS
    <2> HIDE DEF D, E
    <2> QED
      BY <1>1, <2>1, FS_Subset
  <1>3. <<h, 1>> # <<h, 2>>
    OBVIOUS
  <1>4. D = E \ {<<h, 1>>, <<h, 2>>}
    <2>1. ASSUME NEW g \in H \cup {h}, NEW x \in {1, 2}
          PROVE  <<g, x>> \in D <=> <<g, x>> \in E /\ g # h
      <3>1. CASE g = h
        BY <3>1
      <3>2. CASE g # h
        BY <3>2
      <3> QED
        BY <3>1, <3>2
    <2>2. D \subseteq (H \cup {h}) \X {1, 2} /\ E \subseteq (H \cup {h}) \X {1, 2}
      OBVIOUS
    <2> HIDE DEF D, E
    <2>3. ASSUME NEW u \in (H \cup {h}) \X {1, 2}
          PROVE  u \in D <=> u \in E \ {<<h, 1>>, <<h, 2>>}
      <3>1. PICK g \in H \cup {h}, x \in {1, 2} : u = <<g, x>>
        OBVIOUS
      <3>2. u \notin {<<h, 1>>, <<h, 2>>} <=> g # h
        BY <3>1
      <3> QED
        BY <2>1, <3>1, <3>2
    <2> QED
      BY <2>2, <2>3
  <1>5. \A x \in {1, 2} : <<h, x>> \in E <=> In(h, x, b) = 1
    BY DEF In
  <1>6. /\ Cardinality(D) \in Nat
        /\ Cardinality(E) = Cardinality(D) + (IF <<h, 1>> \in E THEN 1 ELSE 0) + (IF <<h, 2>> \in E THEN 1 ELSE 0)
    <2>1. /\ Cardinality(E \ {<<h, 1>>, <<h, 2>>}) \in Nat
          /\ Cardinality(E) = Cardinality(E \ {<<h, 1>>, <<h, 2>>})
                                + (IF <<h, 1>> \in E THEN 1 ELSE 0) + (IF <<h, 2>> \in E THEN 1 ELSE 0)
      <3> HIDE DEF D, E
      <3>1. PICK d \in {<<h, 1>>}, e \in {<<h, 2>>} : TRUE
        OBVIOUS
      <3>2. d # e
        BY <1>3, <3>1
      <3>3. /\ Cardinality(E \ {d, e}) \in Nat
            /\ Cardinality(E) = Cardinality(E \ {d, e}) + (IF d \in E THEN 1 ELSE 0) + (IF e \in E THEN 1 ELSE 0)
        BY <1>2, <3>2, TwoOf
      <3>4. d = <<h, 1>> /\ e = <<h, 2>>
        BY <3>1
      <3> QED
        BY <3>3, <3>4
    <2> HIDE DEF D, E
    <2> QED
      BY <1>4, <2>1
  <1>7. Uses(H, b) = Cardinality(D) /\ Uses(H \cup {h}, b) = Cardinality(E)
    BY DEF Uses
  <1>8. (IF <<h, 1>> \in E THEN 1 ELSE 0) = In(h, 1, b) /\ (IF <<h, 2>> \in E THEN 1 ELSE 0) = In(h, 2, b)
    <2>1. In(h, 1, b) \in {0, 1} /\ In(h, 2, b) \in {0, 1}
      BY DEF In
    <2> HIDE DEF E
    <2> QED
      BY <1>5, <2>1
  <1> HIDE DEF D, E
  <1>9. Fields(h, b) = In(h, 1, b) + In(h, 2, b)
    BY InTwo
  <1>10. In(h, 1, b) \in Nat /\ In(h, 2, b) \in Nat
    BY DEF In
  <1> QED
    BY <1>6, <1>7, <1>8, <1>9, <1>10

LEMMA UsesNat ==
  ASSUME QuietBase, NEW H, Pointers(H), NEW b \in Nat
  PROVE  Uses(H, b) \in Nat
  <1>1. CASE H = {}
    BY <1>1, UsesNone
  <1>2. CASE H # {}
    <2>1. PICK h \in H : TRUE
      BY <1>2
    <2>2. Pointers(H \ {h}) /\ h \notin H \ {h} /\ h.off \in Nat /\ h.lay \in Layouts /\ H = (H \ {h}) \cup {h}
      BY FS_RemoveElement DEF Pointers
    <2>3. Uses(H \ {h}, b) \in Nat /\ Uses((H \ {h}) \cup {h}, b) = Uses(H \ {h}, b) + Fields(h, b)
      BY <2>2, UsesAdded
    <2>4. Fields(h, b) \in {0, 1, 2}
      BY <2>2, InTwo
    <2> QED
      BY <2>2, <2>3, <2>4
  <1> QED
    BY <1>1, <1>2

\* One header less
LEMMA UsesRemoved ==
  ASSUME QuietBase, NEW H, Pointers(H), NEW h \in H, NEW b \in Nat
  PROVE  /\ Uses(H \ {h}, b) \in Nat
         /\ Uses(H, b) = Uses(H \ {h}, b) + Fields(h, b)
  <1>1. Pointers(H \ {h}) /\ h \notin H \ {h} /\ h.off \in Nat /\ h.lay \in Layouts /\ H = (H \ {h}) \cup {h}
    BY FS_RemoveElement DEF Pointers
  <1> QED
    BY <1>1, UsesAdded

LEMMA UsesTwo ==
  ASSUME QuietBase, NEW H, Pointers(H), NEW g \in H, NEW h \in H, g # h, NEW b \in Nat
  PROVE  Uses(H, b) >= Fields(g, b) + Fields(h, b)
  <1>1. Pointers(H \ {h}) /\ g \in H \ {h}
    BY FS_RemoveElement DEF Pointers
  <1>2. Uses(H \ {h}, b) \in Nat /\ Uses(H, b) = Uses(H \ {h}, b) + Fields(h, b)
    BY UsesRemoved
  <1>3. Uses((H \ {h}) \ {g}, b) \in Nat /\ Uses(H \ {h}, b) = Uses((H \ {h}) \ {g}, b) + Fields(g, b)
    BY <1>1, UsesRemoved
  <1>4. Fields(g, b) \in {0, 1, 2} /\ Fields(h, b) \in {0, 1, 2}
    BY InTwo DEF Pointers
  <1> QED
    BY <1>2, <1>3, <1>4

-----------------------------------------------------------------------------
(* What the operations do to the counts and the blocks.                     *)

LEMMA LeastNat ==
  ASSUME NEW S \in SUBSET Nat, S # {}
  PROVE  Least(S) \in S /\ \A y \in S : Least(S) <= y
  <1> DEFINE Less == {ss \in Nat \X Nat : ss[1] < ss[2]}
  <1>1. IsWellFoundedOn(Less, Nat)
    BY NatLessThanWellFounded DEF OpToRel
  <1>2. PICK n \in S : \A m \in S : <<m, n>> \notin Less
    <2> HIDE DEF Less
    <2> QED
      BY <1>1, WFMin
  <1>3. ASSUME NEW m \in S PROVE n <= m
    <2>1. n \in Nat /\ m \in Nat
      OBVIOUS
    <2>2. ~(m < n)
      BY <1>2, <2>1
    <2> QED
      BY <2>1, <2>2
  <1>4. \E x \in S : \A y \in S : x <= y
    BY <1>3
  <1> QED
    BY <1>4 DEF Least

LEMMA GreatestNat ==
  ASSUME NEW S \in SUBSET Nat, S # {}, NEW n \in Nat, \A x \in S : x <= n
  PROVE  Greatest(S) \in S /\ \A y \in S : y <= Greatest(S)
  <1> DEFINE R == {i \in Nat : \A x \in S : x <= i}
  <1>1. R \subseteq Nat /\ R # {}
    OBVIOUS
  <1>2. PICK l \in Nat : l \in R /\ \A y \in R : l <= y
    <2> HIDE DEF R
    <2> QED
      BY <1>1, LeastNat
  <1>3. l \in S
    <2> SUFFICES ASSUME l \notin S PROVE FALSE
      OBVIOUS
    <2>1. ASSUME NEW x \in S PROVE x <= l - 1
      <3>1. x <= l /\ x # l /\ x \in Nat
        BY <1>2
      <3> QED
        BY <3>1
    <2>2. l # 0
      <3>1. PICK x \in S : x \in Nat
        OBVIOUS
      <3> QED
        BY <2>1, <3>1
    <2>3. l - 1 \in R
      BY <2>1, <2>2
    <2> QED
      BY <1>2, <2>3
  <1>4. \E x \in S : \A y \in S : y <= x
    BY <1>2, <1>3
  <1> QED
    BY <1>4 DEF Greatest

LEMMA Ends ==
  ASSUME NEW f \in Nat, NEW g \in Nat, f <= g
  PROVE  Least(f..g) = f /\ Greatest(f..g) = g
  <1>1. f..g \in SUBSET Nat /\ f..g # {} /\ \A x \in f..g : x <= g
    OBVIOUS
  <1>2. Least(f..g) \in f..g /\ \A y \in f..g : Least(f..g) <= y
    BY <1>1, LeastNat
  <1>3. Greatest(f..g) \in f..g /\ \A y \in f..g : y <= Greatest(f..g)
    BY <1>1, GreatestNat
  <1>4. f \in f..g /\ g \in f..g
    OBVIOUS
  <1>5. Least(f..g) <= f /\ g <= Greatest(f..g)
    BY <1>2, <1>3, <1>4
  <1>6. \A x \in f..g : x \in Nat /\ f <= x /\ x <= g
    OBVIOUS
  <1> QED
    BY <1>2, <1>3, <1>5, <1>6

\* A file with a run of blocks written
RunWritten(A, t, s, B, f, g, v, pad) ==
    /\ t \in Seq(A)
    /\ g < Len(s) => Len(t) = Len(s)
    /\ g >= Len(s) => Len(t) = g + 1
    /\ \A b \in B : t[b + 1] = v[b]
    /\ \A b \in Nat : b \notin B /\ b < Len(s) => t[b + 1] = s[b + 1]
    /\ \A b \in Nat : b \notin B /\ b >= Len(s) /\ b <= g => t[b + 1] = pad

LEMMA WrittenIs ==
  ASSUME NEW A, NEW s \in Seq(A), NEW B, NEW f \in Nat, NEW g \in Nat, f <= g, B = f..g,
         NEW v \in [B -> A], NEW pad \in A, NEW t, t = Written(s, B, v, pad)
  PROVE  RunWritten(A, t, s, B, f, g, v, pad)
  <1> DEFINE len == IF g < Len(s) THEN Len(s) ELSE g + 1
             W(i) == IF i - 1 \in B THEN v[i - 1] ELSE IF i <= Len(s) THEN s[i] ELSE pad
             w == [i \in 1..len |-> W(i)]
  <1>1. t = w
    BY Ends DEF Written
  <1>2. len \in Nat /\ Len(s) \in Nat /\ len >= Len(s) /\ len > g
    OBVIOUS
  <1>3. ASSUME NEW i \in 1..len PROVE W(i) \in A
    BY <1>2
  <1>4. w \in Seq(A) /\ Len(w) = len
    <2>1. w \in [1..len -> A]
      BY <1>3
    <2> HIDE DEF w, len
    <2> QED
      BY <1>2, <2>1
  <1>5. ASSUME NEW b \in Nat, b < len PROVE w[b + 1] = W(b + 1)
    <2>1. b + 1 \in 1..len
      BY <1>2, <1>5
    <2> QED
      BY <2>1
  <1>6. \A b \in B : w[b + 1] = v[b]
    <2> SUFFICES ASSUME NEW b \in B PROVE w[b + 1] = v[b]
      OBVIOUS
    <2>1. b \in Nat /\ b < len /\ b + 1 - 1 = b
      BY <1>2
    <2>2. W(b + 1) = v[b]
      BY <2>1
    <2> HIDE DEF w, W, len
    <2> QED
      BY <1>5, <2>1, <2>2
  <1>7. \A b \in Nat : b \notin B /\ b < Len(s) => w[b + 1] = s[b + 1]
    <2> SUFFICES ASSUME NEW b \in Nat, b \notin B, b < Len(s) PROVE w[b + 1] = s[b + 1]
      OBVIOUS
    <2>1. b < len /\ b + 1 - 1 = b /\ b + 1 <= Len(s)
      BY <1>2
    <2>2. W(b + 1) = s[b + 1]
      BY <2>1
    <2> HIDE DEF w, W, len
    <2> QED
      BY <1>5, <2>1, <2>2
  <1>8. \A b \in Nat : b \notin B /\ b >= Len(s) /\ b <= g => w[b + 1] = pad
    <2> SUFFICES ASSUME NEW b \in Nat, b \notin B, b >= Len(s), b <= g PROVE w[b + 1] = pad
      OBVIOUS
    <2>1. b < len /\ b + 1 - 1 = b /\ ~(b + 1 <= Len(s))
      BY <1>2
    <2>2. W(b + 1) = pad
      BY <2>1
    <2> HIDE DEF w, W, len
    <2> QED
      BY <1>5, <2>1, <2>2
  <1> HIDE DEF w, W
  <1> QED
    BY <1>1, <1>4, <1>6, <1>7, <1>8 DEF RunWritten

LEMMA RefsNat ==
  ASSUME NEW s \in Seq(Nat), NEW b \in Nat
  PROVE  RefsIn(s, b) \in Nat /\ (RefsIn(s, b) > 0 => b < Len(s))
  <1>1. b < Len(s) => b + 1 \in 1..Len(s)
    OBVIOUS
  <1> QED
    BY <1>1 DEF RefsIn

\* The blocks smb_allocdat finds, and those at the end of the file, are free.
LEMMA FirstFitFree ==
  ASSUME sda \in Seq(Nat), NEW n \in Nat
  PROVE  /\ FirstFit(n) \in Nat /\ FirstFit(n) <= Len(sda)
         /\ \A b \in FirstFit(n)..FirstFit(n) + n - 1 : RefsIn(sda, b) = 0
  <1> DEFINE free == {o \in 0..Len(sda) - n : \A b \in o..o + n - 1 : sda[b + 1] = 0}
  <1>1. Len(sda) \in Nat
    OBVIOUS
  <1>2. CASE free = {}
    <2>1. FirstFit(n) = Len(sda)
      BY <1>2 DEF FirstFit
    <2>2. \A b \in Len(sda)..Len(sda) + n - 1 : RefsIn(sda, b) = 0
      BY <1>1 DEF RefsIn
    <2> QED
      BY <1>1, <2>1, <2>2
  <1>3. CASE free # {}
    <2>1. FirstFit(n) = Least(free)
      BY <1>3 DEF FirstFit
    <2>2. free \subseteq Nat
      BY <1>1
    <2>3. Least(free) \in free
      <3> HIDE DEF free
      <3> QED
        BY <1>3, <2>2, LeastNat
    <2>4. PICK o \in free : o = FirstFit(n)
      BY <2>1, <2>3
    <2>5. o \in Nat /\ o <= Len(sda)
      BY <1>1
    <2>6. \A b \in o..o + n - 1 : RefsIn(sda, b) = 0
      BY <2>4 DEF RefsIn
    <2> QED
      BY <2>4, <2>5, <2>6
  <1> QED
    BY <1>2, <1>3

LEMMA MinusNat ==
  ASSUME NEW i \in Nat, NEW r \in Nat
  PROVE  /\ Minus(i, r) \in Nat /\ Minus(i, r) <= i
         /\ (r = 0 => Minus(i, r) = 0)
         /\ (r = 1 => Minus(i, r) = IF i = 0 THEN 0 ELSE i - 1)
  BY DEF Minus, AllRefs

\* smb_freemsgdat counts down the blocks of a field; what it cuts off the
\* file has come to zero.
LEMMA FreeDatIs ==
  ASSUME sda \in Seq(Nat), NEW B, NEW f \in Nat, NEW g \in Nat, f <= g, B = f..g, FreeFits(B), NEW r \in Nat
  PROVE  /\ FreeDat(B, r) \in Seq(Nat) /\ Len(FreeDat(B, r)) <= Len(sda)
         /\ \A b \in Nat : RefsIn(FreeDat(B, r), b) =
                             IF b \in B THEN Minus(RefsIn(sda, b), r) ELSE RefsIn(sda, b)
  <1> DEFINE N(i) == IF i - 1 \in B THEN Minus(sda[i], r) ELSE sda[i]
             s == [i \in 1..Len(sda) |-> N(i)]
             kept == {b + 1 : b \in {c \in B : s[c + 1] # 0}}
  <1>1. Least(B) = f /\ Greatest(B) = g
    BY Ends
  <1>2. Len(sda) \in Nat /\ g < Len(sda)
    BY <1>1 DEF FreeFits
  <1>3. ASSUME NEW i \in 1..Len(sda) PROVE N(i) \in Nat
    <2>1. PICK v \in Nat : v = sda[i]
      OBVIOUS
    <2>2. Minus(v, r) \in Nat
      BY MinusNat
    <2> QED
      BY <2>1, <2>2
  <1>4. s \in Seq(Nat) /\ Len(s) = Len(sda) /\ \A i \in 1..Len(sda) : s[i] = N(i)
    <2>1. s \in [1..Len(sda) -> Nat]
      BY <1>3
    <2> HIDE DEF N
    <2> QED
      BY <1>2, <2>1
  <1>5. \A b \in Nat : b < Len(sda) => s[b + 1] = IF b \in B THEN Minus(RefsIn(sda, b), r) ELSE RefsIn(sda, b)
    <2> SUFFICES ASSUME NEW b \in Nat, b < Len(sda)
                 PROVE  s[b + 1] = IF b \in B THEN Minus(RefsIn(sda, b), r) ELSE RefsIn(sda, b)
      OBVIOUS
    <2>1. b + 1 \in 1..Len(sda) /\ b + 1 - 1 = b
      BY <1>2
    <2>2. RefsIn(sda, b) = sda[b + 1]
      BY DEF RefsIn
    <2> QED
      BY <1>4, <2>1, <2>2
  <1>6. \A b \in Nat : b >= Len(sda) => b \notin B /\ RefsIn(sda, b) = 0
    BY <1>2 DEF RefsIn
  <1>7. CASE g + 1 < Len(sda)
    <2>1. FreeDat(B, r) = s
      BY <1>1, <1>7 DEF FreeDat
    <2> HIDE DEF s
    <2>2. \A b \in Nat : RefsIn(s, b) = IF b \in B THEN Minus(RefsIn(sda, b), r) ELSE RefsIn(sda, b)
      <3> SUFFICES ASSUME NEW b \in Nat
                   PROVE  RefsIn(s, b) = IF b \in B THEN Minus(RefsIn(sda, b), r) ELSE RefsIn(sda, b)
        OBVIOUS
      <3>1. CASE b < Len(sda)
        <4>1. RefsIn(s, b) = s[b + 1]
          BY <1>4, <3>1 DEF RefsIn
        <4> QED
          BY <1>5, <3>1, <4>1
      <3>2. CASE b >= Len(sda)
        <4>1. RefsIn(s, b) = 0
          BY <1>2, <1>4, <3>2 DEF RefsIn
        <4> QED
          BY <1>6, <3>2, <4>1
      <3> QED
        BY <1>2, <3>1, <3>2
    <2> QED
      BY <1>2, <1>4, <2>1, <2>2
  <1>8. CASE g + 1 = Len(sda)
    <2>1. PICK k \in {Greatest(kept \cup {Least(B)})} : TRUE
      OBVIOUS
    <2>2. FreeDat(B, r) = SubSeq(s, 1, k)
      <3>1. ~(Greatest(B) + 1 < Len(sda))
        BY <1>1, <1>8
      <3>2. k = Greatest(kept \cup {Least(B)})
        BY <2>1
      <3> QED
        BY <3>1, <3>2 DEF FreeDat
    <2>3. kept \cup {f} \in SUBSET Nat /\ kept \cup {f} # {} /\ \A x \in kept \cup {f} : x <= g + 1 /\ f <= x
      <3>1. \A c \in B : c \in Nat /\ f <= c /\ c <= g
        OBVIOUS
      <3> HIDE DEF s
      <3> QED
        BY <3>1
    <2>4. k \in kept \cup {f} /\ \A x \in kept \cup {f} : x <= k
      <3> HIDE DEF kept
      <3>1. PICK K \in {kept \cup {f}} : TRUE
        OBVIOUS
      <3>2. K \in SUBSET Nat /\ K # {} /\ \A x \in K : x <= g + 1
        BY <2>3, <3>1
      <3>3. g + 1 \in Nat
        OBVIOUS
      <3>4. Greatest(K) \in K /\ \A y \in K : y <= Greatest(K)
        BY <3>2, <3>3, GreatestNat
      <3>5. k = Greatest(kept \cup {Least(B)})
        BY <2>1
      <3> QED
        BY <1>1, <3>1, <3>4, <3>5
    <2>5. k \in Nat /\ f <= k /\ k <= Len(sda)
      <3> HIDE DEF kept
      <3> QED
        BY <1>8, <2>3, <2>4
    <2>6. \A c \in B : s[c + 1] # 0 => c + 1 <= k
      <3> SUFFICES ASSUME NEW c \in B, s[c + 1] # 0 PROVE c + 1 <= k
        OBVIOUS
      <3>1. c + 1 \in kept
        OBVIOUS
      <3> HIDE DEF kept
      <3> QED
        BY <2>4, <3>1
    <2> HIDE DEF s, kept
    <2>7. /\ SubSeq(s, 1, k) \in Seq(Nat) /\ Len(SubSeq(s, 1, k)) = k
          /\ \A i \in 1..k : SubSeq(s, 1, k)[i] = s[i]
      BY <1>2, <1>4, <2>5
    <2>8. PICK t \in Seq(Nat) : t = SubSeq(s, 1, k)
      BY <2>7
    <2>9. Len(t) = k /\ \A i \in 1..k : t[i] = s[i]
      BY <2>7, <2>8
    <2>10. \A b \in Nat : RefsIn(t, b) = IF b \in B THEN Minus(RefsIn(sda, b), r) ELSE RefsIn(sda, b)
      <3> SUFFICES ASSUME NEW b \in Nat
                   PROVE  RefsIn(t, b) = IF b \in B THEN Minus(RefsIn(sda, b), r) ELSE RefsIn(sda, b)
        OBVIOUS
      <3>1. CASE b < k
        <4>1. b + 1 \in 1..k /\ b < Len(sda)
          BY <1>2, <2>5, <3>1
        <4>2. RefsIn(t, b) = s[b + 1]
          BY <2>9, <3>1, <4>1 DEF RefsIn
        <4> QED
          BY <1>5, <4>1, <4>2
      <3>2. CASE b >= k /\ b < Len(sda)
        <4>1. RefsIn(t, b) = 0
          BY <2>5, <2>9, <3>2 DEF RefsIn
        <4>2. b \in B
          <5>1. b \in Nat /\ f <= b /\ b <= g
            BY <1>8, <2>5, <3>2
          <5> QED
            BY <5>1
        <4>3. s[b + 1] = 0
          <5>1. b \in Nat /\ ~(b + 1 <= k)
            BY <2>5, <3>2
          <5> QED
            BY <2>6, <4>2, <5>1
        <4> QED
          BY <1>5, <3>2, <4>1, <4>2, <4>3
      <3>3. CASE b >= Len(sda)
        <4>1. RefsIn(t, b) = 0
          BY <1>2, <2>5, <2>9, <3>3 DEF RefsIn
        <4> QED
          BY <1>6, <3>3, <4>1
      <3> QED
        BY <1>2, <2>5, <3>1, <3>2, <3>3
    <2> QED
      BY <1>2, <2>2, <2>5, <2>8, <2>9, <2>10
  <1> QED
    BY <1>2, <1>7, <1>8

-----------------------------------------------------------------------------
(* Places, locks and what each process holds.                               *)

OthersStay(p) ==
    \A q \in Proc \ {p} : pc'[q] = pc[q] /\ msg'[q] = msg[q] /\ fld'[q] = fld[q] /\ cnt'[q] = cnt[q]

LocksKept(p) ==
    \A q \in Proc \ {p} :
        (hdrLock = q => hdrLock' = q) /\ (daLock = q => daLock' = q) /\ (haLock' = q <=> haLock = q)

\* Only a purge drops headers or sees them marked, and not the last one that a
\* forwarder can have its text from.
HdrsKept(p) ==
    \/ hdrs \subseteq hdrs' /\ UNCHANGED late
    \/ haLock = p /\ \A f \in Forwarders : pc[f] # "idle" =>
                      \E h \in hdrs' : TextOf(h) = msg[f] /\ (h.marked => h.num \in late')

TextsKept(p) == texts' = texts \/ (hdrLock = p /\ texts' = texts + 1)

\* Beside a purge p goes only where a purge lets it.
Allowed(p) ==
    /\ hdrLock \notin {None, p} /\ BesideOpen(p, pc[p]) => BesideOpen(p, pc'[p])
    /\ daLock \notin {None, p} /\ haLock \notin {None, p} /\ BesidePurge(p, pc[p]) => BesidePurge(p, pc'[p])

\* No purge begins beside a forwarder.
Quietly(p) == p \in Purgers /\ pc[p] = "idle" /\ pc'[p] # "idle" => \A f \in Forwarders : pc[f] = "idle"

LEMMA Disjoint ==
  /\ None \notin Proc
  /\ \A p \in Senders : p \in Proc /\ p \notin Mails /\ p \notin Mailers /\ p \notin Listers
                          /\ p \notin Forwarders /\ p \notin Purgers
  /\ \A p \in Mails : p \in Proc /\ p \notin Senders /\ p \notin Forwarders /\ p \notin Purgers
  /\ \A p \in Mailers : p \in Mails /\ p \notin Listers
  /\ \A p \in Listers : p \in Mails /\ p \notin Mailers
  /\ \A p \in Forwarders : p \in Proc /\ p \notin Senders /\ p \notin Mails /\ p \notin Mailers
                          /\ p \notin Listers /\ p \notin Purgers
  /\ \A p \in Purgers : p \in Proc /\ p \notin Senders /\ p \notin Mails /\ p \notin Mailers
                          /\ p \notin Listers /\ p \notin Forwarders
  BY SmbStoreAssumption DEF Proc, Mails

LEMMA SameText ==
  ASSUME NEW h, NEW m, TextOf(h) = m
  PROVE  /\ h.txt = m.txt /\ h.off = m.off /\ h.lay = m.lay
         /\ TextBlocks(h) = TextBlocks(m) /\ \A x : FieldBlocks(h, x) = FieldBlocks(m, x)
         /\ \A b : Fields(h, b) = Fields(m, b) /\ (Filled(b, h) <=> Filled(b, m)) /\ (Filled(b, h)' <=> Filled(b, m)')
  <1>1. h.txt = m.txt /\ h.off = m.off /\ h.lay = m.lay
    BY DEF TextOf
  <1>2. TextBlocks(h) = TextBlocks(m) /\ \A x : FieldBlocks(h, x) = FieldBlocks(m, x)
    BY <1>1 DEF TextBlocks, FieldBlocks
  <1>3. \A b : Fields(h, b) = Fields(m, b)
    BY <1>1, <1>2 DEF Fields
  <1>4. \A b : (Filled(b, h) <=> Filled(b, m)) /\ (Filled(b, h)' <=> Filled(b, m)')
    BY <1>1 DEF Filled
  <1> QED
    BY <1>1, <1>2, <1>3, <1>4

LEMMA KindsStep ==
  ASSUME Kinds, NEW p \in Proc, OthersStay(p), LocksKept(p), HdrsKept(p), TextsKept(p), Allowed(p),
         Quietly(p), Types', Numbers', Place(p)', Owned(p)', Still(p)', Known(p)'
  PROVE  Kinds'
  <1> SUFFICES ASSUME NEW q \in Proc, q # p
               PROVE  Place(q)' /\ Owned(q)' /\ Still(q)' /\ Known(q)'
    BY DEF Kinds
  <1>0. None \notin Proc
    BY Disjoint
  <1>1. pc'[q] = pc[q] /\ msg'[q] = msg[q] /\ fld'[q] = fld[q] /\ cnt'[q] = cnt[q]
    BY DEF OthersStay
  <1>2. Place(q) /\ Owned(q) /\ Still(q) /\ Known(q)
    BY DEF Kinds
  <1>3. Place(q)'
    BY <1>1, <1>2 DEF Place
  <1>4. Owned(q)'
    <2>1. pc[q] = "store" => texts' < MaxTexts
      <3>1. pc[q] = "store" => hdrLock = q /\ texts < MaxTexts
        BY <1>2 DEF Owned
      <3>2. hdrLock = q => texts' = texts
        BY DEF TextsKept
      <3> QED
        BY <3>1, <3>2
    <2> QED
      BY <1>1, <1>2, <2>1 DEF Owned, LocksKept
  <1>5. Still(q)'
    <2>1. ASSUME pc[q] = "pg_open", NEW r \in Proc PROVE BesideOpen(r, pc'[r])
      <3>1. hdrLock = q
        BY <1>2, <2>1 DEF Owned
      <3>2. BesideOpen(r, pc[r])
        BY <1>2, <2>1 DEF Still
      <3>3. CASE r = p
        BY <1>0, <3>1, <3>2, <3>3 DEF Allowed
      <3>4. CASE r # p
        BY <3>2, <3>4 DEF OthersStay
      <3> QED
        BY <3>3, <3>4
    <2>2. ASSUME pc[q] \in InPurge, NEW r \in Proc PROVE BesidePurge(r, pc'[r])
      <3>1. daLock = q /\ haLock = q
        BY <1>2, <2>2 DEF Owned, InPurge
      <3>2. BesidePurge(r, pc[r])
        BY <1>2, <2>2 DEF Still
      <3>3. CASE r = p
        BY <1>0, <3>1, <3>2, <3>3 DEF Allowed
      <3>4. CASE r # p
        BY <3>2, <3>4 DEF OthersStay
      <3> QED
        BY <3>3, <3>4
    <2> QED
      BY <1>1, <2>1, <2>2 DEF Still
  <1>6. Known(q)'
    <2>1. (pc[q] \in FirstField => fld[q] = 1)'
      BY <1>1, <1>2 DEF Known
    <2>2. (pc[q] \notin NoTextYet =>
             msg[q] \in TextsOf /\ fld[q] \in 1..Len(msg[q].lay) /\ msg[q].txt \in 1..texts)'
      <3>1. texts \in Nat /\ texts' \in Nat /\ texts <= texts'
        BY DEF TextsKept, Kinds, Types
      <3>2. \A i \in 1..texts : i \in 1..texts'
        BY <3>1
      <3>3. pc[q] \notin NoTextYet =>
             msg[q] \in TextsOf /\ fld[q] \in 1..Len(msg[q].lay) /\ msg[q].txt \in 1..texts
        BY <1>2 DEF Known
      <3> QED
        BY <1>1, <3>2, <3>3
    <2>3. /\ (q \in Senders /\ pc[q] \notin NoTextYet => msg[q].lay \in SendLayouts)'
          /\ (q \notin Purgers /\ (q \in Senders \/ q \in Forwarders \/ pc[q] \in {"idle", "store", "free"}) => cnt[q] = 0)'
          /\ (q \in Mails /\ pc[q] \in {"inc_open", "inc"} => cnt[q] > 1)'
      BY <1>1, <1>2 DEF Known
    <2>4. (q \in Forwarders /\ pc[q] # "idle" =>
             /\ \E h \in hdrs : TextOf(h) = msg[q]
             /\ (\E r \in Purgers : pc[r] # "idle") => \E h \in hdrs : TextOf(h) = msg[q] /\ Spared(h))'
      <3> SUFFICES ASSUME q \in Forwarders, pc[q] # "idle"
                   PROVE  /\ \E h \in hdrs' : TextOf(h) = msg[q]
                          /\ (\E r \in Purgers : pc'[r] # "idle") =>
                                \E h \in hdrs' : TextOf(h) = msg[q] /\ (h.marked => h.num \in late')
        BY <1>1 DEF Spared
      <3>1. /\ \E h \in hdrs : TextOf(h) = msg[q]
            /\ (\E r \in Purgers : pc[r] # "idle") => \E h \in hdrs : TextOf(h) = msg[q] /\ (h.marked => h.num \in late)
        BY <1>2 DEF Known, Spared
      <3>0. CASE ~(hdrs \subseteq hdrs' /\ UNCHANGED late)
        BY <3>0 DEF HdrsKept
      <3>2. CASE hdrs \subseteq hdrs' /\ UNCHANGED late /\ \E r \in Purgers : pc[r] # "idle"
        BY <3>1, <3>2
      <3>3. CASE hdrs \subseteq hdrs' /\ UNCHANGED late /\ ~\E r \in Purgers : pc[r] # "idle"
        <4>3. ~\E r \in Purgers : pc'[r] # "idle"
          <5> SUFFICES ASSUME NEW r \in Purgers, pc'[r] # "idle" PROVE FALSE
            OBVIOUS
          <5>1. r = p
            BY <3>3, Disjoint DEF OthersStay
          <5>2. \A f \in Forwarders : pc[f] = "idle"
            BY <3>3, <5>1 DEF Quietly
          <5> QED
            BY <5>2
        <4> QED
          BY <3>1, <3>3, <4>3
      <3> QED
        BY <3>0, <3>2, <3>3
    <2>5. (pc[q] = "pg_free" => \E h \in hdrs : h.num = cnt[q] /\ ~Spared(h) /\ TextOf(h) = msg[q])'
      <3> SUFFICES ASSUME pc[q] = "pg_free"
                   PROVE  \E h \in hdrs' : h.num = cnt[q] /\ ~(h.marked => h.num \in late') /\ TextOf(h) = msg[q]
        BY <1>1 DEF Spared
      <3>1. haLock = q
        BY <1>2 DEF Owned, InPurge
      <3>2. hdrs \subseteq hdrs' /\ UNCHANGED late
        BY <3>1 DEF HdrsKept
      <3> QED
        BY <1>2, <3>2 DEF Known, Spared
    <2> QED
      BY <2>1, <2>2, <2>3, <2>4, <2>5 DEF Known
  <1> QED
    BY <1>3, <1>4, <1>5, <1>6

\* The local state after a step that changes nobody else's
LEMMA Stays ==
  ASSUME Kinds, NEW p \in Proc, NEW l, Goto(p, l), UNCHANGED local
  PROVE  OthersStay(p) /\ pc'[p] = l /\ pc' = [q \in Proc |-> pc'[q]]
  <1>1. pc = [q \in Proc |-> pc[q]]
    BY DEF Kinds, Types
  <1>2. pc' = [pc EXCEPT ![p] = l] /\ msg' = msg /\ fld' = fld /\ cnt' = cnt
    BY DEF Goto, local
  <1>3. pc' = [q \in Proc |-> IF q = p THEN l ELSE pc[q]]
    BY <1>1, <1>2
  <1> QED
    BY <1>2, <1>3 DEF OthersStay

LEMMA Finished ==
  ASSUME Kinds, NEW p \in Proc, Finish(p)
  PROVE  /\ OthersStay(p) /\ pc' = [q \in Proc |-> pc'[q]]
         /\ pc'[p] = "idle" /\ msg'[p] = NoText /\ fld'[p] = 1 /\ cnt'[p] = 0
         /\ msg' \in [Proc -> TextsOf \cup {NoText}]
         /\ fld' \in [Proc -> {1, 2}] /\ cnt' \in [Proc -> Nat]
  <1>1. pc = [q \in Proc |-> pc[q]] /\ msg \in [Proc -> TextsOf \cup {NoText}]
        /\ fld \in [Proc -> {1, 2}] /\ cnt \in [Proc -> Nat]
    BY DEF Kinds, Types
  <1>2. pc' = [q \in Proc |-> IF q = p THEN "idle" ELSE pc[q]]
    BY <1>1 DEF Finish, Goto
  <1>3. msg' \in [Proc -> TextsOf \cup {NoText}] /\ msg'[p] = NoText /\ \A q \in Proc \ {p} : msg'[q] = msg[q]
    <2>1. PICK m \in TextsOf \cup {NoText} : m = NoText
      OBVIOUS
    <2>2. msg' = [msg EXCEPT ![p] = m]
      BY <2>1 DEF Finish
    <2> QED
      BY <1>1, <2>1, <2>2
  <1>4. /\ fld' \in [Proc -> {1, 2}] /\ cnt' \in [Proc -> Nat] /\ fld'[p] = 1 /\ cnt'[p] = 0
        /\ \A q \in Proc \ {p} : fld'[q] = fld[q] /\ cnt'[q] = cnt[q]
    BY <1>1 DEF Finish
  <1> QED
    BY <1>2, <1>3, <1>4 DEF OthersStay

\* A process whose call has returned knows nothing.
LEMMA KindsEnd ==
  ASSUME Kinds, NEW p \in Proc, Finish(p), LocksKept(p), HdrsKept(p), UNCHANGED texts, haLock' # p,
         sda' \in Seq(Nat), sdt' \in Seq(Nat \X Nat), Len(sdt') = Len(sda'),
         last' \in Nat, hdrs' \subseteq HdrsOf, IsFiniteSet(hdrs'), haLock' \in Purgers \cup {None}, Numbers'
  PROVE  Kinds'
  <1>1. /\ OthersStay(p) /\ pc' = [q \in Proc |-> pc'[q]]
        /\ pc'[p] = "idle" /\ msg'[p] = NoText /\ fld'[p] = 1 /\ cnt'[p] = 0
        /\ msg' \in [Proc -> TextsOf \cup {NoText}]
        /\ fld' \in [Proc -> {1, 2}] /\ cnt' \in [Proc -> Nat]
    BY Finished
  <1>2. Types'
    <2>1. texts \in Nat /\ texts <= MaxTexts
      BY DEF Kinds, Types
    <2> QED
      BY <1>1, <2>1 DEF Types
  <1>3. TextsKept(p) /\ Quietly(p)
    BY <1>1 DEF TextsKept, Quietly
  <1>4. Allowed(p)
    BY <1>1 DEF Allowed, BesideOpen, BesidePurge
  <1>5. Place(p)'
    BY <1>1 DEF Place, SendPlaces, MailPlaces, ListPlaces, ForwardPlaces, PurgePlaces
  <1>6. Owned(p)' /\ Still(p)'
    BY <1>1 DEF Owned, Still, InPurge
  <1>7. Known(p)'
    BY <1>1 DEF Known, FirstField, NoTextYet
  <1> QED
    BY <1>1, <1>2, <1>3, <1>4, <1>5, <1>6, <1>7, KindsStep

-----------------------------------------------------------------------------
(* Each kind of step keeps Kinds.                                           *)

DataTypes == sda \in Seq(Nat) /\ sdt \in Seq(Nat \X Nat) /\ Len(sdt) = Len(sda)

LEMMA DataSame ==
  ASSUME Kinds, UNCHANGED data
  PROVE  DataTypes'
  BY DEF Kinds, Types, DataTypes, data

LEMMA BaseSame ==
  ASSUME Kinds, UNCHANGED base
  PROVE  /\ Numbers' /\ last' \in Nat /\ hdrs' \subseteq HdrsOf /\ IsFiniteSet(hdrs')
         /\ texts' = texts /\ \A p \in Proc : HdrsKept(p) /\ TextsKept(p)
  BY DEF Kinds, Types, Numbers, base, HdrsKept, TextsKept

LEMMA HeldText ==
  ASSUME QuietBase, Kinds, NEW p \in Proc, pc[p] \notin NoTextYet
  PROVE  /\ msg[p] \in TextsOf /\ msg[p].txt \in Nat /\ msg[p].off \in Nat /\ msg[p].lay \in Layouts
         /\ fld[p] \in {1, 2} /\ fld[p] \in 1..Len(msg[p].lay) /\ Len(msg[p].lay) \in {1, 2}
         /\ (pc[p] \in FirstField => fld[p] = 1)
  <1>1. msg[p] \in TextsOf /\ fld[p] \in 1..Len(msg[p].lay) /\ (pc[p] \in FirstField => fld[p] = 1)
    BY DEF Kinds, Known
  <1>2. msg[p].txt \in Nat /\ msg[p].off \in Nat /\ msg[p].lay \in Layouts
    BY <1>1 DEF TextsOf
  <1>3. Len(msg[p].lay) \in {1, 2} /\ fld[p] \in {1, 2}
    BY <1>2, TwoFields DEF Kinds, Types
  <1> QED
    BY <1>1, <1>2, <1>3

\* A returned call of a process that keeps the messages as they are
LEMMA KindsReturn ==
  ASSUME Kinds, NEW p \in Proc, Finish(p), LocksKept(p), haLock' # p, haLock' \in Purgers \cup {None},
         UNCHANGED base, DataTypes'
  PROVE  Kinds'
  BY BaseSame, KindsEnd DEF DataTypes

LEMMA KindsMove ==
  ASSUME Kinds, NEW p \in Proc, NEW l, Goto(p, l), UNCHANGED local, UNCHANGED base, DataTypes',
         LocksKept(p), Allowed(p), Quietly(p), haLock' \in Purgers \cup {None},
         Place(p)', Owned(p)', Still(p)', Known(p)'
  PROVE  Kinds'
  <1>1. OthersStay(p) /\ pc'[p] = l /\ pc' = [q \in Proc |-> pc'[q]]
    BY Stays
  <1>2. /\ Numbers' /\ last' \in Nat /\ hdrs' \subseteq HdrsOf /\ IsFiniteSet(hdrs')
        /\ HdrsKept(p) /\ TextsKept(p)
    BY BaseSame
  <1>3. Types'
    BY <1>1, <1>2 DEF Kinds, Types, base, local, DataTypes
  <1> QED
    BY <1>1, <1>2, <1>3, KindsStep

\* No process but a purge has the .sha file.
LEMMA NoHa ==
  ASSUME Kinds, NEW p \in Proc, p \notin Purgers
  PROVE  haLock # p /\ haLock \in Purgers \cup {None} /\ None # p
  BY Disjoint DEF Kinds, Types

LEMMA KindsAddLock ==
  ASSUME QuietBase, Kinds, NEW p \in Senders \cup Mails, AddLock(p)
  PROVE  Kinds'
  <1>0. p \in Proc /\ p \notin Purgers /\ p \notin Forwarders
    BY Disjoint
  <1>1. Goto(p, "store") /\ UNCHANGED local /\ UNCHANGED base /\ UNCHANGED data /\ pc[p] = "idle"
        /\ hdrLock = None /\ hdrLock' = p /\ daLock' = daLock /\ haLock' = haLock /\ texts < MaxTexts
    BY DEF AddLock
  <1>2. pc'[p] = "store" /\ UNCHANGED <<msg, fld, cnt, hdrs, last, texts, late>>
    BY <1>0, <1>1, Stays DEF local, base
  <1>3. haLock # p /\ haLock \in Purgers \cup {None}
    BY <1>0, NoHa
  <1>4. LocksKept(p)
    BY <1>1, Disjoint DEF LocksKept
  <1>5. Allowed(p) /\ Quietly(p)
    BY <1>0, <1>1, <1>2 DEF Allowed, Quietly, BesidePurge
  <1>6. Place(p)'
    BY <1>0, <1>2 DEF Place, SendPlaces, MailPlaces, ListPlaces
  <1>7. Owned(p)' /\ Still(p)'
    BY <1>1, <1>2, <1>3 DEF Owned, Still, InPurge
  <1>8. Known(p)'
    <2>1. Known(p)
      BY <1>0 DEF Kinds
    <2> QED
      BY <1>0, <1>1, <1>2, <2>1 DEF Known, FirstField, NoTextYet
  <1>9. DataTypes'
    BY <1>1, DataSame
  <1> QED
    BY <1>0, <1>1, <1>3, <1>4, <1>5, <1>6, <1>7, <1>8, <1>9, KindsMove

LEMMA KindsStoreTimeout ==
  ASSUME QuietBase, Kinds, NEW p \in Senders \cup Mails, StoreTextTimeout(p)
  PROVE  Kinds'
  <1>0. p \in Proc /\ p \notin Purgers
    BY Disjoint
  <1>1. hdrLock = p
    BY <1>0 DEF StoreTextTimeout, Kinds, Owned
  <1>2. LocksKept(p)
    BY <1>1 DEF LocksKept, StoreTextTimeout
  <1>3. haLock' # p /\ haLock' \in Purgers \cup {None}
    BY <1>0, NoHa DEF StoreTextTimeout
  <1> QED
    BY <1>0, <1>2, <1>3, DataSame, KindsReturn DEF StoreTextTimeout

\* A new header has a number of its own.
LEMMA NewHdrIs ==
  ASSUME Kinds, NEW m \in TextsOf, m.txt \in 1..texts
  PROVE  /\ NewHdr(m) \in HdrsOf /\ NewHdr(m) \notin hdrs
         /\ TextOf(NewHdr(m)) = [txt |-> m.txt, off |-> m.off, lay |-> m.lay] /\ ~NewHdr(m).marked
         /\ NewHdr(m).num = last + 1
         /\ hdrs' = hdrs \cup {NewHdr(m)} /\ last' = last + 1 /\ UNCHANGED <<texts, late>> =>
              /\ Numbers' /\ last' \in Nat /\ hdrs' \subseteq HdrsOf /\ IsFiniteSet(hdrs')
              /\ \A p \in Proc : HdrsKept(p) /\ TextsKept(p)
  <1>1. last \in Nat /\ hdrs \subseteq HdrsOf /\ IsFiniteSet(hdrs) /\ Numbers
    BY DEF Kinds, Types
  <1>2. PICK h \in HdrsOf : h = NewHdr(m)
    <2>1. m.txt \in Nat /\ m.off \in Nat /\ m.lay \in Layouts /\ last + 1 \in Nat /\ FALSE \in BOOLEAN
      BY <1>1 DEF TextsOf
    <2>2. PICK a \in Nat, b \in Nat, c \in Nat, d \in Layouts :
            a = last + 1 /\ b = m.txt /\ c = m.off /\ d = m.lay
      BY <2>1
    <2>3. [num |-> a, txt |-> b, off |-> c, lay |-> d, marked |-> FALSE] \in HdrsOf
      BY DEF HdrsOf
    <2> QED
      BY <2>2, <2>3 DEF NewHdr
  <1>3. h.num = last + 1 /\ h.txt = m.txt /\ h.off = m.off /\ h.lay = m.lay /\ h.marked = FALSE
    BY <1>2 DEF NewHdr
  <1>4. \A g \in hdrs : g.num # h.num
    <2>1. \A g \in hdrs : g.num <= last /\ g.num \in Nat
      BY <1>1 DEF Numbers, HdrsOf
    <2> QED
      BY <1>1, <1>3, <2>1
  <1>5. ASSUME hdrs' = hdrs \cup {h}, last' = last + 1, UNCHANGED <<texts, late>>
        PROVE  /\ Numbers' /\ last' \in Nat /\ hdrs' \subseteq HdrsOf /\ IsFiniteSet(hdrs')
               /\ \A p \in Proc : HdrsKept(p) /\ TextsKept(p)
    <2>1. \A g \in hdrs' : g.num <= last' /\ g.txt \in 1..texts'
      <3>1. \A g \in hdrs : g.num <= last /\ g.num \in Nat /\ g.txt \in 1..texts
        BY <1>1 DEF Numbers, HdrsOf
      <3>2. \A g \in hdrs : g.num <= last + 1
        BY <1>1, <3>1
      <3> QED
        BY <1>1, <1>3, <1>5, <3>1, <3>2
    <2>2. \A f, g \in hdrs' : f.num = g.num => f = g
      BY <1>1, <1>4, <1>5 DEF Numbers
    <2>3. IsFiniteSet(hdrs')
      BY <1>1, <1>5, FS_AddElement
    <2>4. late' \subseteq 0..last' /\ \A g \in hdrs' : g.num \in late' => g.marked
      <3>1. 0..last \subseteq 0..last + 1 /\ last + 1 \notin 0..last
        BY <1>1
      <3> QED
        BY <1>1, <1>3, <1>5, <3>1 DEF Numbers
    <2> QED
      BY <1>1, <1>5, <2>1, <2>2, <2>3, <2>4 DEF Numbers, HdrsKept, TextsKept
  <1>6. TextOf(h) = [txt |-> m.txt, off |-> m.off, lay |-> m.lay]
    BY <1>3 DEF TextOf
  <1> QED
    BY <1>2, <1>3, <1>4, <1>5, <1>6

LEMMA KindsAddHdr ==
  ASSUME QuietBase, Kinds, NEW p \in Senders \cup Forwarders, AddHdr(p)
  PROVE  Kinds'
  <1>0. p \in Proc /\ p \notin Purgers /\ pc[p] \in {"hdr", "fwd_hdr"} /\ hdrLock \in {None, p}
    BY Disjoint DEF AddHdr, CanLock
  <1>1. PICK m \in TextsOf : m = msg[p] /\ m.txt \in 1..texts
    BY <1>0 DEF Kinds, Known, NoTextYet
  <1>2. hdrs' = hdrs \cup {NewHdr(m)} /\ last' = last + 1 /\ UNCHANGED <<texts, late>>
    BY <1>1 DEF AddHdr
  <1>3. /\ Numbers' /\ last' \in Nat /\ hdrs' \subseteq HdrsOf /\ IsFiniteSet(hdrs')
        /\ HdrsKept(p)
    BY <1>0, <1>1, <1>2, NewHdrIs
  <1>4. LocksKept(p)
    BY <1>0, Disjoint DEF LocksKept, AddHdr
  <1>5. haLock' # p /\ haLock' \in Purgers \cup {None}
    BY <1>0, NoHa DEF AddHdr
  <1>6. DataTypes'
    BY DataSame DEF AddHdr
  <1> QED
    BY <1>0, <1>2, <1>3, <1>4, <1>5, <1>6, KindsEnd DEF AddHdr, DataTypes

\* The places that only senders and forwarders come to
LEMMA Undoing ==
  ASSUME Kinds, NEW p \in Proc, pc[p] \in {"hdr", "fwd_hdr", "undo"}
  PROVE  /\ p \in Senders \cup Forwarders /\ p \notin Purgers /\ p \notin Mails /\ p \notin Mailers
         /\ (p \in Senders => pc[p] # "fwd_hdr") /\ (p \in Forwarders => pc[p] # "hdr")
         /\ cnt[p] = 0
  <1>1. Place(p) /\ Known(p)
    BY DEF Kinds
  <1>2. p \in Senders \cup Forwarders
    BY <1>1 DEF Place, Proc, MailPlaces, ListPlaces, PurgePlaces
  <1> QED
    BY <1>1, <1>2, Disjoint DEF Place, SendPlaces, ForwardPlaces, Known

\* No purge is in the middle while a forwarder's reference is not spoken for.
LEMMA NoPurgeBeside ==
  ASSUME Kinds, NEW p \in Proc,
         \/ p \in Mails /\ pc[p] \notin {"idle", "store"}
         \/ p \in Forwarders /\ pc[p] \notin {"idle", "fwd"}
         \/ pc[p] = "hdr"
  PROVE  haLock = None /\ \A q \in Purgers : pc[q] \notin InPurge
  <1>0. p \in Forwarders /\ p \in Mails => FALSE
    BY Disjoint
  <1>1. ASSUME NEW q \in Purgers, pc[q] \in InPurge PROVE FALSE
    <2>1. BesidePurge(p, pc[p])
      BY <1>1, Disjoint DEF Kinds, Still
    <2>2. pc[p] = "hdr" => p \in Senders
      BY Undoing, Disjoint
    <2> QED
      BY <2>1, <2>2 DEF BesidePurge
  <1>2. haLock = None
    <2>1. haLock \in Purgers \cup {None}
      BY DEF Kinds, Types
    <2>2. \A q \in Purgers : haLock = q => pc[q] \in InPurge
      BY Disjoint DEF Kinds, Owned
    <2> QED
      BY <1>1, <2>1, <2>2
  <1> QED
    BY <1>1, <1>2

LEMMA KindsAddHdrFails ==
  ASSUME QuietBase, Kinds, NEW p \in Senders \cup Forwarders, AddHdrFails(p)
  PROVE  Kinds'
  <1>0. p \in Proc /\ p \notin Purgers /\ p \notin Mails /\ pc[p] \in {"hdr", "fwd_hdr"}
    BY Disjoint DEF AddHdrFails
  <1>1. Goto(p, "undo") /\ UNCHANGED local /\ UNCHANGED base /\ UNCHANGED data
        /\ hdrLock' = (IF hdrLock = p THEN None ELSE hdrLock) /\ daLock' = daLock /\ haLock' = haLock
    BY DEF AddHdrFails, Unlocked
  <1>2. pc'[p] = "undo" /\ UNCHANGED <<msg, fld, cnt, hdrs, last, texts, late>> /\ OthersStay(p)
    BY <1>0, <1>1, Stays DEF local, base
  <1>3. haLock = None
    BY <1>0, NoPurgeBeside, Undoing, Disjoint
  <1>4. LocksKept(p)
    BY <1>1 DEF LocksKept
  <1>5. Allowed(p) /\ Quietly(p)
    BY <1>0, <1>1, <1>2, <1>3, Undoing DEF Allowed, Quietly, BesideOpen
  <1>6. Place(p)' /\ Owned(p)' /\ Still(p)'
    <2>1. p \notin Mailers /\ p \notin Listers /\ p \notin Purgers
      BY Disjoint
    <2>2. haLock' # p
      BY <1>1, <1>3, <1>0, Disjoint
    <2> QED
      BY <1>2, <2>1, <2>2 DEF Place, SendPlaces, ForwardPlaces, Owned, Still, InPurge
  <1>8. Known(p)'
    <2>1. Known(p)
      BY <1>0 DEF Kinds
    <2>2. \A q \in Purgers : pc'[q] = pc[q]
      BY <1>0, <1>2, Disjoint DEF OthersStay
    <2> QED
      BY <1>0, <1>1, <1>2, <2>1, <2>2 DEF Known, Spared, FirstField, NoTextYet
  <1>9. DataTypes'
    BY <1>1, DataSame
  <1>10. haLock' \in Purgers \cup {None}
    BY <1>1, <1>3
  <1> QED
    BY <1>0, <1>1, <1>10, <1>4, <1>5, <1>6, <1>8, <1>9, KindsMove

\* p goes on with what it knows.
LEMMA KnownStays ==
  ASSUME Kinds, NEW p \in Proc, p \notin Purgers, OthersStay(p), UNCHANGED <<msg, fld, cnt, hdrs, texts, late>>,
         pc[p] \notin NoTextYet, pc'[p] # "pg_free",
         pc'[p] \in FirstField => fld[p] = 1,
         pc'[p] \in {"idle", "store", "free"} => cnt[p] = 0,
         p \in Mails /\ pc'[p] \in {"inc_open", "inc"} => cnt[p] > 1
  PROVE  Known(p)'
  <1>1. Known(p)
    BY DEF Kinds
  <1>2. \A q \in Purgers : pc'[q] = pc[q]
    BY Disjoint DEF OthersStay
  <1>3. pc[p] # "idle"
    BY DEF NoTextYet
  <1>4. (pc[p] \in FirstField => fld[p] = 1)'
    OBVIOUS
  <1>5. (pc[p] \notin NoTextYet => msg[p] \in TextsOf /\ fld[p] \in 1..Len(msg[p].lay) /\ msg[p].txt \in 1..texts)'
    BY <1>1 DEF Known
  <1>6. (p \in Senders /\ pc[p] \notin NoTextYet => msg[p].lay \in SendLayouts)'
    BY <1>1 DEF Known
  <1>7. (p \notin Purgers /\ (p \in Senders \/ p \in Forwarders \/ pc[p] \in {"idle", "store", "free"}) => cnt[p] = 0)'
    BY <1>1 DEF Known
  <1>8. (p \in Mails /\ pc[p] \in {"inc_open", "inc"} => cnt[p] > 1)'
    OBVIOUS
  <1>9. (p \in Forwarders /\ pc[p] # "idle" =>
         /\ \E h \in hdrs : TextOf(h) = msg[p]
         /\ (\E q \in Purgers : pc[q] # "idle") => \E h \in hdrs : TextOf(h) = msg[p] /\ Spared(h))'
    BY <1>1, <1>2, <1>3 DEF Known, Spared
  <1> QED
    BY <1>4, <1>5, <1>6, <1>7, <1>8, <1>9 DEF Known

LEMMA KindsUndoOpen ==
  ASSUME QuietBase, Kinds, NEW p \in Proc, UndoOpen(p)
  PROVE  Kinds'
  <1>0. pc[p] = "undo" /\ p \in Senders \cup Forwarders /\ p \notin Purgers /\ p \notin Mails /\ cnt[p] = 0
    BY Undoing DEF UndoOpen
  <1>1. Goto(p, "free") /\ UNCHANGED local /\ UNCHANGED base /\ UNCHANGED data
        /\ hdrLock' = hdrLock /\ daLock' = p /\ haLock' = haLock /\ daLock \in {None, p}
    BY DEF UndoOpen, CanOpenDa
  <1>2. pc'[p] = "free" /\ UNCHANGED <<msg, fld, cnt, hdrs, last, texts, late>> /\ OthersStay(p)
    BY <1>1, Stays DEF local, base
  <1>3. haLock # p /\ haLock \in Purgers \cup {None} /\ None # p
    BY <1>0, NoHa
  <1>4. LocksKept(p)
    BY <1>1, Disjoint DEF LocksKept
  <1>5. BesideOpen(p, pc[p]) => BesideOpen(p, pc'[p])
    BY <1>0, <1>2 DEF BesideOpen
  <1>6. BesidePurge(p, pc[p]) => BesidePurge(p, pc'[p])
    BY <1>0, <1>2 DEF BesidePurge
  <1>7. Allowed(p) /\ Quietly(p)
    BY <1>0, <1>5, <1>6 DEF Allowed, Quietly
  <1>8. Place(p)' /\ Owned(p)' /\ Still(p)'
    BY <1>0, <1>1, <1>2, <1>3, Disjoint DEF Place, SendPlaces, ForwardPlaces, Owned, Still, InPurge
  <1>9. Known(p)'
    BY <1>0, <1>2, KnownStays DEF NoTextYet, FirstField
  <1> QED
    BY <1>1, <1>3, <1>4, <1>7, <1>8, <1>9, DataSame, KindsMove

LEMMA KindsUndoOpenTimeout ==
  ASSUME QuietBase, Kinds, NEW p \in Proc, UndoOpenTimeout(p)
  PROVE  Kinds'
  <1>0. p \notin Purgers
    BY Undoing DEF UndoOpenTimeout
  <1>1. LocksKept(p) /\ haLock' = haLock
    BY DEF LocksKept, UndoOpenTimeout, locks
  <1> QED
    BY <1>0, <1>1, NoHa, DataSame, KindsReturn DEF UndoOpenTimeout

\* Only those that hold a text of their own free it.
LEMMA Freeing ==
  ASSUME Kinds, NEW p \in Proc, pc[p] = "free"
  PROVE  /\ p \in Senders \cup Forwarders \cup Mailers /\ p \notin Purgers /\ p \notin Listers
         /\ daLock = p /\ cnt[p] = 0
  <1>1. Place(p) /\ Known(p) /\ Owned(p)
    BY DEF Kinds
  <1>2. p \in Senders \cup Forwarders \cup Mailers
    BY <1>1 DEF Place, Proc, ListPlaces, PurgePlaces
  <1>3. p \notin Purgers /\ p \notin Listers
    BY <1>2, Disjoint
  <1> QED
    BY <1>1, <1>2, <1>3 DEF Owned, Known

LEMMA KindsFreeNothing ==
  ASSUME QuietBase, Kinds, NEW p \in Proc, FreeNothing(p)
  PROVE  Kinds'
  <1>0. p \notin Purgers /\ daLock = p
    BY Freeing DEF FreeNothing
  <1>1. LocksKept(p) /\ haLock' = haLock
    BY <1>0 DEF LocksKept, FreeNothing
  <1> QED
    BY <1>0, <1>1, NoHa, DataSame, KindsReturn DEF FreeNothing

LEMMA KindsFreeTimeout ==
  ASSUME QuietBase, Kinds, NEW p \in Proc, FreeFieldTimeout(p)
  PROVE  Kinds'
  <1>0. p \notin Purgers /\ daLock = p
    BY Freeing DEF FreeFieldTimeout
  <1>1. LocksKept(p) /\ haLock' = haLock
    BY <1>0 DEF LocksKept, FreeFieldTimeout
  <1> QED
    BY <1>0, <1>1, NoHa, DataSame, KindsReturn DEF FreeFieldTimeout

LEMMA SubSeqIs ==
  ASSUME NEW A, NEW s \in Seq(A), NEW n \in Nat, n <= Len(s)
  PROVE  /\ SubSeq(s, 1, n) \in Seq(A) /\ Len(SubSeq(s, 1, n)) = n
         /\ \A i \in 1..n : SubSeq(s, 1, n)[i] = s[i]
  OBVIOUS

\* What freeing a field does to the two files
LEMMA FreeIs ==
  ASSUME QuietBase, Kinds, NEW p \in Proc, pc[p] \notin NoTextYet, NEW x \in 1..Len(msg[p].lay),
         NEW r \in Nat, Free(p, x, r)
  PROVE  /\ DataTypes'
         /\ FreeFits(FieldBlocks(msg[p], x)) =>
              /\ leaked' = leaked
              /\ \A b \in Nat : RefsIn(sda', b) = IF b \in FieldBlocks(msg[p], x)
                                                  THEN Minus(RefsIn(sda, b), r) ELSE RefsIn(sda, b)
              /\ \A b \in Nat : RefsIn(sda', b) > 0 => sdt'[b + 1] = sdt[b + 1]
         /\ ~FreeFits(FieldBlocks(msg[p], x)) =>
              leaked' = (IF sda = <<>> THEN leaked ELSE leaked \cup Unfreed(p)) /\ sda' = sda /\ sdt' = sdt
  <1>0. sda \in Seq(Nat) /\ sdt \in Seq(Nat \X Nat) /\ Len(sdt) = Len(sda)
    BY DEF Kinds, Types
  <1>a. PICK f \in Nat, g \in Nat : f <= g /\ FieldBlocks(msg[p], x) = f..g
    BY HeldText, FieldInterval
  <1>1. PICK B \in {FieldBlocks(msg[p], x)} : B = f..g
    BY <1>a
  <1>2. CASE FreeFits(FieldBlocks(msg[p], x))
    <2>1. FreeFits(B) /\ sda' = FreeDat(B, r) /\ leaked' = leaked
          /\ sdt' = SubSeq(sdt, 1, IF Len(sda') < Len(sdt) THEN Len(sda') ELSE Len(sdt))
      <3>1. sda' = FreeDat(FieldBlocks(msg[p], x), r) /\ leaked' = leaked
            /\ sdt' = SubSeq(sdt, 1, IF Len(sda') < Len(sdt) THEN Len(sda') ELSE Len(sdt))
        BY <1>2 DEF Free
      <3> QED
        BY <1>1, <1>2, <3>1
    <2>2. /\ sda' \in Seq(Nat) /\ Len(sda') <= Len(sda)
          /\ \A b \in Nat : RefsIn(sda', b) = IF b \in B THEN Minus(RefsIn(sda, b), r) ELSE RefsIn(sda, b)
      <3>1. /\ FreeDat(B, r) \in Seq(Nat) /\ Len(FreeDat(B, r)) <= Len(sda)
            /\ \A b \in Nat : RefsIn(FreeDat(B, r), b) =
                                 IF b \in B THEN Minus(RefsIn(sda, b), r) ELSE RefsIn(sda, b)
        BY <1>0, <1>a, <1>1, <2>1, FreeDatIs
      <3>2. PICK t \in Seq(Nat) : t = FreeDat(B, r)
        BY <3>1
      <3>3. sda' = t
        BY <2>1, <3>2
      <3> QED
        BY <3>1, <3>2, <3>3
    <2>3. PICK n \in Nat : n = Len(sda')
      BY <2>2
    <2>4. n <= Len(sdt) /\ Len(sdt) \in Nat /\ n = IF n < Len(sdt) THEN n ELSE Len(sdt)
      BY <1>0, <2>2, <2>3
    <2>5. sdt' = SubSeq(sdt, 1, n)
      BY <2>1, <2>3, <2>4
    <2>6. sdt' \in Seq(Nat \X Nat) /\ Len(sdt') = n /\ \A i \in 1..n : sdt'[i] = sdt[i]
      <3>1. PICK A \in {Nat \X Nat} : A = Nat \X Nat
        OBVIOUS
      <3>2. /\ SubSeq(sdt, 1, n) \in Seq(A) /\ Len(SubSeq(sdt, 1, n)) = n
            /\ \A i \in 1..n : SubSeq(sdt, 1, n)[i] = sdt[i]
        BY <1>0, <2>4, <3>1, SubSeqIs
      <3>3. PICK t \in Seq(A) : t = SubSeq(sdt, 1, n)
        BY <3>2
      <3>4. Len(t) = n /\ \A i \in 1..n : t[i] = sdt[i]
        BY <3>2, <3>3
      <3>5. sdt' = t
        BY <2>5, <3>3
      <3> QED
        BY <3>1, <3>4, <3>5
    <2>7. ASSUME NEW b \in Nat, RefsIn(sda', b) > 0 PROVE sdt'[b + 1] = sdt[b + 1]
      <3>1. b < n
        BY <2>2, <2>3, <2>7, RefsNat
      <3>2. b + 1 \in 1..n
        BY <3>1
      <3> QED
        BY <2>6, <3>2
    <2> QED
      BY <1>1, <1>2, <2>1, <2>2, <2>3, <2>6, <2>7 DEF DataTypes
  <1>3. CASE ~FreeFits(FieldBlocks(msg[p], x))
    BY <1>0, <1>3 DEF Free, data, DataTypes
  <1> QED
    BY <1>2, <1>3

LEMMA KindsFreeField ==
  ASSUME QuietBase, Kinds, NEW p \in Proc, FreeField(p)
  PROVE  Kinds'
  <1>0. /\ pc[p] = "free" /\ p \in Senders \cup Forwarders \cup Mailers /\ p \notin Purgers
        /\ p \notin Listers /\ daLock = p /\ cnt[p] = 0
    BY Freeing DEF FreeField
  <1>1. /\ msg[p] \in TextsOf /\ fld[p] \in {1, 2} /\ fld[p] \in 1..Len(msg[p].lay) /\ Len(msg[p].lay) \in {1, 2}
    BY <1>0, HeldText DEF NoTextYet
  <1>2. PICK r \in Nat : r = IF p \in Mailers THEN AllRefs ELSE 1
    BY DEF AllRefs
  <1>3. DataTypes'
    BY <1>0, <1>1, <1>2, FreeIs DEF FreeField, NoTextYet
  <1>4. /\ hdrLock \in {None, p} /\ hdrLock' = None /\ haLock' = haLock /\ UNCHANGED base
        /\ daLock' \in {None, p}
    BY DEF FreeField, CanLock
  <1>5. LocksKept(p)
    BY <1>0, <1>4, Disjoint DEF LocksKept
  <1>6. haLock' # p /\ haLock' \in Purgers \cup {None}
    BY <1>0, <1>4, NoHa
  <1>7. CASE Finish(p)
    BY <1>3, <1>4, <1>5, <1>6, <1>7, KindsReturn
  <1>8. CASE /\ fld[p] < Len(msg[p].lay) /\ fld' = [fld EXCEPT ![p] = @ + 1]
             /\ Goto(p, IF p \in Mailers THEN "free" ELSE "undo") /\ UNCHANGED <<msg, cnt>>
             /\ daLock' = (IF p \in Mailers THEN p ELSE None)
    <2>1. fld[p] = 1 /\ Len(msg[p].lay) = 2
      <3>1. PICK i \in {1, 2}, j \in {1, 2} : i = fld[p] /\ j = Len(msg[p].lay)
        BY <1>1
      <3>a. fld[p] < Len(msg[p].lay)
        BY <1>8
      <3>2. i < j
        BY <3>a, <3>1
      <3>3. i = 1 /\ j = 2
        BY <3>2
      <3> QED
        BY <3>1, <3>3
    <2>2. pc = [q \in Proc |-> pc[q]] /\ fld \in [Proc -> {1, 2}] /\ Known(p) /\ Place(p)
      BY DEF Kinds, Types
    <2>3. /\ fld' \in [Proc -> {1, 2}] /\ fld'[p] = 2 /\ \A q \in Proc \ {p} : fld'[q] = fld[q]
      BY <1>8, <2>1, <2>2
    <2>4. PICK l \in {"free", "undo"} : l = IF p \in Mailers THEN "free" ELSE "undo"
      OBVIOUS
    <2>5. pc' = [q \in Proc |-> IF q = p THEN l ELSE pc[q]]
      BY <1>8, <2>2, <2>4 DEF Goto
    <2>6. OthersStay(p) /\ pc'[p] = l /\ pc' = [q \in Proc |-> pc'[q]]
      BY <1>8, <2>3, <2>5 DEF OthersStay
    <2>7. UNCHANGED <<msg, cnt, hdrs, texts, last, late>>
      BY <1>4, <1>8 DEF base
    <2>8. Types' /\ Numbers' /\ HdrsKept(p) /\ TextsKept(p)
      <3>1. Numbers' /\ HdrsKept(p) /\ TextsKept(p)
        BY <1>4, BaseSame
      <3> QED
        BY <1>3, <1>6, <2>3, <2>6, <2>7, <3>1 DEF Kinds, Types, DataTypes
    <2>9. Allowed(p) /\ Quietly(p)
      BY <1>0, <1>4 DEF Allowed, Quietly
    <2>10. Place(p)' /\ Owned(p)' /\ Still(p)'
      <3>1. Place(p)'
        BY <1>0, <2>2, <2>4, <2>6, Disjoint DEF Place, SendPlaces, ForwardPlaces, MailPlaces
      <3>2. Owned(p)'
        BY <1>6, <1>8, <2>4, <2>6 DEF Owned, InPurge
      <3>3. Still(p)'
        BY <2>4, <2>6 DEF Still, InPurge
      <3> QED
        BY <3>1, <3>2, <3>3
    <2>11. Known(p)'
      <3>1. pc'[p] \in {"free", "undo"} /\ pc[p] = "free"
        BY <1>0, <2>6
      <3>2. \A q \in Purgers : pc'[q] = pc[q]
        BY <1>0, <2>6, Disjoint DEF OthersStay
      <3>3. fld'[p] \in 1..Len(msg'[p].lay)
        BY <2>1, <2>3, <2>7
      <3>4. (pc[p] \notin NoTextYet => msg[p] \in TextsOf /\ fld[p] \in 1..Len(msg[p].lay) /\ msg[p].txt \in 1..texts)'
        <4>1. msg[p] \in TextsOf /\ msg[p].txt \in 1..texts
          BY <2>2, <3>1 DEF Known, NoTextYet
        <4> QED
          BY <2>7, <3>3, <4>1
      <3>5. (p \in Senders /\ pc[p] \notin NoTextYet => msg[p].lay \in SendLayouts)'
        BY <2>2, <2>7, <3>1 DEF Known, NoTextYet
      <3>6. (p \in Forwarders /\ pc[p] # "idle" =>
             /\ \E h \in hdrs : TextOf(h) = msg[p]
             /\ (\E q \in Purgers : pc[q] # "idle") => \E h \in hdrs : TextOf(h) = msg[p] /\ Spared(h))'
        BY <2>2, <2>7, <3>1, <3>2 DEF Known, Spared
      <3> QED
        BY <1>0, <2>7, <3>1, <3>4, <3>5, <3>6 DEF Known, FirstField
    <2> QED
      BY <1>5, <2>6, <2>8, <2>9, <2>10, <2>11, KindsStep
  <1> QED
    BY <1>7, <1>8 DEF FreeField

LEMMA Mailing ==
  ASSUME Kinds, NEW p \in Proc, pc[p] \in {"rcpt", "inc_open"}
  PROVE  p \in Mails /\ p \notin Purgers /\ p \notin Forwarders /\ p \notin Senders
  <1>1. Place(p)
    BY DEF Kinds
  <1>2. p \in Mails
    BY <1>1 DEF Place, Proc, SendPlaces, ForwardPlaces, PurgePlaces, Mails
  <1> QED
    BY <1>2, Disjoint

LEMMA Counting ==
  ASSUME Kinds, NEW p \in Proc, pc[p] = "inc"
  PROVE  /\ p \in Mails \cup Forwarders /\ p \notin Purgers /\ p \notin Senders /\ daLock = p
         /\ (p \in Mails => p \notin Forwarders /\ cnt[p] > 1)
         /\ (p \in Forwarders => p \notin Mails /\ cnt[p] = 0)
  <1>1. Place(p) /\ Owned(p) /\ Known(p)
    BY DEF Kinds
  <1>2. p \in Mails \cup Forwarders
    BY <1>1 DEF Place, Proc, SendPlaces, PurgePlaces, Mails
  <1> QED
    BY <1>1, <1>2, Disjoint DEF Owned, Known

LEMMA KindsAddRcpt ==
  ASSUME QuietBase, Kinds, NEW p \in Proc, AddRcpt(p)
  PROVE  Kinds'
  <1>0. pc[p] = "rcpt" /\ p \in Mails /\ p \notin Purgers /\ p \notin Forwarders /\ p \notin Senders
    BY Mailing DEF AddRcpt
  <1>1. PICK m \in TextsOf : m = msg[p] /\ m.txt \in 1..texts
    BY <1>0 DEF Kinds, Known, NoTextYet
  <1>2. hdrs' = hdrs \cup {NewHdr(m)} /\ last' = last + 1 /\ UNCHANGED <<texts, late, pc, msg, fld, locks>>
    BY <1>1 DEF AddRcpt
  <1>3. /\ Numbers' /\ last' \in Nat /\ hdrs' \subseteq HdrsOf /\ IsFiniteSet(hdrs')
        /\ HdrsKept(p) /\ TextsKept(p)
    BY <1>0, <1>1, <1>2, NewHdrIs
  <1>4. cnt \in [Proc -> Nat] /\ cnt' = [cnt EXCEPT ![p] = @ + 1]
    BY DEF AddRcpt, Kinds, Types
  <1>5. cnt' \in [Proc -> Nat] /\ \A q \in Proc \ {p} : cnt'[q] = cnt[q]
    BY <1>4
  <1>6. OthersStay(p)
    BY <1>2, <1>5 DEF OthersStay
  <1>7. DataTypes'
    BY DataSame DEF AddRcpt
  <1>8. Types'
    BY <1>2, <1>3, <1>5, <1>7 DEF Kinds, Types, locks, DataTypes
  <1>9. LocksKept(p) /\ Allowed(p) /\ Quietly(p)
    BY <1>2 DEF LocksKept, Allowed, Quietly, locks
  <1>10. Place(p)' /\ Owned(p)' /\ Still(p)'
    BY <1>2 DEF Kinds, Place, Owned, Still, locks
  <1>11. Known(p)'
    <2>1. Known(p)
      BY DEF Kinds
    <2> QED
      BY <1>0, <1>2, <2>1 DEF Known, NoTextYet, FirstField
  <1> QED
    BY <1>3, <1>6, <1>8, <1>9, <1>10, <1>11, KindsStep

LEMMA KindsSkipRcpt ==
  ASSUME QuietBase, Kinds, NEW p \in Proc, SkipRcpt(p)
  PROVE  Kinds'
  <1>0. pc[p] = "rcpt" /\ p \in Mails /\ p \notin Purgers /\ p \notin Forwarders /\ p \notin Senders
    BY Mailing DEF SkipRcpt
  <1>1. UNCHANGED <<pc, msg, fld>> /\ UNCHANGED locks /\ UNCHANGED data /\ UNCHANGED base
    BY DEF SkipRcpt
  <1>2. cnt \in [Proc -> Nat] /\ cnt' = [cnt EXCEPT ![p] = @ + 1]
    BY DEF SkipRcpt, Kinds, Types
  <1>3. cnt' \in [Proc -> Nat] /\ \A q \in Proc \ {p} : cnt'[q] = cnt[q]
    BY <1>2
  <1>4. OthersStay(p)
    BY <1>1, <1>3 DEF OthersStay
  <1>5. Numbers' /\ HdrsKept(p) /\ TextsKept(p)
    BY <1>1, BaseSame
  <1>6. Types'
    BY <1>1, <1>3 DEF Kinds, Types, locks, data, base
  <1>7. LocksKept(p) /\ Allowed(p) /\ Quietly(p)
    BY <1>1 DEF LocksKept, Allowed, Quietly, locks
  <1>8. Place(p)' /\ Owned(p)' /\ Still(p)'
    BY <1>1 DEF Kinds, Place, Owned, Still, locks, base
  <1>9. Known(p)'
    <2>1. Known(p)
      BY DEF Kinds
    <2> QED
      BY <1>0, <1>1, <2>1 DEF Known, NoTextYet, FirstField, base
  <1> QED
    BY <1>4, <1>5, <1>6, <1>7, <1>8, <1>9, KindsStep

\* What storing a text does to the two files
LEMMA Storing ==
  ASSUME QuietBase, Kinds, NEW p \in Proc, StoreText(p)
  PROVE  \E m \in TextsOf :
           /\ m.txt = texts + 1 /\ m.off \in Nat /\ m.lay \in Layouts /\ (p \in Senders => m.lay \in SendLayouts)
           /\ msg' = [msg EXCEPT ![p] = m]
           /\ \A b \in TextBlocks(m) : RefsIn(sda, b) = 0
           /\ DataTypes'
           /\ \A b \in Nat : RefsIn(sda', b) = IF b \in TextBlocks(m) THEN 1 ELSE RefsIn(sda, b)
           /\ \A b \in TextBlocks(m) : sdt'[b + 1] = <<m.txt, b - m.off>>
           /\ \A b \in Nat \ TextBlocks(m) : RefsIn(sda, b) > 0 => sdt'[b + 1] = sdt[b + 1]
  <1>2. sda \in Seq(Nat) /\ sdt \in Seq(Nat \X Nat) /\ Len(sdt) = Len(sda) /\ texts \in Nat
    BY DEF Kinds, Types
  <1>3. PICK lay \in IF p \in Senders THEN SendLayouts ELSE MailLayouts :
        \E off \in {FirstFit(DatBlocks(TextLen(lay))), Len(sda)} :
         LET m == [txt |-> texts + 1, off |-> off, lay |-> lay]
             B == TextBlocks(m)
         IN  /\ msg' = [msg EXCEPT ![p] = m]
             /\ sda' = Written(sda, B, [b \in B |-> 1], 0)
             /\ sdt' = Written(sdt, B, [b \in B |-> <<m.txt, b - off>>], <<0, 0>>)
    BY DEF StoreText
  <1>4. PICK off \in {FirstFit(DatBlocks(TextLen(lay))), Len(sda)} :
         LET m == [txt |-> texts + 1, off |-> off, lay |-> lay]
             B == TextBlocks(m)
         IN  /\ msg' = [msg EXCEPT ![p] = m]
             /\ sda' = Written(sda, B, [b \in B |-> 1], 0)
             /\ sdt' = Written(sdt, B, [b \in B |-> <<m.txt, b - off>>], <<0, 0>>)
    BY <1>3
  <1>5. lay \in Layouts /\ (p \in Senders => lay \in SendLayouts)
    BY <1>3 DEF Layouts
  <1>6. PICK n \in Nat \ {0} : n = DatBlocks(TextLen(lay))
    BY <1>5, TwoFields, SomeBlocks
  <1>7. off \in Nat /\ \A b \in off..off + n - 1 : RefsIn(sda, b) = 0
    <2>1. FirstFit(n) \in Nat /\ \A b \in FirstFit(n)..FirstFit(n) + n - 1 : RefsIn(sda, b) = 0
      BY <1>2, FirstFitFree
    <2>2. CASE off = FirstFit(n)
      BY <2>1, <2>2
    <2>3. CASE off = Len(sda)
      <3>1. off \in Nat /\ \A b \in off..off + n - 1 : ~(b < off)
        BY <1>2, <2>3
      <3> QED
        BY <2>3, <3>1 DEF RefsIn
    <2> QED
      BY <1>4, <1>6, <2>2, <2>3
  <1>8. PICK t \in Nat : t = texts + 1
    BY <1>2
  <1>9. PICK m \in TextsOf : m = [txt |-> t, off |-> off, lay |-> lay]
    BY <1>5, <1>7 DEF TextsOf
  <1>10. m.txt = t /\ m.off = off /\ m.lay = lay
    BY <1>9
  <1>11. /\ msg' = [msg EXCEPT ![p] = m]
         /\ sda' = Written(sda, TextBlocks(m), [b \in TextBlocks(m) |-> 1], 0)
         /\ sdt' = Written(sdt, TextBlocks(m), [b \in TextBlocks(m) |-> <<m.txt, b - off>>], <<0, 0>>)
    BY <1>4, <1>8, <1>9
  <1>12. TextBlocks(m) = off..off + n - 1
    BY <1>6, <1>10 DEF TextBlocks
  <1>13. PICK g \in Nat : g = off + n - 1 /\ off <= g
    BY <1>6, <1>7
  <1>14. PICK B \in {TextBlocks(m)} : B = off..g
    BY <1>12, <1>13
  <1>15. PICK v1 \in [B -> Nat] : v1 = [b \in B |-> 1]
    OBVIOUS
  <1>16. PICK u \in {sda'} : u = Written(sda, B, v1, 0)
    BY <1>11, <1>14, <1>15
  <1>17. RunWritten(Nat, u, sda, B, off, g, v1, 0)
    BY <1>2, <1>7, <1>13, <1>14, <1>16, WrittenIs
  <1>18. PICK A \in {Nat \X Nat} : A = Nat \X Nat
    OBVIOUS
  <1>19. PICK v \in [B -> A] : v = [b \in B |-> <<m.txt, b - off>>]
    <2>1. \A b \in B : b - off \in Nat
      BY <1>7, <1>13, <1>14
    <2>2. m.txt \in Nat
      BY <1>10
    <2> QED
      BY <1>18, <2>1, <2>2
  <1>20. PICK e \in A : e = <<0, 0>>
    BY <1>18
  <1>21. PICK s \in Seq(A) : s = sdt
    BY <1>2, <1>18
  <1>22. PICK w \in {sdt'} : w = Written(s, B, v, e)
    BY <1>11, <1>14, <1>19, <1>20, <1>21
  <1>23. RunWritten(A, w, s, B, off, g, v, e)
    BY <1>7, <1>13, <1>14, <1>22, WrittenIs
  <1>24. Len(u) = Len(w) /\ u \in Seq(Nat) /\ w \in Seq(A)
    <2>1. PICK k \in Nat : k = Len(sda) /\ k = Len(s)
      BY <1>2, <1>21
    <2>2. u \in Seq(Nat) /\ (g < k => Len(u) = k) /\ (g >= k => Len(u) = g + 1)
      BY <1>17, <2>1 DEF RunWritten
    <2>3. w \in Seq(A) /\ (g < k => Len(w) = k) /\ (g >= k => Len(w) = g + 1)
      BY <1>23, <2>1 DEF RunWritten
    <2>4. g < k \/ g >= k
      BY <1>13, <2>1
    <2> QED
      BY <2>2, <2>3, <2>4
  <1>25. DataTypes'
    BY <1>16, <1>18, <1>22, <1>24 DEF DataTypes
  <1>26. \A b \in B : sdt'[b + 1] = <<m.txt, b - m.off>>
    BY <1>10, <1>19, <1>22, <1>23 DEF RunWritten
  <1>27. \A b \in B : b \in Nat /\ b <= g /\ off <= b
    BY <1>7, <1>13, <1>14
  <1>28. ASSUME NEW b \in Nat, b \notin B, RefsIn(sda, b) > 0 PROVE sdt'[b + 1] = sdt[b + 1]
    <2>1. b < Len(sda)
      BY <1>2, <1>28, RefsNat
    <2> QED
      BY <1>2, <1>21, <1>22, <1>23, <1>28, <2>1 DEF RunWritten
  <1>29. ASSUME NEW b \in Nat PROVE RefsIn(u, b) = IF b \in B THEN 1 ELSE RefsIn(sda, b)
    <2>0. Len(sda) \in Nat /\ Len(u) \in Nat /\ Len(sda) <= Len(u) /\ g < Len(u)
          /\ (Len(u) = Len(sda) \/ Len(u) = g + 1)
      <3>1. PICK i \in Nat, j \in Nat : i = Len(sda) /\ j = Len(u)
        BY <1>2, <1>24
      <3>2. (g < Len(sda) => Len(u) = Len(sda)) /\ (g >= Len(sda) => Len(u) = g + 1)
        BY <1>17 DEF RunWritten
      <3>3. (g < i => j = i) /\ (g >= i => j = g + 1)
        BY <3>1, <3>2
      <3>4. i <= j /\ g < j /\ (j = i \/ j = g + 1)
        BY <3>3
      <3> QED
        BY <3>1, <3>4
    <2>1. CASE b \in B
      <3>1. u[b + 1] = 1 /\ b < Len(u)
        BY <1>15, <1>17, <1>27, <2>0, <2>1 DEF RunWritten
      <3> QED
        BY <2>1, <3>1 DEF RefsIn
    <2>2. CASE b \notin B /\ b < Len(sda)
      <3>1. u[b + 1] = sda[b + 1] /\ b < Len(u)
        BY <1>17, <2>0, <2>2 DEF RunWritten
      <3> QED
        BY <2>2, <3>1 DEF RefsIn
    <2>3. CASE b \notin B /\ b >= Len(sda)
      <3>1. b < Len(u) => u[b + 1] = 0
        <4>1. b < Len(u) => b <= g
          BY <2>0, <2>3
        <4> QED
          BY <1>17, <2>3, <4>1 DEF RunWritten
      <3>2. ~(b < Len(sda))
        BY <2>0, <2>3
      <3> QED
        BY <2>3, <3>1, <3>2 DEF RefsIn
    <2> QED
      BY <2>0, <2>1, <2>2, <2>3
  <1>30. \A b \in B : RefsIn(sda, b) = 0
    BY <1>7, <1>13, <1>14
  <1>31. B = TextBlocks(m) /\ u = sda'
    BY <1>14, <1>16
  <1>32. \A b \in Nat : RefsIn(sda', b) = IF b \in B THEN 1 ELSE RefsIn(sda, b)
    BY <1>29, <1>31
  <1> QED
    BY <1>5, <1>7, <1>8, <1>10, <1>11, <1>25, <1>26, <1>28, <1>30, <1>31, <1>32

LEMMA KindsStoreText ==
  ASSUME QuietBase, Kinds, NEW p \in Senders \cup Mails, StoreText(p)
  PROVE  Kinds'
  <1>0. p \in Proc /\ p \notin Purgers /\ p \notin Forwarders /\ pc[p] = "store"
        /\ (p \in Senders => p \notin Mails /\ p \notin Mailers /\ p \notin Listers)
        /\ (p \notin Senders => p \in Mails)
    BY Disjoint DEF StoreText
  <1>1. Place(p) /\ Owned(p) /\ Known(p) /\ Still(p) /\ hdrLock = p /\ texts < MaxTexts /\ cnt[p] = 0 /\ fld[p] = 1
    BY <1>0 DEF Kinds, Owned, Known, FirstField
  <1>2. sda \in Seq(Nat) /\ sdt \in Seq(Nat \X Nat) /\ Len(sdt) = Len(sda) /\ texts \in Nat /\ MaxTexts \in Nat
    BY SmbStoreAssumption DEF Kinds, Types
  <1>3. PICK m \in TextsOf :
           /\ m.txt = texts + 1 /\ m.off \in Nat /\ m.lay \in Layouts /\ (p \in Senders => m.lay \in SendLayouts)
           /\ msg' = [msg EXCEPT ![p] = m]
           /\ DataTypes'
    BY <1>0, Storing
  <1>7. PICK t \in Nat : t = texts + 1
    BY <1>2
  <1>9. m.txt = t /\ DataTypes'
    BY <1>3, <1>7
  <1>13. PICK l \in {"hdr", "rcpt"} : Goto(p, l) /\ (l = "hdr" <=> p \in Senders)
    BY DEF StoreText
  <1>14. /\ pc' = [q \in Proc |-> pc'[q]] /\ pc'[p] = l /\ msg' \in [Proc -> TextsOf \cup {NoText}]
         /\ msg'[p] = m /\ OthersStay(p) /\ UNCHANGED <<fld, cnt>>
    <2>1. pc = [q \in Proc |-> pc[q]] /\ msg \in [Proc -> TextsOf \cup {NoText}]
      BY DEF Kinds, Types
    <2>2. pc' = [q \in Proc |-> IF q = p THEN l ELSE pc[q]]
      BY <1>13, <2>1 DEF Goto
    <2>3. msg' \in [Proc -> TextsOf \cup {NoText}] /\ msg'[p] = m /\ \A q \in Proc \ {p} : msg'[q] = msg[q]
      BY <1>0, <1>3, <2>1
    <2>4. UNCHANGED <<fld, cnt>>
      BY DEF StoreText
    <2> QED
      BY <1>0, <2>2, <2>3, <2>4 DEF OthersStay
  <1>15. texts' = t /\ UNCHANGED <<hdrs, last, late, haLock>> /\ daLock' = None /\ daLock \in {None, p}
         /\ hdrLock' \in {None, p} /\ (l = "hdr" => hdrLock' = p)
    BY <1>1, <1>7, <1>13 DEF StoreText, CanOpenDa
  <1>16. haLock # p /\ haLock \in Purgers \cup {None}
    BY <1>0, NoHa
  <1>17. t \in Nat /\ t <= MaxTexts /\ texts <= t
    BY <1>1, <1>2, <1>7
  <1>18. Types' /\ Numbers' /\ HdrsKept(p) /\ TextsKept(p)
    <2>1. Types'
      BY <1>9, <1>14, <1>15, <1>16, <1>17 DEF Kinds, Types, DataTypes
    <2>2. \A i \in 1..texts : i \in 1..t
      BY <1>2, <1>17
    <2>3. Numbers'
      BY <1>15, <2>2 DEF Kinds, Numbers
    <2> QED
      BY <1>1, <1>7, <1>15, <2>1, <2>3 DEF HdrsKept, TextsKept
  <1>19. LocksKept(p)
    BY <1>0, <1>1, <1>15, Disjoint DEF LocksKept
  <1>20. Allowed(p) /\ Quietly(p)
    BY <1>0, <1>1, <1>15 DEF Allowed, Quietly
  <1>21. Place(p)' /\ Owned(p)' /\ Still(p)'
    BY <1>0, <1>1, <1>13, <1>14, <1>15, <1>16, Disjoint
       DEF Place, SendPlaces, MailPlaces, ListPlaces, Owned, Still, InPurge, Mails
  <1>22. Known(p)'
    <2>1. Len(m.lay) \in {1, 2} /\ 1 \in 1..Len(m.lay)
      BY <1>3, TwoFields, OneOrTwo
    <2>2. t \in 1..t
      BY <1>2, <1>7
    <2>3. pc'[p] \in {"hdr", "rcpt"}
      BY <1>14
    <2> QED
      BY <1>0, <1>1, <1>3, <1>9, <1>14, <1>15, <2>1, <2>2, <2>3 DEF Known, NoTextYet, FirstField
  <1> QED
    BY <1>0, <1>14, <1>18, <1>19, <1>20, <1>21, <1>22, KindsStep

\* A mailer or lister goes on to count, or to free.
LEMMA KindsMailMove ==
  ASSUME QuietBase, Kinds, NEW p \in Proc, pc[p] \in {"rcpt", "inc_open"}, NEW l \in {"free", "inc_open", "inc"},
         Goto(p, l), UNCHANGED local, UNCHANGED base, UNCHANGED data, UNCHANGED <<hdrLock, haLock>>,
         daLock \in {None, p} \/ UNCHANGED daLock, l # "inc_open" => daLock' = p,
         l = "free" => cnt[p] = 0 /\ p \in Mailers,
         l # "free" => cnt[p] > 1,
         l = "inc_open" => p \in Listers
  PROVE  Kinds'
  <1>0. p \in Mails /\ p \notin Purgers /\ p \notin Forwarders /\ p \notin Senders
    BY Mailing
  <1>1. Place(p) /\ Known(p)
    BY DEF Kinds
  <1>2. pc'[p] = l /\ UNCHANGED <<msg, fld, cnt, hdrs, last, texts, late>> /\ OthersStay(p)
    BY Stays DEF local, base
  <1>3. haLock # p /\ haLock \in Purgers \cup {None} /\ None # p
    BY <1>0, NoHa
  <1>4. LocksKept(p)
    BY Disjoint DEF LocksKept
  <1>5. ~BesideOpen(p, pc[p]) /\ ~BesidePurge(p, pc[p])
    BY <1>0 DEF BesideOpen, BesidePurge
  <1>6. Allowed(p) /\ Quietly(p)
    BY <1>0, <1>5 DEF Allowed, Quietly
  <1>7. Place(p)'
    BY <1>0, <1>2, <1>1, Disjoint DEF Place, MailPlaces, ListPlaces
  <1>8. Owned(p)' /\ Still(p)'
    BY <1>2, <1>3 DEF Owned, Still, InPurge
  <1>9. Known(p)'
    <2>1. fld[p] = 1
      BY <1>1 DEF Known, FirstField
    <2> QED
      BY <1>0, <1>2, <2>1, KnownStays DEF NoTextYet, FirstField
  <1> QED
    BY <1>3, <1>4, <1>6, <1>7, <1>8, <1>9, DataSame, KindsMove

LEMMA KindsCount ==
  ASSUME QuietBase, Kinds, NEW p \in Mailers, Count(p)
  PROVE  Kinds'
  <1>0. p \in Proc /\ p \notin Purgers /\ pc[p] = "rcpt" /\ daLock \in {None, p}
    BY Disjoint DEF Count, CanOpenDa
  <1>1. cnt[p] \in Nat
    BY <1>0 DEF Kinds, Types
  <1>2. CASE cnt[p] = 1
    <2>1. Finish(p) /\ daLock' = None /\ haLock' = haLock /\ hdrLock' = hdrLock
      BY <1>2 DEF Count
    <2>2. LocksKept(p)
      BY <1>0, <2>1, Disjoint DEF LocksKept
    <2>3. haLock' # p /\ haLock' \in Purgers \cup {None}
      BY <1>0, <2>1, NoHa
    <2> QED
      BY <1>0, <2>1, <2>2, <2>3, DataSame, KindsReturn DEF Count
  <1>3. CASE cnt[p] = 0
    <2>1. Goto(p, "free") /\ UNCHANGED local /\ daLock' = p
      BY <1>3 DEF Count
    <2> QED
      BY <1>0, <1>3, <2>1, KindsMailMove DEF Count
  <1>4. CASE cnt[p] \notin {0, 1}
    <2>1. Goto(p, "inc") /\ UNCHANGED local /\ daLock' = p
      BY <1>4 DEF Count
    <2>2. cnt[p] > 1
      BY <1>1, <1>4
    <2> QED
      BY <1>0, <2>1, <2>2, KindsMailMove DEF Count
  <1> QED
    BY <1>2, <1>3, <1>4

\* A call that fails without touching the files
LEMMA KindsGiveUp ==
  ASSUME QuietBase, Kinds, NEW p \in Proc, p \notin Purgers, Finish(p), UNCHANGED locks, UNCHANGED data, UNCHANGED base
  PROVE  Kinds'
  <1>1. LocksKept(p) /\ haLock' = haLock
    BY DEF LocksKept, locks
  <1> QED
    BY <1>1, NoHa, DataSame, KindsReturn

LEMMA KindsCountTimeout ==
  ASSUME QuietBase, Kinds, NEW p \in Proc, CountTimeout(p)
  PROVE  Kinds'
  BY Mailing, KindsGiveUp DEF CountTimeout

LEMMA KindsListDone ==
  ASSUME QuietBase, Kinds, NEW p \in Listers, ListDone(p)
  PROVE  Kinds'
  <1>0. p \in Proc /\ p \notin Purgers /\ pc[p] = "rcpt"
    BY Disjoint DEF ListDone
  <1>1. CASE cnt[p] > 1
    <2>1. Goto(p, "inc_open") /\ UNCHANGED local
      BY <1>1 DEF ListDone
    <2>2. UNCHANGED <<hdrLock, haLock, daLock>>
      BY DEF ListDone, locks
    <2> QED
      BY <1>0, <1>1, <2>1, <2>2, KindsMailMove DEF ListDone
  <1>2. CASE ~(cnt[p] > 1)
    BY <1>0, <1>2, KindsGiveUp DEF ListDone
  <1> QED
    BY <1>1, <1>2

LEMMA KindsIncOpen ==
  ASSUME QuietBase, Kinds, NEW p \in Proc, IncOpen(p)
  PROVE  Kinds'
  <1>1. pc[p] = "inc_open" /\ p \in Mails
    BY Mailing DEF IncOpen
  <1>2. cnt[p] > 1
    BY <1>1 DEF Kinds, Known
  <1> QED
    BY <1>1, <1>2, KindsMailMove DEF IncOpen, CanOpenDa

LEMMA KindsIncOpenTimeout ==
  ASSUME QuietBase, Kinds, NEW p \in Proc, IncOpenTimeout(p)
  PROVE  Kinds'
  BY Mailing, KindsGiveUp DEF IncOpenTimeout

LEMMA KindsIncTimeout ==
  ASSUME QuietBase, Kinds, NEW p \in Proc, IncRefsTimeout(p)
  PROVE  Kinds'
  <1>0. p \notin Purgers /\ daLock = p
    BY Counting DEF IncRefsTimeout
  <1>1. LocksKept(p) /\ haLock' = haLock
    BY <1>0 DEF LocksKept, IncRefsTimeout
  <1> QED
    BY <1>0, <1>1, NoHa, DataSame, KindsReturn DEF IncRefsTimeout

\* A block has some number of a text's fields.
LEMMA FieldsNat ==
  ASSUME QuietBase, NEW m, m.off \in Nat, m.lay \in Layouts, NEW b \in Nat
  PROVE  Fields(m, b) \in {0, 1, 2}
  BY InTwo

LEMMA ModNat ==
  ASSUME NEW a \in Nat, NEW n \in Nat \ {0}
  PROVE  a % n \in Nat /\ (a < n => a % n = a)
  OBVIOUS

\* smb_incdat adds to the counts of the blocks of a text.
LEMMA IncDatIs ==
  ASSUME QuietBase, sda \in Seq(Nat), NEW m, m.off \in Nat, m.lay \in Layouts, NEW r \in Nat,
         NEW t, t = IncDat(m, r)
  PROVE  /\ t \in Seq(Nat) /\ Len(t) = Len(sda)
         /\ (\A i \in 1..Len(sda) : sda[i] + r * Fields(m, i - 1) < RefWidth) =>
              \A b \in Nat : RefsIn(t, b) = IF b < Len(sda) THEN RefsIn(sda, b) + r * Fields(m, b) ELSE 0
  <1> DEFINE V(i) == (sda[i] + r * Fields(m, i - 1)) % RefWidth
  <1>0. RefWidth \in Nat \ {0} /\ Len(sda) \in Nat
    BY SmbStoreAssumption
  <1>1. ASSUME NEW i \in 1..Len(sda)
        PROVE  V(i) \in Nat /\ (sda[i] + r * Fields(m, i - 1) < RefWidth => V(i) = sda[i] + r * Fields(m, i - 1))
    <2>1. i - 1 \in Nat /\ sda[i] \in Nat
      OBVIOUS
    <2>2. PICK k \in {0, 1, 2} : k = Fields(m, i - 1)
      BY <2>1, FieldsNat
    <2>3. PICK v \in Nat : v = r * k
      <3>1. r * 0 = 0 /\ r * 1 = r /\ r * 2 = r + r
        OBVIOUS
      <3> QED
        BY <3>1
    <2>4. PICK a \in Nat : a = sda[i] + v
      BY <2>1
    <2>5. a % RefWidth \in Nat /\ (a < RefWidth => a % RefWidth = a)
      BY <1>0, ModNat
    <2> QED
      BY <2>2, <2>3, <2>4, <2>5
  <1>2. t = [i \in 1..Len(sda) |-> V(i)]
    BY DEF IncDat
  <1>3. t \in Seq(Nat) /\ Len(t) = Len(sda) /\ \A i \in 1..Len(sda) : t[i] = V(i)
    <2>1. t \in [1..Len(sda) -> Nat]
      BY <1>1, <1>2
    <2>2. \A i \in 1..Len(sda) : t[i] = V(i)
      BY <1>2
    <2>3. t \in Seq(Nat) /\ Len(t) = Len(sda)
      <3> HIDE DEF V
      <3>1. PICK n \in Nat : n = Len(sda)
        BY <1>0
      <3>2. t \in [1..n -> Nat]
        BY <2>1, <3>1
      <3>3. t \in Seq(Nat) /\ Len(t) = n
        BY <3>2
      <3> QED
        BY <3>1, <3>3
    <2> QED
      BY <2>2, <2>3
  <1>4. ASSUME \A i \in 1..Len(sda) : sda[i] + r * Fields(m, i - 1) < RefWidth, NEW b \in Nat
        PROVE  RefsIn(t, b) = IF b < Len(sda) THEN RefsIn(sda, b) + r * Fields(m, b) ELSE 0
    <2>1. CASE b < Len(sda)
      <3>1. b + 1 \in 1..Len(sda) /\ b + 1 - 1 = b
        BY <1>0, <2>1
      <3>2. PICK i \in 1..Len(sda) : i = b + 1 /\ i - 1 = b
        BY <3>1
      <3>3. t[i] = sda[i] + r * Fields(m, i - 1)
        BY <1>1, <1>3, <1>4
      <3>4. RefsIn(t, b) = t[i] /\ RefsIn(sda, b) = sda[i]
        BY <1>3, <2>1, <3>2 DEF RefsIn
      <3> QED
        BY <2>1, <3>2, <3>3, <3>4
    <2>2. CASE ~(b < Len(sda))
      BY <1>3, <2>2 DEF RefsIn
    <2> QED
      BY <2>1, <2>2
  <1> HIDE DEF V
  <1> QED
    BY <1>3, <1>4

LEMMA KindsIncRefs ==
  ASSUME QuietBase, Kinds, NEW p \in Proc, IncRefs(p)
  PROVE  Kinds'
  <1>0. /\ pc[p] = "inc" /\ p \in Mails \cup Forwarders /\ p \notin Purgers /\ p \notin Senders /\ daLock = p
        /\ (p \in Mails => p \notin Forwarders /\ cnt[p] > 1)
        /\ (p \in Forwarders => p \notin Mails /\ cnt[p] = 0)
    BY Counting DEF IncRefs
  <1>1. /\ msg[p] \in TextsOf /\ msg[p].off \in Nat /\ msg[p].lay \in Layouts /\ fld[p] = 1
        /\ cnt[p] \in Nat
    BY <1>0, HeldText DEF NoTextYet, FirstField, Kinds, Types
  <1>2. PICK r \in Nat : r = IF p \in Forwarders THEN 1 ELSE cnt[p] - 1
    BY <1>0, <1>1
  <1>3. sda \in Seq(Nat) /\ sdt \in Seq(Nat \X Nat) /\ Len(sdt) = Len(sda)
    BY DEF Kinds, Types
  <1>4. PICK t \in {sda'} : t = IncDat(msg[p], r)
    BY <1>2 DEF IncRefs
  <1>5. t \in Seq(Nat) /\ Len(t) = Len(sda)
    BY <1>1, <1>3, <1>4, IncDatIs
  <1>6. DataTypes'
    BY <1>3, <1>4, <1>5 DEF DataTypes, IncRefs
  <1>7. UNCHANGED base /\ haLock' = haLock /\ hdrLock \in {None, p} /\ hdrLock' = None /\ daLock' \in {None, p}
    BY DEF IncRefs, CanLock
  <1>8. LocksKept(p)
    BY <1>0, <1>7, Disjoint DEF LocksKept
  <1>9. haLock' # p /\ haLock' \in Purgers \cup {None}
    BY <1>0, <1>7, NoHa
  <1>10. CASE Finish(p)
    BY <1>6, <1>7, <1>8, <1>9, <1>10, KindsReturn
  <1>11. CASE p \in Forwarders /\ Goto(p, "fwd_hdr") /\ UNCHANGED local
    <2>1. pc'[p] = "fwd_hdr" /\ UNCHANGED <<msg, fld, cnt, hdrs, last, texts, late>> /\ OthersStay(p)
      BY <1>7, <1>11, Stays DEF local, base
    <2>2. Allowed(p) /\ Quietly(p)
      BY <1>0, <1>7 DEF Allowed, Quietly
    <2>3. Place(p)' /\ Owned(p)' /\ Still(p)'
      BY <1>0, <1>9, <1>11, <2>1, Disjoint DEF Place, ForwardPlaces, Owned, Still, InPurge
    <2>4. Known(p)'
      BY <1>0, <1>1, <2>1, KnownStays DEF NoTextYet, FirstField
    <2> QED
      BY <1>6, <1>7, <1>8, <1>9, <1>11, <2>2, <2>3, <2>4, KindsMove
  <1> QED
    BY <1>10, <1>11 DEF IncRefs

LEMMA KindsForward ==
  ASSUME QuietBase, Kinds, NEW p \in Forwarders, Forward(p)
  PROVE  Kinds'
  <1>0. p \in Proc /\ p \notin Purgers /\ p \notin Mails /\ p \notin Mailers /\ p \notin Listers /\ p \notin Senders
    BY Disjoint
  <1>1. PICK h \in hdrs : ~h.marked /\ msg' = [msg EXCEPT ![p] = [txt |-> h.txt, off |-> h.off, lay |-> h.lay]]
    BY DEF Forward
  <1>2. h \in HdrsOf /\ h.txt \in 1..texts
    BY DEF Kinds, Types, Numbers
  <1>3. PICK m \in TextsOf : m = TextOf(h)
    BY <1>2 DEF HdrsOf, TextsOf, TextOf
  <1>4. m.txt = h.txt /\ m.lay \in Layouts
    BY <1>3 DEF TextOf, TextsOf
  <1>5. msg' = [msg EXCEPT ![p] = m] /\ msg \in [Proc -> TextsOf \cup {NoText}]
    BY <1>1, <1>3 DEF TextOf, Kinds, Types
  <1>6. /\ msg' \in [Proc -> TextsOf \cup {NoText}] /\ msg'[p] = m
        /\ \A q \in Proc \ {p} : msg'[q] = msg[q]
    BY <1>0, <1>5
  <1>7. Goto(p, "fwd") /\ UNCHANGED <<fld, cnt>> /\ UNCHANGED locks /\ UNCHANGED base /\ UNCHANGED data /\ pc[p] = "idle"
    BY DEF Forward
  <1>8. pc = [q \in Proc |-> pc[q]] /\ Known(p)
    BY <1>0 DEF Kinds, Types
  <1>9. pc' = [q \in Proc |-> IF q = p THEN "fwd" ELSE pc[q]]
    BY <1>7, <1>8 DEF Goto
  <1>10. OthersStay(p) /\ pc'[p] = "fwd" /\ pc' = [q \in Proc |-> pc'[q]]
    BY <1>0, <1>6, <1>7, <1>9 DEF OthersStay
  <1>11. Numbers' /\ HdrsKept(p) /\ TextsKept(p) /\ last' \in Nat /\ UNCHANGED <<hdrs, texts, last, late>>
    BY <1>0, <1>7, BaseSame DEF base
  <1>12. Types'
    <2>1. DataTypes'
      BY <1>7, DataSame
    <2> QED
      BY <1>6, <1>7, <1>10, <1>11, <2>1 DEF Kinds, Types, DataTypes, locks
  <1>13. LocksKept(p) /\ UNCHANGED <<hdrLock, daLock, haLock>>
    BY <1>7 DEF LocksKept, locks
  <1>14. Allowed(p) /\ Quietly(p)
    BY <1>0, <1>10 DEF Allowed, Quietly, BesideOpen, BesidePurge
  <1>15. Place(p)' /\ Owned(p)' /\ Still(p)'
    BY <1>0, <1>10, <1>13, NoHa DEF Place, ForwardPlaces, Owned, Still, InPurge
  <1>16. Known(p)'
    <2>1. fld'[p] = 1 /\ fld'[p] \in 1..Len(m.lay)
      <3>1. fld[p] = 1
        BY <1>7, <1>8 DEF Known, FirstField
      <3>2. 1 \in 1..Len(m.lay)
        BY <1>4, TwoFields, OneOrTwo
      <3> QED
        BY <1>7, <3>1, <3>2
    <2>2. cnt'[p] = 0
      BY <1>0, <1>7, <1>8 DEF Known
    <2>3. h \in hdrs' /\ TextOf(h) = msg'[p] /\ Spared(h)'
      BY <1>1, <1>3, <1>6, <1>11 DEF Spared
    <2> QED
      BY <1>0, <1>2, <1>4, <1>6, <1>10, <1>11, <2>1, <2>2, <2>3 DEF Known, FirstField, NoTextYet
  <1> QED
    BY <1>0, <1>10, <1>11, <1>12, <1>13, <1>14, <1>15, <1>16, KindsStep

LEMMA KindsForwardOpen ==
  ASSUME QuietBase, Kinds, NEW p \in Forwarders, ForwardOpen(p)
  PROVE  Kinds'
  <1>0. p \in Proc /\ p \notin Purgers /\ p \notin Mails /\ p \notin Mailers /\ p \notin Listers /\ p \notin Senders
    BY Disjoint
  <1>1. Goto(p, "inc") /\ UNCHANGED local /\ UNCHANGED base /\ UNCHANGED data /\ pc[p] = "fwd"
        /\ hdrLock' = hdrLock /\ daLock' = p /\ haLock' = haLock /\ daLock \in {None, p}
    BY DEF ForwardOpen, CanOpenDa
  <1>2. pc'[p] = "inc" /\ UNCHANGED <<msg, fld, cnt, hdrs, last, texts, late>> /\ OthersStay(p)
    BY <1>0, <1>1, Stays DEF local, base
  <1>3. haLock # p /\ haLock \in Purgers \cup {None} /\ None # p
    BY <1>0, NoHa
  <1>4. LocksKept(p)
    BY <1>1, Disjoint DEF LocksKept
  <1>5. Allowed(p) /\ Quietly(p)
    BY <1>0, <1>1, <1>2 DEF Allowed, Quietly, BesideOpen
  <1>6. Place(p)' /\ Owned(p)' /\ Still(p)'
    BY <1>0, <1>1, <1>2, <1>3 DEF Place, ForwardPlaces, Owned, Still, InPurge
  <1>7. Known(p)'
    <2>1. Known(p)
      BY <1>0 DEF Kinds
    <2>2. fld[p] = 1
      BY <1>1, <2>1 DEF Known, FirstField
    <2> QED
      BY <1>0, <1>1, <1>2, <2>2, KnownStays DEF NoTextYet, FirstField
  <1> QED
    BY <1>0, <1>1, <1>3, <1>4, <1>5, <1>6, <1>7, DataSame, KindsMove

LEMMA KindsForwardTimeout ==
  ASSUME QuietBase, Kinds, NEW p \in Forwarders, ForwardOpenTimeout(p)
  PROVE  Kinds'
  BY Disjoint, KindsGiveUp DEF ForwardOpenTimeout

\* Purges
LEMMA Purger ==
  ASSUME Kinds, NEW p \in Purgers
  PROVE  /\ p \in Proc /\ p \notin Mails /\ p \notin Mailers /\ p \notin Listers /\ p \notin Senders /\ p \notin Forwarders
         /\ None # p /\ Allowed(p)
         /\ Place(p) /\ Owned(p) /\ Still(p) /\ Known(p)
  <1>1. p \in Proc /\ p \notin Mails /\ p \notin Mailers /\ p \notin Listers /\ p \notin Senders /\ p \notin Forwarders /\ None # p
    BY Disjoint
  <1>2. Allowed(p)
    BY <1>1 DEF Allowed, BesideOpen, BesidePurge
  <1> QED
    BY <1>1, <1>2 DEF Kinds

LEMMA KindsPurgeLock ==
  ASSUME QuietBase, Kinds, NEW p \in Purgers, PurgeLock(p)
  PROVE  Kinds'
  <1>0. /\ p \in Proc /\ p \notin Mails /\ p \notin Mailers /\ p \notin Listers /\ p \notin Senders /\ p \notin Forwarders
        /\ None # p /\ Allowed(p) /\ Place(p) /\ Owned(p) /\ Known(p)
    BY Purger
  <1>1. Goto(p, "pg_open") /\ UNCHANGED local /\ UNCHANGED base /\ UNCHANGED data /\ pc[p] = "idle"
        /\ hdrLock = None /\ hdrLock' = p /\ daLock' = daLock /\ haLock' = haLock
    BY DEF PurgeLock
  <1>2. \A q \in Mails \cup Forwarders : pc[q] = "idle"
    BY DEF PurgeLock, QuietBase, Mails
  <1>3. pc'[p] = "pg_open" /\ UNCHANGED <<msg, fld, cnt, hdrs, last, texts, late>> /\ OthersStay(p)
    BY <1>0, <1>1, Stays DEF local, base
  <1>4. LocksKept(p)
    BY <1>1, Disjoint DEF LocksKept
  <1>5. Quietly(p)
    BY <1>2 DEF Quietly
  <1>6. Place(p)'
    BY <1>0, <1>3 DEF Place, PurgePlaces
  <1>7. Owned(p)'
    BY <1>0, <1>1, <1>3 DEF Owned, InPurge
  <1>8. Still(p)'
    <2>1. ASSUME NEW q \in Proc PROVE BesideOpen(q, pc'[q])
      <3>1. CASE q = p
        BY <1>0, <3>1 DEF BesideOpen
      <3>2. CASE q # p
        BY <1>2, <1>3, <3>2 DEF BesideOpen, OthersStay
      <3> QED
        BY <3>1, <3>2
    <2> QED
      BY <1>3, <2>1 DEF Still, InPurge
  <1>9. Known(p)'
    BY <1>0, <1>3 DEF Known, FirstField, NoTextYet
  <1>10. haLock' \in Purgers \cup {None}
    BY <1>1 DEF Kinds, Types
  <1> QED
    BY <1>0, <1>1, <1>4, <1>5, <1>6, <1>7, <1>8, <1>9, <1>10, DataSame, KindsMove

LEMMA KindsPurgeOpen ==
  ASSUME QuietBase, Kinds, NEW p \in Purgers, PurgeOpen(p)
  PROVE  Kinds'
  <1>0. /\ p \in Proc /\ p \notin Mails /\ p \notin Mailers /\ p \notin Listers /\ p \notin Senders /\ p \notin Forwarders
        /\ None # p /\ Allowed(p) /\ Place(p) /\ Owned(p) /\ Still(p) /\ Known(p)
    BY Purger
  <1>1. Goto(p, "pg_scan") /\ UNCHANGED local /\ UNCHANGED base /\ UNCHANGED data /\ pc[p] = "pg_open"
        /\ daLock = None /\ hdrLock' = hdrLock /\ daLock' = p /\ haLock' = p
    BY DEF PurgeOpen
  <1>2. hdrLock = p
    BY <1>0, <1>1 DEF Owned
  <1>3. pc'[p] = "pg_scan" /\ UNCHANGED <<msg, fld, cnt, hdrs, last, texts, late>> /\ OthersStay(p)
    BY <1>0, <1>1, Stays DEF local, base
  <1>4. \A q \in Proc : haLock # q
    <2> SUFFICES ASSUME NEW q \in Proc, haLock = q PROVE FALSE
      OBVIOUS
    <2>1. Owned(q)
      BY DEF Kinds
    <2> QED
      BY <1>1, <2>1, Disjoint DEF Owned, InPurge
  <1>5. LocksKept(p)
    BY <1>1, <1>4, Disjoint DEF LocksKept
  <1>6. Quietly(p)
    BY <1>1 DEF Quietly
  <1>7. Place(p)' /\ Owned(p)'
    BY <1>0, <1>1, <1>3 DEF Place, PurgePlaces, Owned, InPurge
  <1>8. Still(p)'
    <2>1. ASSUME NEW q \in Proc PROVE BesidePurge(q, pc'[q])
      <3>1. CASE q = p
        BY <1>0, <3>1 DEF BesidePurge
      <3>2. CASE q # p
        <4>1. pc'[q] = pc[q] /\ BesideOpen(q, pc[q]) /\ Owned(q)
          BY <1>0, <1>1, <1>3, <3>2 DEF Still, OthersStay, Kinds
        <4>2. pc[q] # "inc" /\ pc[q] # "hdr"
          BY <1>1, <1>2, <3>2, <4>1, Disjoint DEF Owned
        <4> QED
          BY <4>1, <4>2 DEF BesideOpen, BesidePurge
      <3> QED
        BY <3>1, <3>2
    <2> QED
      BY <1>3, <2>1 DEF Still, InPurge
  <1>9. Known(p)'
    BY <1>0, <1>3 DEF Known, FirstField, NoTextYet
  <1>10. haLock' \in Purgers \cup {None}
    BY <1>1
  <1> QED
    BY <1>0, <1>1, <1>5, <1>6, <1>7, <1>8, <1>9, <1>10, DataSame, KindsMove

LEMMA KindsPurgeReturn ==
  ASSUME QuietBase, Kinds, NEW p \in Purgers, PurgeReturn(p)
  PROVE  Kinds'
  <1>0. p \in Proc /\ Owned(p) /\ pc[p] = "pg_open" /\ haLock' = haLock
    BY Purger DEF PurgeReturn
  <1>1. hdrLock = p /\ haLock # p
    BY <1>0 DEF Owned, InPurge
  <1>2. LocksKept(p)
    BY <1>1 DEF LocksKept, PurgeReturn
  <1>3. haLock' # p /\ haLock' \in Purgers \cup {None}
    BY <1>0, <1>1 DEF Kinds, Types
  <1> QED
    BY <1>0, <1>2, <1>3, DataSame, KindsReturn DEF PurgeReturn

\* A header as a purge writes it back
Rewritten(h) == [h EXCEPT !.marked = @ /\ h.num \notin late]

LEMMA RewrittenIs ==
  ASSUME Kinds, NEW h \in hdrs
  PROVE  /\ Rewritten(h) \in HdrsOf /\ TextOf(Rewritten(h)) = TextOf(h)
         /\ Rewritten(h).num = h.num /\ Rewritten(h).txt = h.txt
         /\ Rewritten(h).off = h.off /\ Rewritten(h).lay = h.lay
         /\ (Rewritten(h).marked <=> ~Spared(h))
  <1>1. h \in HdrsOf
    BY DEF Kinds, Types
  <1>2. PICK k \in HdrsOf : k = Rewritten(h)
    <2>1. PICK e \in BOOLEAN : e = (h.marked /\ h.num \notin late)
      OBVIOUS
    <2>2. [h EXCEPT !.marked = e] \in HdrsOf
      BY <1>1 DEF HdrsOf
    <2> QED
      BY <2>1, <2>2 DEF Rewritten
  <1>3. k.num = h.num /\ k.txt = h.txt /\ k.off = h.off /\ k.lay = h.lay /\ (k.marked <=> h.marked /\ h.num \notin late)
    BY <1>1, <1>2 DEF Rewritten, HdrsOf
  <1>4. TextOf(k) = TextOf(h)
    BY <1>3 DEF TextOf
  <1> QED
    BY <1>2, <1>3, <1>4 DEF Spared

\* Writing the headers back keeps how many there are.
LEMMA RewrittenAll ==
  ASSUME Kinds, NEW H \in SUBSET hdrs
  PROVE  IsFiniteSet({Rewritten(h) : h \in H})
  <1> DEFINE K == {Rewritten(h) : h \in H}
             F == [h \in H |-> Rewritten(h)]
  <1>1. F \in [H -> K] /\ \A k \in K : \E h \in H : F[h] = k
    OBVIOUS
  <1>2. F \in Surjection(H, K)
    <2> HIDE DEF F, K
    <2> QED
      BY <1>1, Fun_IsSurj
  <1>3. IsFiniteSet(H)
    BY FS_Subset DEF Kinds, Types
  <1> HIDE DEF F, K
  <1>4. IsFiniteSet(K)
    BY <1>2, <1>3, FS_Surjection
  <1> QED
    BY <1>4 DEF K

LEMMA KindsPurgeClose ==
  ASSUME QuietBase, Kinds, NEW p \in Purgers, PurgeClose(p)
  PROVE  Kinds'
  <1>0. p \in Proc /\ Owned(p) /\ pc[p] = "pg_scan" /\ haLock' = None /\ None # p /\ None \notin Proc
    BY Purger, Disjoint DEF PurgeClose
  <1>1. daLock = p /\ haLock = p
    BY <1>0 DEF Owned, InPurge
  <1>2. LocksKept(p)
    BY <1>0, <1>1 DEF LocksKept, PurgeClose, Unlocked
  <1>3. hdrs' = {Rewritten(h) : h \in hdrs} /\ late' = {} /\ UNCHANGED <<last, texts>>
    BY DEF PurgeClose, Rewritten
  <1>4. hdrs' \subseteq HdrsOf /\ IsFiniteSet(hdrs')
    BY <1>3, RewrittenIs, RewrittenAll
  <1>5. Numbers' /\ last' \in Nat
    <2>1. \A h \in hdrs' : h.num <= last /\ h.txt \in 1..texts
      BY <1>3, RewrittenIs DEF Kinds, Numbers
    <2>2. ASSUME NEW g \in hdrs', NEW h \in hdrs', g.num = h.num PROVE g = h
      <3>1. PICK f \in hdrs, e \in hdrs : g = Rewritten(f) /\ h = Rewritten(e)
        BY <1>3
      <3>2. f.num = e.num
        BY <2>2, <3>1, RewrittenIs
      <3> QED
        BY <3>1, <3>2 DEF Kinds, Numbers
    <2> QED
      BY <1>3, <2>1, <2>2 DEF Kinds, Types, Numbers
  <1>6. HdrsKept(p)
    <2> SUFFICES ASSUME NEW f \in Forwarders, pc[f] # "idle"
                 PROVE  \E h \in hdrs' : TextOf(h) = msg[f] /\ (h.marked => h.num \in late')
      BY <1>1 DEF HdrsKept
    <2>1. PICK h \in hdrs : TextOf(h) = msg[f] /\ Spared(h)
      BY <1>0, Disjoint DEF Kinds, Known
    <2>2. TextOf(Rewritten(h)) = msg[f] /\ ~Rewritten(h).marked
      BY <2>1, RewrittenIs
    <2> QED
      BY <1>3, <2>2
  <1>7. DataTypes'
    BY DataSame DEF PurgeClose
  <1> QED
    BY <1>0, <1>2, <1>3, <1>4, <1>5, <1>6, <1>7, KindsEnd DEF PurgeClose, DataTypes

LEMMA KindsPurgeNext ==
  ASSUME QuietBase, Kinds, NEW p \in Purgers, PurgeNext(p)
  PROVE  Kinds'
  <1>0. /\ p \in Proc /\ p \notin Mails /\ p \notin Mailers /\ p \notin Listers /\ p \notin Senders /\ p \notin Forwarders
        /\ None # p /\ Allowed(p) /\ Place(p) /\ Owned(p) /\ Still(p) /\ Known(p) /\ pc[p] = "pg_scan"
    BY Purger DEF PurgeNext
  <1>1. PICK h \in hdrs : /\ h.marked /\ msg' = [msg EXCEPT ![p] = [txt |-> h.txt, off |-> h.off, lay |-> h.lay]]
                          /\ cnt' = [cnt EXCEPT ![p] = h.num] /\ late' = late \ {h.num}
                          /\ (h.num \in late => ~Forwarded(h))
    BY DEF PurgeNext, Ahead, QuietBase
  <1>2. h \in HdrsOf /\ h.txt \in 1..texts /\ h.num \in Nat
    BY DEF Kinds, Types, Numbers, HdrsOf
  <1>3. PICK m \in TextsOf : m = TextOf(h)
    BY <1>2 DEF HdrsOf, TextsOf, TextOf
  <1>4. m.txt = h.txt /\ m.lay \in Layouts
    BY <1>3 DEF TextOf, TextsOf
  <1>5. /\ msg' = [msg EXCEPT ![p] = m] /\ msg \in [Proc -> TextsOf \cup {NoText}]
        /\ fld \in [Proc -> {1, 2}] /\ cnt \in [Proc -> Nat] /\ pc = [q \in Proc |-> pc[q]]
    BY <1>1, <1>3 DEF TextOf, Kinds, Types
  <1>6. /\ msg' \in [Proc -> TextsOf \cup {NoText}] /\ msg'[p] = m
        /\ \A q \in Proc \ {p} : msg'[q] = msg[q]
    BY <1>0, <1>5
  <1>7. /\ cnt' \in [Proc -> Nat] /\ cnt'[p] = h.num
        /\ \A q \in Proc \ {p} : cnt'[q] = cnt[q]
    BY <1>0, <1>1, <1>2, <1>5
  <1>8. Goto(p, "pg_free") /\ fld' = [fld EXCEPT ![p] = 1] /\ UNCHANGED locks /\ UNCHANGED <<hdrs, last, texts>> /\ UNCHANGED data
    BY DEF PurgeNext
  <1>9. /\ fld' \in [Proc -> {1, 2}] /\ fld'[p] = 1
        /\ \A q \in Proc \ {p} : fld'[q] = fld[q]
    BY <1>0, <1>5, <1>8
  <1>10. pc' = [q \in Proc |-> IF q = p THEN "pg_free" ELSE pc[q]]
    BY <1>5, <1>8 DEF Goto
  <1>11. OthersStay(p) /\ pc'[p] = "pg_free" /\ pc' = [q \in Proc |-> pc'[q]]
    BY <1>0, <1>6, <1>7, <1>9, <1>10 DEF OthersStay
  <1>12. Numbers' /\ HdrsKept(p) /\ TextsKept(p) /\ last' \in Nat /\ UNCHANGED <<hdrs, texts, last>>
    <2>1. Numbers' /\ TextsKept(p) /\ last' \in Nat
      BY <1>1, <1>8 DEF Kinds, Types, Numbers, TextsKept
    <2>2. ASSUME NEW f \in Forwarders, pc[f] # "idle"
          PROVE  \E g \in hdrs' : TextOf(g) = msg[f] /\ (g.marked => g.num \in late')
      <3>1. PICK g \in hdrs : TextOf(g) = msg[f] /\ Spared(g)
        BY <1>0, <2>2, Disjoint DEF Kinds, Known
      <3>2. g # h
        <4>1. g.txt = msg[f].txt
          BY <3>1, SameText
        <4> QED
          BY <1>1, <2>2, <3>1, <4>1 DEF Spared, Forwarded
      <3>3. g.num # h.num
        BY <3>2 DEF Kinds, Numbers
      <3> QED
        BY <1>1, <1>8, <3>1, <3>3 DEF Spared
    <2>3. haLock = p
      BY <1>0 DEF Owned, InPurge
    <2> QED
      BY <1>8, <2>1, <2>2, <2>3 DEF HdrsKept
  <1>13. LocksKept(p) /\ UNCHANGED <<hdrLock, daLock, haLock>>
    BY <1>8 DEF LocksKept, locks
  <1>14. Types'
    <2>1. DataTypes'
      BY <1>8, DataSame
    <2> QED
      BY <1>6, <1>7, <1>9, <1>11, <1>12, <1>13, <2>1 DEF Kinds, Types, DataTypes
  <1>15. Quietly(p)
    BY <1>0 DEF Quietly
  <1>16. Place(p)' /\ Owned(p)'
    BY <1>0, <1>11, <1>13 DEF Place, PurgePlaces, Owned, InPurge
  <1>17. Still(p)'
    <2>1. ASSUME NEW q \in Proc PROVE BesidePurge(q, pc'[q])
      <3>1. CASE q = p
        BY <1>0, <3>1 DEF BesidePurge
      <3>2. CASE q # p
        BY <1>0, <1>11, <3>2 DEF OthersStay, Still, InPurge
      <3> QED
        BY <3>1, <3>2
    <2> QED
      BY <1>11, <2>1 DEF Still
  <1>18. Known(p)'
    <2>1. 1 \in 1..Len(m.lay)
      BY <1>4, TwoFields, OneOrTwo
    <2>2. h \in hdrs' /\ h.num = cnt'[p] /\ ~Spared(h)' /\ TextOf(h) = msg'[p]
      BY <1>1, <1>3, <1>6, <1>7, <1>12 DEF Spared
    <2> QED
      BY <1>0, <1>2, <1>4, <1>6, <1>9, <1>11, <1>12, <2>1, <2>2 DEF Known, FirstField, NoTextYet
  <1> QED
    BY <1>0, <1>11, <1>12, <1>13, <1>14, <1>15, <1>16, <1>17, <1>18, KindsStep

\* What delmail drops is the marked header whose text it frees.
LEMMA DroppedOne ==
  ASSUME Kinds, NEW p \in Purgers, pc[p] = "pg_free"
  PROVE  \E h \in hdrs : h.num = cnt[p] /\ ~Spared(h) /\ TextOf(h) = msg[p] /\ Dropped(p) = hdrs \ {h}
  <1>1. Known(p)
    BY Purger
  <1>2. PICK h \in hdrs : h.num = cnt[p] /\ ~Spared(h) /\ TextOf(h) = msg[p]
    BY <1>1 DEF Known
  <1>3. \A g \in hdrs : g.num = cnt[p] <=> g = h
    BY <1>2 DEF Kinds, Numbers
  <1> QED
    BY <1>2, <1>3 DEF Dropped

LEMMA KindsPurgeDrop ==
  ASSUME QuietBase, Kinds, NEW p \in Purgers, pc[p] = "pg_free", Goto(p, "pg_scan"),
         hdrs' = Dropped(p), UNCHANGED <<daLock, haLock, last, texts, late, local>>, hdrLock \in {None, p} \/ UNCHANGED hdrLock,
         DataTypes'
  PROVE  Kinds'
  <1>0. /\ p \in Proc /\ p \notin Mails /\ p \notin Mailers /\ p \notin Listers /\ p \notin Senders /\ p \notin Forwarders
        /\ None # p /\ Allowed(p) /\ Place(p) /\ Owned(p) /\ Still(p) /\ Known(p)
    BY Purger
  <1>1. PICK h \in hdrs : ~Spared(h) /\ hdrs' = hdrs \ {h}
    BY DroppedOne
  <1>2. OthersStay(p) /\ pc'[p] = "pg_scan" /\ pc' = [q \in Proc |-> pc'[q]] /\ UNCHANGED <<msg, fld, cnt>>
    BY <1>0, Stays DEF local
  <1>3. Numbers' /\ hdrs' \subseteq HdrsOf /\ IsFiniteSet(hdrs')
    BY <1>1, FS_RemoveElement DEF Kinds, Types, Numbers
  <1>4. HdrsKept(p) /\ TextsKept(p)
    <2>1. ASSUME NEW f \in Forwarders, pc[f] # "idle"
          PROVE  \E g \in hdrs' : TextOf(g) = msg[f] /\ (g.marked => g.num \in late')
      <3>1. PICK g \in hdrs : TextOf(g) = msg[f] /\ Spared(g)
        BY <2>1, Disjoint DEF Kinds, Known
      <3> QED
        BY <1>1, <3>1 DEF Spared
    <2>2. haLock = p
      BY <1>0 DEF Owned, InPurge
    <2> QED
      BY <2>1, <2>2 DEF HdrsKept, TextsKept
  <1>5. Types'
    BY <1>2, <1>3 DEF Kinds, Types, DataTypes
  <1>6. LocksKept(p)
    BY Disjoint DEF LocksKept
  <1>7. Quietly(p)
    BY DEF Quietly
  <1>8. Place(p)' /\ Owned(p)'
    BY <1>0, <1>2 DEF Place, PurgePlaces, Owned, InPurge
  <1>9. Still(p)'
    <2>1. ASSUME NEW q \in Proc PROVE BesidePurge(q, pc'[q])
      <3>1. CASE q = p
        BY <1>0, <3>1 DEF BesidePurge
      <3>2. CASE q # p
        BY <1>0, <1>2, <3>2 DEF OthersStay, Still, InPurge
      <3> QED
        BY <3>1, <3>2
    <2> QED
      BY <1>2, <2>1 DEF Still
  <1>10. Known(p)'
    BY <1>0, <1>2 DEF Known, FirstField, NoTextYet
  <1> QED
    BY <1>0, <1>2, <1>3, <1>4, <1>5, <1>6, <1>7, <1>8, <1>9, <1>10, KindsStep

\* The first of two fields is freed.
LEMMA FirstOfTwo ==
  ASSUME QuietBase, Kinds, NEW p \in Proc, pc[p] \notin NoTextYet, fld[p] < Len(msg[p].lay)
  PROVE  fld[p] = 1 /\ Len(msg[p].lay) = 2
  <1>1. PICK i \in {1, 2}, j \in {1, 2} : i = fld[p] /\ j = Len(msg[p].lay)
    BY HeldText
  <1>2. i < j
    BY <1>1
  <1>3. i = 1 /\ j = 2
    BY <1>2
  <1> QED
    BY <1>1, <1>3

LEMMA KindsPurgeFree ==
  ASSUME QuietBase, Kinds, NEW p \in Purgers, PurgeFree(p)
  PROVE  Kinds'
  <1>0. /\ p \in Proc /\ p \notin Mails /\ p \notin Mailers /\ p \notin Listers /\ p \notin Senders /\ p \notin Forwarders
        /\ None # p /\ Allowed(p) /\ Place(p) /\ Owned(p) /\ Still(p) /\ Known(p) /\ pc[p] = "pg_free"
    BY Purger DEF PurgeFree
  <1>1. /\ msg[p] \in TextsOf /\ fld[p] \in {1, 2} /\ fld[p] \in 1..Len(msg[p].lay) /\ Len(msg[p].lay) \in {1, 2}
    BY <1>0, HeldText DEF NoTextYet
  <1>2. DataTypes'
    <2>1. Free(p, fld[p], 1) /\ 1 \in Nat
      BY DEF PurgeFree
    <2> QED
      BY <1>0, <1>1, <2>1, FreeIs DEF NoTextYet
  <1>3. UNCHANGED <<daLock, haLock, last, texts, late, msg, cnt>> /\ (hdrLock \in {None, p} \/ UNCHANGED hdrLock)
    BY DEF PurgeFree, CanLock
  <1>4. CASE hdrs' = Dropped(p) /\ Goto(p, "pg_scan") /\ UNCHANGED fld
    BY <1>0, <1>2, <1>3, <1>4, KindsPurgeDrop DEF local
  <1>5. CASE fld[p] < Len(msg[p].lay) /\ fld' = [fld EXCEPT ![p] = @ + 1] /\ UNCHANGED <<pc, hdrs>>
    <2>1. fld[p] = 1 /\ Len(msg[p].lay) = 2
      BY <1>0, <1>5, FirstOfTwo DEF NoTextYet
    <2>2. fld \in [Proc -> {1, 2}] /\ pc = [q \in Proc |-> pc[q]]
      BY DEF Kinds, Types
    <2>3. /\ fld' \in [Proc -> {1, 2}] /\ fld'[p] = 2 /\ \A q \in Proc \ {p} : fld'[q] = fld[q]
      BY <1>0, <1>5, <2>1, <2>2
    <2>4. OthersStay(p)
      BY <1>3, <1>5, <2>3 DEF OthersStay
    <2>5. UNCHANGED base
      BY <1>3, <1>5 DEF base
    <2>6. Numbers' /\ HdrsKept(p) /\ TextsKept(p)
      BY <1>0, <2>5, BaseSame
    <2>7. Types'
      BY <1>2, <1>3, <1>5, <2>2, <2>3 DEF Kinds, Types, DataTypes
    <2>8. LocksKept(p)
      BY <1>3, Disjoint DEF LocksKept
    <2>9. Quietly(p)
      BY <1>5 DEF Quietly
    <2>10. Place(p)' /\ Owned(p)' /\ Still(p)'
      BY <1>0, <1>3, <1>5 DEF Place, Owned, Still, InPurge
    <2>11. Known(p)'
      <3>1. fld'[p] \in 1..Len(msg'[p].lay)
        BY <1>3, <2>1, <2>3
      <3> QED
        BY <1>0, <1>1, <1>3, <1>5, <3>1 DEF Known, Spared, FirstField, NoTextYet
    <2> QED
      BY <1>0, <2>4, <2>6, <2>7, <2>8, <2>9, <2>10, <2>11, KindsStep
  <1> QED
    BY <1>4, <1>5 DEF PurgeFree

LEMMA KindsPurgeFreeTimeout ==
  ASSUME QuietBase, Kinds, NEW p \in Purgers, PurgeFreeTimeout(p)
  PROVE  Kinds'
  BY DataSame, KindsPurgeDrop DEF PurgeFreeTimeout, locks

LEMMA KindsCloseBase ==
  ASSUME QuietBase, Kinds, NEW p \in Proc, CloseBase(p)
  PROVE  Kinds'
  <1>0. pc[p] = "idle" /\ daLock = p /\ daLock' = None /\ UNCHANGED <<pc, msg, fld, cnt, hdrLock, haLock, hdrs, texts>>
        /\ UNCHANGED base /\ UNCHANGED data
    BY DEF CloseBase, local, base
  <1>1. OthersStay(p) /\ LocksKept(p)
    BY <1>0 DEF OthersStay, LocksKept
  <1>2. Allowed(p) /\ Quietly(p)
    BY <1>0 DEF Allowed, Quietly
  <1>3. Place(p)' /\ Owned(p)' /\ Still(p)' /\ Known(p)'
    BY <1>0 DEF Kinds, Place, Owned, Still, Known, InPurge
  <1>4. Numbers' /\ HdrsKept(p) /\ TextsKept(p)
    BY <1>0, BaseSame
  <1>5. Types'
    BY <1>0, DataSame DEF Kinds, Types, DataTypes, base
  <1> QED
    BY <1>1, <1>2, <1>3, <1>4, <1>5, KindsStep

\* The messages after one has been marked for deletion
LEMMA Marked ==
  ASSUME Kinds, Mark
  PROVE  \E h \in hdrs, k \in HdrsOf :
           /\ ~h.marked /\ k.marked /\ k.num = h.num /\ k.txt = h.txt /\ k.off = h.off /\ k.lay = h.lay
           /\ TextOf(k) = TextOf(h) /\ k \notin hdrs \ {h} /\ hdrs' = (hdrs \ {h}) \cup {k}
           /\ late' = IF haLock = None THEN late ELSE late \cup {h.num}
  <1>1. PICK h \in hdrs : /\ ~h.marked /\ hdrs' = (hdrs \ {h}) \cup {[h EXCEPT !.marked = TRUE]}
                          /\ late' = IF haLock = None THEN late ELSE late \cup {h.num}
    BY DEF Mark
  <1>2. h \in HdrsOf /\ \A g \in hdrs : g.num = h.num => g = h
    BY DEF Kinds, Types, Numbers
  <1>3. PICK k \in HdrsOf : k = [h EXCEPT !.marked = TRUE]
    BY <1>2 DEF HdrsOf
  <1>4. k.marked /\ k.num = h.num /\ k.txt = h.txt /\ k.off = h.off /\ k.lay = h.lay
    BY <1>2, <1>3 DEF HdrsOf
  <1>5. TextOf(k) = TextOf(h) /\ k \notin hdrs \ {h}
    BY <1>2, <1>4 DEF TextOf
  <1> QED
    BY <1>1, <1>3, <1>4, <1>5

LEMMA KindsMark ==
  ASSUME QuietBase, Kinds, Mark
  PROVE  Kinds'
  <1>0. /\ hdrLock = None /\ None \notin Proc
        /\ UNCHANGED <<pc, msg, fld, cnt, hdrLock, daLock, haLock, last, texts>> /\ UNCHANGED data
    BY Disjoint DEF Mark, locks, local
  <1>1. PICK h \in hdrs, k \in HdrsOf :
           /\ ~h.marked /\ k.marked /\ k.num = h.num /\ k.txt = h.txt
           /\ TextOf(k) = TextOf(h) /\ hdrs' = (hdrs \ {h}) \cup {k}
           /\ late' = IF haLock = None THEN late ELSE late \cup {h.num}
    BY Marked
  <1>2. IsFiniteSet(hdrs')
    <2>1. IsFiniteSet(hdrs \ {h})
      BY FS_RemoveElement DEF Kinds, Types
    <2> QED
      BY <1>1, <2>1, FS_AddElement
  <1>3. Types'
    BY <1>0, <1>1, <1>2, DataSame DEF Kinds, Types, DataTypes
  <1>4. Numbers'
    <2>1. \A g \in hdrs : g.num <= last /\ g.txt \in 1..texts
      BY DEF Kinds, Numbers
    <2>2. \A f, g \in hdrs : f.num = g.num => f = g
      BY DEF Kinds, Numbers
    <2>3. late \subseteq 0..last /\ \A g \in hdrs : g.num \in late => g.marked
      BY DEF Kinds, Numbers
    <2>4. h.num \in 0..last
      <3>1. h.num \in Nat /\ h.num <= last /\ last \in Nat
        BY <2>1 DEF Kinds, Types, HdrsOf
      <3> QED
        BY <3>1
    <2>5. late' \subseteq 0..last'
      BY <1>0, <1>1, <2>3, <2>4
    <2>6. \A g \in hdrs' : g.num \in late' => g.marked
      BY <1>1, <2>2, <2>3
    <2>7. /\ \A g \in hdrs' : g.num <= last' /\ g.txt \in 1..texts'
          /\ \A f, g \in hdrs' : f.num = g.num => f = g
      BY <1>0, <1>1, <2>1, <2>2
    <2> QED
      BY <2>5, <2>6, <2>7 DEF Numbers
  <1>5. ASSUME NEW p \in Proc PROVE Place(p)' /\ Owned(p)' /\ Still(p)' /\ Known(p)'
    <2>1. Place(p) /\ Owned(p) /\ Still(p) /\ Known(p)
      BY DEF Kinds
    <2>2. Place(p)' /\ Owned(p)' /\ Still(p)'
      BY <1>0, <2>1 DEF Place, Owned, Still
    <2>3. (\E g \in hdrs : TextOf(g) = msg[p]) => \E g \in hdrs' : TextOf(g) = msg[p]
      BY <1>1
    <2>4. ASSUME \E q \in Purgers : pc[q] # "idle", \E g \in hdrs : TextOf(g) = msg[p] /\ Spared(g)
          PROVE  \E g \in hdrs' : TextOf(g) = msg[p] /\ Spared(g)'
      <3>1. haLock # None
        <4>1. PICK q \in Purgers : pc[q] # "idle"
          BY <2>4
        <4>2. Place(q) /\ Owned(q) /\ q \in Proc
          BY Purger
        <4> QED
          BY <1>0, <4>1, <4>2 DEF Place, PurgePlaces, Owned, InPurge
      <3>2. PICK g \in hdrs : TextOf(g) = msg[p] /\ Spared(g)
        BY <2>4
      <3>3. CASE g = h
        BY <1>1, <3>1, <3>2, <3>3 DEF Spared
      <3>4. CASE g # h
        BY <1>1, <3>1, <3>2, <3>4 DEF Spared
      <3> QED
        BY <3>3, <3>4
    <2>5. ASSUME \E g \in hdrs : g.num = cnt[p] /\ ~Spared(g) /\ TextOf(g) = msg[p]
          PROVE  \E g \in hdrs' : g.num = cnt[p] /\ ~Spared(g)' /\ TextOf(g) = msg[p]
      <3>1. PICK g \in hdrs : g.num = cnt[p] /\ ~Spared(g) /\ TextOf(g) = msg[p]
        BY <2>5
      <3>2. g # h /\ g.num # h.num
        BY <1>1, <3>1 DEF Spared, Kinds, Numbers
      <3> QED
        BY <1>1, <3>1, <3>2 DEF Spared
    <2>6. Known(p)'
      BY <1>0, <2>1, <2>3, <2>4, <2>5 DEF Known
    <2> QED
      BY <2>2, <2>6
  <1> QED
    BY <1>3, <1>4, <1>5 DEF Kinds

LEMMA KindsInit == ASSUME Init PROVE Kinds
  <1>1. Types
    <2>1. pc = [p \in Proc |-> pc[p]]
      BY DEF Init
    <2>2. sda \in Seq(Nat) /\ sdt \in Seq(Nat \X Nat) /\ Len(sdt) = Len(sda)
      BY DEF Init
    <2>3. last \in Nat /\ texts \in Nat /\ texts <= MaxTexts
      BY SmbStoreAssumption DEF Init
    <2>4. hdrs \subseteq HdrsOf /\ IsFiniteSet(hdrs)
      BY FS_EmptySet DEF Init
    <2>5. msg \in [Proc -> TextsOf \cup {NoText}]
      <3>1. PICK m \in TextsOf \cup {NoText} : m = NoText
        OBVIOUS
      <3> QED
        BY <3>1 DEF Init
    <2>6. fld \in [Proc -> {1, 2}] /\ cnt \in [Proc -> Nat] /\ haLock \in Purgers \cup {None}
      BY DEF Init
    <2> QED
      BY <2>1, <2>2, <2>3, <2>4, <2>5, <2>6 DEF Types
  <1>2. Numbers
    BY DEF Init, Numbers
  <1>3. ASSUME NEW p \in Proc PROVE Place(p) /\ Owned(p) /\ Still(p) /\ Known(p)
    <2>1. pc[p] = "idle" /\ fld[p] = 1 /\ cnt[p] = 0 /\ haLock # p
      BY Disjoint DEF Init
    <2>2. Place(p)
      BY <2>1 DEF Place, SendPlaces, MailPlaces, ListPlaces, ForwardPlaces, PurgePlaces
    <2>3. Owned(p) /\ Still(p)
      BY <2>1 DEF Owned, Still, InPurge
    <2>4. Known(p)
      BY <2>1 DEF Known, FirstField, NoTextYet
    <2> QED
      BY <2>2, <2>3, <2>4
  <1> QED
    BY <1>1, <1>2, <1>3 DEF Kinds

LEMMA KindsStutter ==
  ASSUME Kinds, UNCHANGED vars
  PROVE  Kinds'
  <1>1. Types' /\ Numbers'
    BY DEF Kinds, Types, Numbers, vars
  <1>2. \A p \in Proc : Place(p)' /\ Owned(p)' /\ Still(p)'
    BY DEF Kinds, Place, Owned, Still, vars
  <1>3. \A p \in Proc : Known(p)'
    BY DEF Kinds, Known, Spared, vars
  <1> QED
    BY <1>1, <1>2, <1>3 DEF Kinds

LEMMA KindsNext ==
  ASSUME QuietBase, Kinds, [Next]_vars
  PROVE  Kinds'
  <1>1. ASSUME NEW p \in Senders, SendStep(p) PROVE Kinds'
    BY <1>1, Disjoint, KindsAddLock, KindsStoreText, KindsStoreTimeout, KindsAddHdr, KindsAddHdrFails, KindsUndoOpen,
       KindsUndoOpenTimeout, KindsFreeNothing, KindsFreeField, KindsFreeTimeout DEF SendStep, UndoStep
  <1>2. ASSUME NEW p \in Mailers, MailStep(p) PROVE Kinds'
    BY <1>2, Disjoint, KindsAddLock, KindsStoreText, KindsStoreTimeout, KindsAddRcpt, KindsSkipRcpt,
       KindsCount, KindsCountTimeout,
       KindsIncRefs, KindsIncTimeout, KindsFreeNothing, KindsFreeField, KindsFreeTimeout DEF MailStep
  <1>3. ASSUME NEW p \in Listers, ListStep(p) PROVE Kinds'
    BY <1>3, Disjoint, KindsAddLock, KindsStoreText, KindsStoreTimeout, KindsAddRcpt, KindsListDone, KindsIncOpen,
       KindsIncOpenTimeout, KindsIncRefs, KindsIncTimeout DEF ListStep
  <1>4. ASSUME NEW p \in Forwarders, ForwardStep(p) PROVE Kinds'
    BY <1>4, Disjoint, KindsForward, KindsForwardOpen, KindsForwardTimeout, KindsIncRefs, KindsIncTimeout, KindsAddHdr,
       KindsAddHdrFails, KindsUndoOpen, KindsUndoOpenTimeout, KindsFreeNothing, KindsFreeField, KindsFreeTimeout
       DEF ForwardStep, UndoStep
  <1>5. ASSUME NEW p \in Purgers, PurgeStep(p) PROVE Kinds'
    BY <1>5, KindsPurgeLock, KindsPurgeOpen, KindsPurgeReturn, KindsPurgeNext, KindsPurgeFree, KindsPurgeFreeTimeout,
       KindsPurgeClose DEF PurgeStep
  <1> QED
    BY <1>1, <1>2, <1>3, <1>4, <1>5, KindsCloseBase, KindsMark, KindsStutter DEF Next

-----------------------------------------------------------------------------
(* Headers, owners and references of a block.                               *)

LEMMA HeadersAre ==
  ASSUME QuietBase, Kinds, NEW b \in Nat
  PROVE  /\ Pointers(Headers(b)) /\ Uses(Headers(b), b) \in Nat
         /\ \A h \in Headers(b) : /\ h \in hdrs /\ h.off \in Nat /\ h.lay \in Layouts
                                  /\ Fields(h, b) \in {1, 2} /\ Uses(Headers(b), b) >= Fields(h, b)
         /\ Headers(b) = {} => Uses(Headers(b), b) = 0
  <1>1. Headers(b) \subseteq hdrs /\ IsFiniteSet(hdrs) /\ hdrs \subseteq HdrsOf
    BY DEF Headers, Kinds, Types
  <1>2. IsFiniteSet(Headers(b))
    BY <1>1, FS_Subset
  <1>3. Pointers(Headers(b))
    BY <1>1, <1>2 DEF Pointers, HdrsOf
  <1>4. Uses(Headers(b), b) \in Nat
    BY <1>3, UsesNat
  <1>5. ASSUME NEW h \in Headers(b)
        PROVE  /\ h \in hdrs /\ h.off \in Nat /\ h.lay \in Layouts
               /\ Fields(h, b) \in {1, 2} /\ Uses(Headers(b), b) >= Fields(h, b)
    <2>1. h \in hdrs /\ h.off \in Nat /\ h.lay \in Layouts
      BY <1>1 DEF HdrsOf
    <2>2. b \in TextBlocks(h)
      BY DEF Headers
    <2>3. Fields(h, b) \in {1, 2}
      BY <2>1, <2>2, InTwo
    <2>4. /\ Uses(Headers(b) \ {h}, b) \in Nat
          /\ Uses(Headers(b), b) = Uses(Headers(b) \ {h}, b) + Fields(h, b)
      BY <1>3, UsesRemoved
    <2>5. Uses(Headers(b), b) >= Fields(h, b)
      BY <2>3, <2>4
    <2> QED
      BY <2>1, <2>3, <2>5
  <1>6. Headers(b) = {} => Uses(Headers(b), b) = 0
    BY UsesNone
  <1> QED
    BY <1>3, <1>4, <1>5, <1>6

LEMMA RefsAreNat ==
  ASSUME Kinds, NEW b \in Nat
  PROVE  Refs(b) \in Nat /\ (Refs(b) > 0 => b < Len(sda))
  BY RefsNat DEF Refs, Kinds, Types

LEMMA GoneIs ==
  ASSUME Kinds, NEW b
  PROVE  /\ Gone(b) \in {0, 1}
         /\ (\A q \in Purgers : pc[q] \notin InPurge) => Gone(b) = 0
         /\ haLock = None => Gone(b) = 0
         /\ \A p \in Proc : haLock = p =>
              Gone(b) = IF pc[p] = "pg_free" /\ fld[p] = 2 /\ b \in FieldBlocks(msg[p], 1) THEN 1 ELSE 0
  <1>1. Gone(b) \in {0, 1} /\ ((\A q \in Purgers : pc[q] \notin InPurge) => Gone(b) = 0)
    BY DEF Gone, InPurge
  <1>2. \A q \in Purgers : pc[q] = "pg_free" => haLock = q /\ q \in Proc
    BY Purger DEF Owned, InPurge
  <1>3. haLock = None => Gone(b) = 0
    BY <1>2, Disjoint DEF Gone
  <1>4. ASSUME NEW p \in Proc, haLock = p
        PROVE  Gone(b) = IF pc[p] = "pg_free" /\ fld[p] = 2 /\ b \in FieldBlocks(msg[p], 1) THEN 1 ELSE 0
    <2>1. p \in Purgers
      BY <1>4, Disjoint DEF Kinds, Types
    <2> QED
      BY <1>2, <1>4, <2>1 DEF Gone
  <1> QED
    BY <1>1, <1>3, <1>4

LEMMA UnfreedIs ==
  ASSUME QuietBase, Kinds, NEW p \in Proc, pc[p] \notin NoTextYet
  PROVE  /\ \A b : b \in Unfreed(p) <=> \E x \in fld[p]..Len(msg[p].lay) : b \in FieldBlocks(msg[p], x)
         /\ Unfreed(p) \subseteq TextBlocks(msg[p]) /\ TextBlocks(msg[p]) \subseteq Nat
         /\ fld[p] = 1 => Unfreed(p) = TextBlocks(msg[p])
  <1>1. /\ msg[p].off \in Nat /\ msg[p].lay \in Layouts /\ fld[p] \in {1, 2} /\ Len(msg[p].lay) \in {1, 2}
    BY HeldText
  <1>2. \A b : b \in Unfreed(p) <=> \E x \in fld[p]..Len(msg[p].lay) : b \in FieldBlocks(msg[p], x)
    BY DEF Unfreed
  <1>3. fld[p]..Len(msg[p].lay) \subseteq 1..Len(msg[p].lay)
    <2>1. PICK i \in {1, 2}, j \in {1, 2} : i = fld[p] /\ j = Len(msg[p].lay)
      BY <1>1
    <2>2. i..j \subseteq 1..j
      OBVIOUS
    <2> QED
      BY <2>1, <2>2
  <1>4. TextBlocks(msg[p]) \subseteq Nat /\ \A x \in 1..Len(msg[p].lay) : FieldBlocks(msg[p], x) \subseteq TextBlocks(msg[p])
    BY <1>1, BlocksAreNat
  <1>5. Unfreed(p) \subseteq TextBlocks(msg[p])
    BY <1>2, <1>3, <1>4
  <1>6. ASSUME fld[p] = 1 PROVE Unfreed(p) = TextBlocks(msg[p])
    <2>1. \A b \in Nat : b \in TextBlocks(msg[p]) <=> \E x \in 1..Len(msg[p].lay) : b \in FieldBlocks(msg[p], x)
      BY <1>1, TextOrField
    <2> QED
      BY <1>2, <1>4, <1>5, <1>6, <2>1
  <1> QED
    BY <1>2, <1>4, <1>5, <1>6

\* Who owns a block
LEMMA Owners ==
  ASSUME QuietBase, Kinds, NEW b \in Nat, Agree(b), NEW q \in Proc, Owns(q, b)
  PROVE  /\ b \in TextBlocks(msg[q]) /\ msg[q] \in TextsOf /\ msg[q].off \in Nat /\ msg[q].lay \in Layouts
         /\ Fields(msg[q], b) \in {1, 2} /\ pc[q] \notin NoTextYet /\ cnt[q] \in Nat
         /\ Uncounted(q) \/ (cnt[q] = 0 /\ (q \in Senders \/ (q \in Mailers /\ pc[q] = "free")))
         /\ Headers(b) # {} => Uncounted(q)
         /\ \A h \in Headers(b) : TextOf(h) = msg[q] /\ Fields(h, b) = Fields(msg[q], b)
         /\ \A p \in Proc \ {q} : ~Owns(p, b)
  <1>1. pc[q] \notin NoTextYet
    BY DEF Owns, Uncounted, NoTextYet
  <1>2. /\ msg[q] \in TextsOf /\ msg[q].off \in Nat /\ msg[q].lay \in Layouts /\ cnt[q] \in Nat
    BY <1>1, HeldText DEF Kinds, Types
  <1>3. b \in TextBlocks(msg[q])
    BY <1>1, UnfreedIs DEF Owns
  <1>4. Fields(msg[q], b) \in {1, 2}
    BY <1>2, <1>3, InTwo
  <1>5. Known(q)
    BY DEF Kinds
  <1>6. Uncounted(q) \/ (cnt[q] = 0 /\ (q \in Senders \/ (q \in Mailers /\ pc[q] = "free")))
    BY <1>5, Disjoint DEF Owns, Known
  <1>7. Headers(b) # {} => Uncounted(q)
    <2>1. \A h \in Headers(b) : cnt[q] > 0
      BY DEF Agree
    <2> QED
      BY <1>6, <2>1
  <1>8. \A h \in Headers(b) : TextOf(h) = msg[q]
    BY DEF Agree
  <1>9. \A h \in Headers(b) : Fields(h, b) = Fields(msg[q], b)
    BY <1>8, SameText
  <1>10. \A p \in Proc \ {q} : ~Owns(p, b)
    BY DEF Agree
  <1> QED
    BY <1>1, <1>2, <1>3, <1>4, <1>6, <1>7, <1>8, <1>9, <1>10

LEMMA HandsAre ==
  ASSUME NEW b, NEW p \in Forwarders, NEW x \in {1, 2}
  PROVE  <<p, x>> \in Hands(b) <=> Handing(p) /\ x \in fld[p]..Len(msg[p].lay) /\ b \in FieldBlocks(msg[p], x)
  BY DEF Hands

\* What a forwarder holds is the text of a message.
LEMMA Forwarding ==
  ASSUME QuietBase, Kinds, NEW p \in Forwarders, pc[p] # "idle"
  PROVE  /\ p \in Proc /\ msg[p] \in TextsOf /\ msg[p].off \in Nat /\ msg[p].lay \in Layouts
         /\ \A b \in TextBlocks(msg[p]) : \E h \in Headers(b) : TextOf(h) = msg[p] /\ Fields(h, b) = Fields(msg[p], b)
  <1>1. p \in Proc /\ Known(p) /\ Place(p)
    BY Disjoint DEF Kinds
  <1>2. pc[p] \notin NoTextYet
    BY <1>1 DEF NoTextYet, Place, ForwardPlaces
  <1>3. msg[p] \in TextsOf /\ msg[p].off \in Nat /\ msg[p].lay \in Layouts
    BY <1>1, <1>2, HeldText
  <1>4. PICK h \in hdrs : TextOf(h) = msg[p]
    BY <1>1 DEF Known
  <1>5. TextBlocks(h) = TextBlocks(msg[p]) /\ \A b : Fields(h, b) = Fields(msg[p], b)
    BY <1>4, SameText
  <1>6. \A b \in TextBlocks(msg[p]) : h \in Headers(b)
    BY <1>5 DEF Headers
  <1> QED
    BY <1>1, <1>3, <1>4, <1>5, <1>6

LEMMA NoHands ==
  ASSUME QuietBase, Kinds, NEW b \in Nat, Headers(b) = {}
  PROVE  Hands(b) = {} /\ Cardinality(Hands(b)) = 0
  <1>1. ASSUME NEW u \in Hands(b) PROVE FALSE
    <2>1. PICK p \in Forwarders, x \in {1, 2} : u = <<p, x>>
      BY DEF Hands
    <2>2. Handing(p) /\ x \in fld[p]..Len(msg[p].lay) /\ b \in FieldBlocks(msg[p], x)
      BY <2>1, HandsAre
    <2>3. p \in Proc /\ pc[p] \notin NoTextYet /\ pc[p] # "idle"
      BY <2>2, Disjoint DEF Handing, NoTextYet
    <2>4. b \in TextBlocks(msg[p])
      BY <2>2, <2>3, UnfreedIs
    <2> QED
      BY <2>3, <2>4, Forwarding
  <1> QED
    BY <1>1, FS_EmptySet

\* A text that is being forwarded has more references than are being handed out.
LEMMA Backed ==
  ASSUME QuietBase, Kinds, NEW p \in Forwarders, pc[p] \notin {"idle", "fwd"},
         NEW b \in TextBlocks(msg[p]), Sound(b)
  PROVE  Refs(b) > Cardinality(Hands(b)) /\ Cardinality(Hands(b)) \in Nat /\ Refs(b) \in Nat /\ Gone(b) = 0
  <1>1. p \in Proc /\ pc[p] # "idle" /\ msg[p].off \in Nat /\ msg[p].lay \in Layouts
    BY Forwarding
  <1>2. b \in Nat
    BY <1>1, BlocksAreNat
  <1>3. PICK h \in Headers(b) : TextOf(h) = msg[p]
    BY <1>1, Forwarding
  <1>4. Gone(b) = 0
    BY <1>1, NoPurgeBeside, GoneIs
  <1>5. Cardinality(Hands(b)) \in Nat /\ Refs(b) \in Nat
    BY <1>2, RefsAreNat, FS_CardinalityType DEF Sound, Counted
  <1>6. CASE \A q \in Proc : ~Owns(q, b)
    <2>1. Refs(b) + Gone(b) + Fields(h, b) - 1 >= Uses(Headers(b), b) + Cardinality(Hands(b))
      BY <1>6 DEF Sound, Counted, Claims
    <2>2. Uses(Headers(b), b) \in Nat /\ Fields(h, b) \in {1, 2} /\ Uses(Headers(b), b) >= Fields(h, b)
      BY <1>2, HeadersAre
    <2>3. PICK r \in Nat, k \in {1, 2}, u \in Nat, c \in Nat :
            r = Refs(b) /\ k = Fields(h, b) /\ u = Uses(Headers(b), b) /\ c = Cardinality(Hands(b))
      BY <1>5, <2>2
    <2>4. r + 0 + k - 1 >= u + c /\ u >= k
      BY <1>4, <2>1, <2>2, <2>3
    <2>5. r > c
      BY <2>4
    <2> QED
      BY <1>4, <1>5, <2>3, <2>5
  <1>7. ASSUME NEW q \in Proc, Owns(q, b) PROVE Refs(b) > Cardinality(Hands(b))
    <2>1. Uncounted(q) /\ q \in Mails
      BY <1>2, <1>3, <1>7, Owners DEF Sound, Uncounted
    <2> QED
      BY <1>7, <2>1 DEF Sound, Counted
  <1> QED
    BY <1>4, <1>5, <1>6, <1>7

-----------------------------------------------------------------------------
(* What a step leaves alone.                                                *)

LEMMA OwnsOthers ==
  ASSUME NEW p \in Proc, OthersStay(p), NEW q \in Proc \ {p}, NEW b
  PROVE  /\ Owns(q, b)' <=> Owns(q, b)
         /\ (Uncounted(q)' <=> Uncounted(q)) /\ (Handing(q)' <=> Handing(q))
         /\ msg'[q] = msg[q] /\ cnt'[q] = cnt[q]
  <1>1. pc'[q] = pc[q] /\ msg'[q] = msg[q] /\ fld'[q] = fld[q] /\ cnt'[q] = cnt[q]
    BY DEF OthersStay
  <1>2. Unfreed(q)' = Unfreed(q)
    BY <1>1 DEF Unfreed
  <1>3. (Uncounted(q)' <=> Uncounted(q)) /\ (Handing(q)' <=> Handing(q))
    BY <1>1 DEF Uncounted, Handing
  <1> QED
    BY <1>1, <1>2, <1>3 DEF Owns

LEMMA HandsOthers ==
  ASSUME NEW p \in Proc, OthersStay(p), NEW b
  PROVE  /\ Hands(b)' \ {<<p, 1>>, <<p, 2>>} = Hands(b) \ {<<p, 1>>, <<p, 2>>}
         /\ p \notin Forwarders => Hands(b)' = Hands(b)
         /\ (\A x \in {1, 2} : <<p, x>> \in Hands(b)' <=> <<p, x>> \in Hands(b)) => Hands(b)' = Hands(b)
  <1>1. ASSUME NEW f \in Forwarders, f # p, NEW x \in {1, 2} PROVE <<f, x>> \in Hands(b)' <=> <<f, x>> \in Hands(b)
    <2>1. f \in Proc
      BY DEF Proc
    <2>2. pc'[f] = pc[f] /\ msg'[f] = msg[f] /\ fld'[f] = fld[f]
      BY <1>1, <2>1 DEF OthersStay
    <2> QED
      BY <2>2 DEF Hands, Handing
  <1>2. Hands(b) \subseteq Forwarders \X {1, 2} /\ Hands(b)' \subseteq Forwarders \X {1, 2}
    BY DEF Hands
  <1>3. \A u \in Forwarders \X {1, 2} : \E f \in Forwarders, x \in {1, 2} : u = <<f, x>>
    OBVIOUS
  <1>4. \A f \in Forwarders, x \in {1, 2} : <<f, x>> \in {<<p, 1>>, <<p, 2>>} <=> f = p
    OBVIOUS
  <1>5. ASSUME NEW u \in Forwarders \X {1, 2}
        PROVE  u \notin {<<p, 1>>, <<p, 2>>} => (u \in Hands(b)' <=> u \in Hands(b))
    <2>1. PICK f \in Forwarders, x \in {1, 2} : u = <<f, x>>
      BY <1>3
    <2> QED
      BY <1>1, <1>4, <2>1
  <1>6. p \notin Forwarders => <<p, 1>> \notin Forwarders \X {1, 2} /\ <<p, 2>> \notin Forwarders \X {1, 2}
    OBVIOUS
  <1>7. Hands(b)' \ {<<p, 1>>, <<p, 2>>} = Hands(b) \ {<<p, 1>>, <<p, 2>>}
    BY <1>2, <1>5
  <1>8. p \notin Forwarders => Hands(b)' = Hands(b)
    BY <1>2, <1>5, <1>6
  <1>9. (\A x \in {1, 2} : <<p, x>> \in Hands(b)' <=> <<p, x>> \in Hands(b)) => Hands(b)' = Hands(b)
    BY <1>2, <1>5
  <1> QED
    BY <1>7, <1>8, <1>9

LEMMA GoneOthers ==
  ASSUME NEW p \in Proc, OthersStay(p), p \notin Purgers, NEW b
  PROVE  Gone(b)' = Gone(b)
  <1>1. \A q \in Purgers : pc'[q] = pc[q] /\ msg'[q] = msg[q] /\ fld'[q] = fld[q]
    BY Disjoint DEF OthersStay
  <1> QED
    BY <1>1 DEF Gone

\* A block that a step leaves alone stays sound.
LEMMA Elsewhere ==
  ASSUME NEW b \in Nat, Sound(b), Headers(b)' = Headers(b), Refs(b)' = Refs(b), Hands(b)' = Hands(b),
         Gone(b)' = Gone(b), leaked \subseteq leaked', Refs(b) > 0 => sdt'[b + 1] = sdt[b + 1],
         \A q \in Proc : Owns(q, b)' <=> Owns(q, b),
         \A q \in Proc : Owns(q, b) => msg'[q] = msg[q] /\ cnt'[q] = cnt[q] /\ (Uncounted(q)' <=> Uncounted(q))
  PROVE  Sound(b)'
  <1>1. Claims(b)' = Claims(b)
    BY DEF Claims
  <1>2. \A m : Filled(b, m) => Filled(b, m)'
    BY DEF Filled
  <1>3. Agree(b)'
    <2>1. Agree(b)
      BY DEF Sound
    <2> QED
      BY <2>1 DEF Agree
  <1>4. Contents(b)'
    <2>1. Contents(b)
      BY DEF Sound
    <2> QED
      BY <1>2, <2>1 DEF Contents
  <1>5. Counted(b)'
    <2>1. Counted(b)
      BY DEF Sound
    <2>2. IsFiniteSet(Hands(b))'
      BY <2>1 DEF Counted
    <2>3. ((\A p \in Proc : ~Owns(p, b)) => \A h \in Headers(b) :
            LET n == Refs(b) + Gone(b) + Fields(h, b) - 1
            IN  n >= Claims(b) /\ (b \notin leaked => n = Claims(b)))'
      BY <1>1, <2>1 DEF Counted
    <2>4. (\A p \in Mails : Uncounted(p) /\ Owns(p, b) =>
            LET n == Refs(b) + cnt[p] * Fields(msg[p], b) - 1
            IN  n >= Claims(b) /\ (b \notin leaked => n = Claims(b)) /\ Refs(b) > Cardinality(Hands(b)))'
      <3>1. \A p \in Mails : p \in Proc
        BY Disjoint
      <3> QED
        BY <1>1, <2>1, <3>1 DEF Counted
    <2>5. (\A p \in Senders : Owns(p, b) => Refs(b) >= 1 /\ (b \notin leaked => Refs(b) = 1))'
      <3>1. \A p \in Senders : p \in Proc
        BY Disjoint
      <3> QED
        BY <2>1, <3>1 DEF Counted
    <2>6. (Headers(b) = {} /\ (\A p \in Proc : ~Owns(p, b)) => b \in leaked \/ Refs(b) = 0)'
      BY <2>1 DEF Counted
    <2> QED
      BY <2>2, <2>3, <2>4, <2>5, <2>6 DEF Counted
  <1> QED
    BY <1>3, <1>4, <1>5 DEF Sound

\* ... such as those a process does not change its claims on.
LEMMA SoundSame ==
  ASSUME NEW p \in Proc, OthersStay(p), UNCHANGED <<sda, sdt, hdrs>>, leaked \subseteq leaked',
         NEW b \in Nat, Sound(b), Owns(p, b)' <=> Owns(p, b),
         Owns(p, b) => msg'[p] = msg[p] /\ cnt'[p] = cnt[p] /\ (Uncounted(p)' <=> Uncounted(p)),
         p \in Forwarders => \A x \in {1, 2} : <<p, x>> \in Hands(b)' <=> <<p, x>> \in Hands(b),
         p \in Purgers => Gone(b)' = Gone(b)
  PROVE  Sound(b)'
  <1>1. Headers(b)' = Headers(b) /\ Refs(b)' = Refs(b)
    BY DEF Headers, Refs
  <1>2. Hands(b)' = Hands(b)
    BY HandsOthers
  <1>3. Gone(b)' = Gone(b)
    BY GoneOthers
  <1>4. \A q \in Proc : Owns(q, b)' <=> Owns(q, b)
    BY OwnsOthers
  <1>5. ASSUME NEW q \in Proc, Owns(q, b)
        PROVE  msg'[q] = msg[q] /\ cnt'[q] = cnt[q] /\ (Uncounted(q)' <=> Uncounted(q))
    <2>1. CASE q = p
      BY <1>5, <2>1
    <2>2. CASE q # p
      <3>1. q \in Proc \ {p}
        BY <2>2
      <3>2. /\ Owns(q, b)' <=> Owns(q, b)
            /\ (Uncounted(q)' <=> Uncounted(q)) /\ (Handing(q)' <=> Handing(q))
            /\ msg'[q] = msg[q] /\ cnt'[q] = cnt[q]
        BY <3>1, OwnsOthers
      <3> QED
        BY <3>2
    <2> QED
      BY <2>1, <2>2
  <1> QED
    BY <1>1, <1>2, <1>3, <1>4, <1>5, Elsewhere

-----------------------------------------------------------------------------
(* Each kind of step keeps the blocks sound.                                *)

CountPlaces == {"rcpt", "inc_open", "inc"}
UndoPlaces == {"hdr", "fwd_hdr", "undo", "free"}

\* A process with no claims on a block
LEMMA NoClaims ==
  ASSUME NEW p, NEW b
  PROVE  /\ pc[p] \notin CountPlaces \cup UndoPlaces => ~Owns(p, b) /\ \A x : <<p, x>> \notin Hands(b)
         /\ p \notin Forwarders => \A x : <<p, x>> \notin Hands(b)
         /\ pc'[p] \notin CountPlaces \cup UndoPlaces => ~Owns(p, b)' /\ \A x : <<p, x>> \notin Hands(b)'
         /\ p \in Forwarders \cup Purgers => ~Owns(p, b) /\ ~Owns(p, b)'
  <1>1. pc[p] \notin CountPlaces \cup UndoPlaces => ~Owns(p, b) /\ \A x : <<p, x>> \notin Hands(b)
    BY DEF CountPlaces, UndoPlaces, Owns, Hands, Uncounted, Handing
  <1>2. p \notin Forwarders => \A x : <<p, x>> \notin Hands(b)
    BY DEF Hands
  <1>3. pc'[p] \notin CountPlaces \cup UndoPlaces => ~Owns(p, b)' /\ \A x : <<p, x>> \notin Hands(b)'
    BY DEF CountPlaces, UndoPlaces, Owns, Hands, Uncounted, Handing
  <1>4. p \in Forwarders \cup Purgers => ~Owns(p, b) /\ ~Owns(p, b)'
    BY Disjoint DEF Owns, Uncounted
  <1> QED
    BY <1>1, <1>2, <1>3, <1>4

\* p goes on with the claims it has.
LEMMA SoundMove ==
  ASSUME Kinds, NEW p \in Proc, NEW l, Goto(p, l), UNCHANGED local, UNCHANGED <<sda, sdt, hdrs>>, leaked \subseteq leaked',
         NEW b \in Nat, Sound(b),
         p \in Mails => (pc[p] \in CountPlaces <=> l \in CountPlaces),
         p \in Mailers => (pc[p] = "free" <=> l = "free"),
         p \in Senders => (pc[p] \in {"hdr", "undo", "free"} <=> l \in {"hdr", "undo", "free"}),
         p \in Forwarders => (pc[p] \in {"fwd_hdr", "undo", "free"} <=> l \in {"fwd_hdr", "undo", "free"}),
         p \in Purgers => pc[p] # "pg_free" /\ l # "pg_free"
  PROVE  Sound(b)'
  <1>1. OthersStay(p) /\ pc'[p] = l
    BY Stays
  <1>2. UNCHANGED <<msg, fld, cnt>>
    BY DEF local
  <1>3. Unfreed(p)' = Unfreed(p)
    BY <1>2 DEF Unfreed
  <1>4. Uncounted(p)' <=> Uncounted(p)
    BY <1>1 DEF Uncounted, CountPlaces
  <1>5. Owns(p, b)' <=> Owns(p, b)
    BY <1>1, <1>2, <1>3, <1>4 DEF Owns
  <1>6. p \in Forwarders => \A x \in {1, 2} : <<p, x>> \in Hands(b)' <=> <<p, x>> \in Hands(b)
    BY <1>1, <1>2 DEF Hands, Handing
  <1>7. ASSUME p \in Purgers PROVE Gone(b)' = Gone(b)
    <2>1. \A q \in Purgers \ {p} : pc'[q] = pc[q]
      BY <1>1, Disjoint DEF OthersStay
    <2> QED
      BY <1>1, <1>2, <1>7, <2>1 DEF Gone
  <1> QED
    BY <1>1, <1>2, <1>4, <1>5, <1>6, <1>7, SoundSame

\* p gives up no claims on b.
LEMMA SoundLeave ==
  ASSUME Kinds, NEW p \in Proc, Finish(p), UNCHANGED <<sda, sdt, hdrs>>, leaked \subseteq leaked',
         NEW b \in Nat, Sound(b), ~Owns(p, b), p \in Forwarders => \A x \in {1, 2} : <<p, x>> \notin Hands(b),
         p \in Purgers => pc[p] # "pg_free"
  PROVE  Sound(b)'
  <1>1. OthersStay(p) /\ pc'[p] = "idle"
    BY Finished
  <1>2. pc'[p] \notin CountPlaces \cup UndoPlaces
    BY <1>1 DEF CountPlaces, UndoPlaces
  <1>3. ~Owns(p, b)' /\ \A x : <<p, x>> \notin Hands(b)'
    BY <1>2, NoClaims
  <1>4. ASSUME p \in Purgers PROVE Gone(b)' = Gone(b)
    <2>1. \A q \in Purgers \ {p} : pc'[q] = pc[q] /\ msg'[q] = msg[q] /\ fld'[q] = fld[q]
      BY <1>1, Disjoint DEF OthersStay
    <2> QED
      BY <1>1, <1>4, <2>1 DEF Gone
  <1> QED
    BY <1>1, <1>3, <1>4, SoundSame

LEMMA SoundAddLock ==
  ASSUME QuietBase, Kinds, NEW p \in Senders \cup Mails, AddLock(p), NEW b \in Nat, Sound(b)
  PROVE  Sound(b)'
  <1>1. p \in Proc /\ p \notin Purgers /\ p \notin Forwarders
    BY Disjoint
  <1>2. Goto(p, "store") /\ UNCHANGED local /\ UNCHANGED <<sda, sdt, hdrs, leaked>> /\ pc[p] = "idle"
    BY DEF AddLock, data, base, errors
  <1> QED
    BY <1>1, <1>2, SoundMove DEF CountPlaces

LEMMA SoundStoreTimeout ==
  ASSUME QuietBase, Kinds, NEW p \in Senders \cup Mails, StoreTextTimeout(p), NEW b \in Nat, Sound(b)
  PROVE  Sound(b)'
  <1>1. p \in Proc /\ p \notin Purgers /\ p \notin Forwarders
    BY Disjoint
  <1>2. Finish(p) /\ UNCHANGED <<sda, sdt, hdrs, leaked>> /\ pc[p] \notin CountPlaces \cup UndoPlaces
    BY DEF StoreTextTimeout, data, base, errors, CountPlaces, UndoPlaces
  <1>3. ~Owns(p, b)
    BY <1>2, NoClaims
  <1> QED
    BY <1>1, <1>2, <1>3, SoundLeave

LEMMA SoundAddHdrFails ==
  ASSUME QuietBase, Kinds, NEW p \in Proc, AddHdrFails(p), NEW b \in Nat, Sound(b)
  PROVE  Sound(b)'
  <1>1. p \in Senders \cup Forwarders /\ p \notin Purgers /\ p \notin Mails /\ p \notin Mailers
        /\ (p \in Senders => pc[p] # "fwd_hdr") /\ (p \in Forwarders => pc[p] # "hdr") /\ pc[p] \in {"hdr", "fwd_hdr"}
    BY Undoing DEF AddHdrFails
  <1>2. Goto(p, "undo") /\ UNCHANGED local /\ UNCHANGED <<sda, sdt, hdrs, leaked>>
    BY DEF AddHdrFails, data, base, errors
  <1> QED
    BY <1>1, <1>2, SoundMove

LEMMA SoundUndoOpen ==
  ASSUME QuietBase, Kinds, NEW p \in Proc, UndoOpen(p), NEW b \in Nat, Sound(b)
  PROVE  Sound(b)'
  <1>1. pc[p] = "undo" /\ p \in Senders \cup Forwarders /\ p \notin Purgers /\ p \notin Mails /\ p \notin Mailers
    BY Undoing DEF UndoOpen
  <1>2. Goto(p, "free") /\ UNCHANGED local /\ UNCHANGED <<sda, sdt, hdrs, leaked>>
    BY DEF UndoOpen, data, base, errors
  <1> QED
    BY <1>1, <1>2, SoundMove

LEMMA SoundIncOpen ==
  ASSUME QuietBase, Kinds, NEW p \in Proc, IncOpen(p), NEW b \in Nat, Sound(b)
  PROVE  Sound(b)'
  <1>1. pc[p] = "inc_open" /\ p \in Mails /\ p \notin Purgers /\ p \notin Forwarders /\ p \notin Senders
    BY Mailing DEF IncOpen
  <1>2. Goto(p, "inc") /\ UNCHANGED local /\ UNCHANGED <<sda, sdt, hdrs, leaked>>
    BY DEF IncOpen, data, base, errors
  <1> QED
    BY <1>1, <1>2, SoundMove DEF CountPlaces

LEMMA SoundForward ==
  ASSUME QuietBase, Kinds, NEW p \in Forwarders, Forward(p), NEW b \in Nat, Sound(b)
  PROVE  Sound(b)'
  <1>1. p \in Proc /\ p \notin Purgers
    BY Disjoint
  <1>2. UNCHANGED <<sda, sdt, hdrs, leaked, fld, cnt>> /\ pc[p] = "idle"
    BY DEF Forward, data, base, errors
  <1>3. pc'[p] = "fwd" /\ OthersStay(p)
    <2>1. pc = [q \in Proc |-> pc[q]] /\ Goto(p, "fwd") /\ msg \in [Proc -> TextsOf \cup {NoText}]
      BY DEF Forward, Kinds, Types
    <2>2. \A q \in Proc \ {p} : msg'[q] = msg[q]
      BY <2>1 DEF Forward
    <2>3. pc' = [q \in Proc |-> IF q = p THEN "fwd" ELSE pc[q]]
      BY <2>1 DEF Goto
    <2> QED
      BY <1>1, <1>2, <2>2, <2>3 DEF OthersStay
  <1>4. pc[p] \notin CountPlaces \cup UndoPlaces /\ pc'[p] \notin CountPlaces \cup UndoPlaces
    BY <1>2, <1>3 DEF CountPlaces, UndoPlaces
  <1>5. ~Owns(p, b) /\ ~Owns(p, b)' /\ \A x : <<p, x>> \notin Hands(b) /\ <<p, x>> \notin Hands(b)'
    BY <1>4, NoClaims
  <1> QED
    BY <1>1, <1>2, <1>3, <1>5, SoundSame

LEMMA SoundForwardOpen ==
  ASSUME QuietBase, Kinds, NEW p \in Forwarders, ForwardOpen(p), NEW b \in Nat, Sound(b)
  PROVE  Sound(b)'
  <1>1. p \in Proc /\ p \notin Purgers /\ p \notin Mails /\ p \notin Mailers /\ p \notin Senders
    BY Disjoint
  <1>2. Goto(p, "inc") /\ UNCHANGED local /\ UNCHANGED <<sda, sdt, hdrs, leaked>> /\ pc[p] = "fwd"
    BY DEF ForwardOpen, data, base, errors
  <1> QED
    BY <1>1, <1>2, SoundMove

LEMMA SoundForwardTimeout ==
  ASSUME QuietBase, Kinds, NEW p \in Forwarders, ForwardOpenTimeout(p), NEW b \in Nat, Sound(b)
  PROVE  Sound(b)'
  <1>1. p \in Proc /\ p \notin Purgers
    BY Disjoint
  <1>2. Finish(p) /\ UNCHANGED <<sda, sdt, hdrs, leaked>> /\ pc[p] \notin CountPlaces \cup UndoPlaces
    BY DEF ForwardOpenTimeout, data, base, errors, CountPlaces, UndoPlaces
  <1>3. ~Owns(p, b) /\ \A x : <<p, x>> \notin Hands(b)
    BY <1>2, NoClaims
  <1> QED
    BY <1>1, <1>2, <1>3, SoundLeave

LEMMA SoundPurgeMove ==
  ASSUME QuietBase, Kinds, NEW p \in Purgers, PurgeLock(p) \/ PurgeOpen(p), NEW b \in Nat, Sound(b)
  PROVE  Sound(b)'
  <1>1. p \in Proc /\ p \notin Forwarders /\ p \notin Mails /\ p \notin Mailers /\ p \notin Senders
    BY Purger
  <1>2. PICK l \in {"pg_open", "pg_scan"} : Goto(p, l)
    BY DEF PurgeLock, PurgeOpen
  <1>3. UNCHANGED local /\ UNCHANGED <<sda, sdt, hdrs, leaked>> /\ pc[p] # "pg_free"
    BY DEF PurgeLock, PurgeOpen, data, base, errors
  <1>4. l # "pg_free"
    OBVIOUS
  <1> QED
    BY <1>1, <1>2, <1>3, <1>4, SoundMove

LEMMA SoundPurgeReturn ==
  ASSUME QuietBase, Kinds, NEW p \in Purgers, PurgeReturn(p), NEW b \in Nat, Sound(b)
  PROVE  Sound(b)'
  <1>1. p \in Proc /\ p \notin Forwarders
    BY Purger
  <1>2. Finish(p) /\ UNCHANGED <<sda, sdt, hdrs, leaked>> /\ pc[p] # "pg_free"
    BY DEF PurgeReturn, data, base, errors
  <1>3. ~Owns(p, b)
    BY NoClaims
  <1> QED
    BY <1>1, <1>2, <1>3, SoundLeave

LEMMA SoundPurgeNext ==
  ASSUME QuietBase, Kinds, NEW p \in Purgers, PurgeNext(p), NEW b \in Nat, Sound(b)
  PROVE  Sound(b)'
  <1>1. p \in Proc /\ p \notin Forwarders
    BY Purger
  <1>2. UNCHANGED <<sda, sdt, hdrs, leaked>> /\ pc[p] = "pg_scan"
    BY DEF PurgeNext, data, errors
  <1>3. fld'[p] = 1 /\ OthersStay(p)
    <2>1. /\ pc = [q \in Proc |-> pc[q]] /\ Goto(p, "pg_free") /\ msg \in [Proc -> TextsOf \cup {NoText}]
          /\ fld \in [Proc -> {1, 2}] /\ cnt \in [Proc -> Nat] /\ fld' = [fld EXCEPT ![p] = 1]
      BY DEF PurgeNext, Kinds, Types
    <2>2. \A q \in Proc \ {p} : msg'[q] = msg[q] /\ cnt'[q] = cnt[q]
      BY <2>1 DEF PurgeNext
    <2>3. pc' = [q \in Proc |-> IF q = p THEN "pg_free" ELSE pc[q]]
      BY <2>1 DEF Goto
    <2> QED
      BY <1>1, <2>1, <2>2, <2>3 DEF OthersStay
  <1>4. Gone(b)' = Gone(b)
    <2>1. \A q \in Purgers \ {p} : pc'[q] = pc[q] /\ msg'[q] = msg[q] /\ fld'[q] = fld[q]
      BY <1>3, Disjoint DEF OthersStay
    <2> QED
      BY <1>2, <1>3, <2>1 DEF Gone
  <1>5. ~Owns(p, b) /\ ~Owns(p, b)'
    BY NoClaims
  <1> QED
    BY <1>1, <1>2, <1>3, <1>4, <1>5, SoundSame

LEMMA SoundCloseBase ==
  ASSUME NEW p \in Proc, CloseBase(p), NEW b \in Nat, Sound(b)
  PROVE  Sound(b)'
  <1>1. UNCHANGED <<sda, sdt, hdrs, leaked, pc, msg, fld, cnt>>
    BY DEF CloseBase, data, base, errors, local
  <1>2. Headers(b)' = Headers(b) /\ Refs(b)' = Refs(b) /\ Hands(b)' = Hands(b) /\ Gone(b)' = Gone(b)
    BY <1>1 DEF Headers, Refs, Hands, Handing, Gone
  <1>3. \A q \in Proc : (Owns(q, b)' <=> Owns(q, b)) /\ (Uncounted(q)' <=> Uncounted(q))
    BY <1>1 DEF Owns, Uncounted, Unfreed
  <1> QED
    BY <1>1, <1>2, <1>3, Elsewhere

LEMMA SoundStutter ==
  ASSUME UNCHANGED vars, NEW b \in Nat, Sound(b)
  PROVE  Sound(b)'
  <1>1. UNCHANGED <<sda, sdt, hdrs, leaked, pc, msg, fld, cnt>>
    BY DEF vars
  <1>2. Headers(b)' = Headers(b) /\ Refs(b)' = Refs(b) /\ Hands(b)' = Hands(b) /\ Gone(b)' = Gone(b)
    BY <1>1 DEF Headers, Refs, Hands, Handing, Gone
  <1>3. \A q \in Proc : (Owns(q, b)' <=> Owns(q, b)) /\ (Uncounted(q)' <=> Uncounted(q))
    BY <1>1 DEF Owns, Uncounted, Unfreed
  <1> QED
    BY <1>1, <1>2, <1>3, Elsewhere

\* What makes a block sound that no process owns, and one that p owns
LEMMA SoundUnowned ==
  ASSUME NEW b \in Nat, \A q \in Proc : ~Owns(q, b)', IsFiniteSet(Hands(b)'),
         \A g, h \in Headers(b)' : TextOf(g) = TextOf(h),
         \A h \in Headers(b)' :
            LET n == Refs(b)' + Gone(b)' + Fields(h, b) - 1
            IN  n >= Uses(Headers(b)', b) + Cardinality(Hands(b)')
                /\ (b \notin leaked' => n = Uses(Headers(b)', b) + Cardinality(Hands(b)')),
         Headers(b)' = {} => b \in leaked' \/ Refs(b)' = 0,
         \A h \in Headers(b)' : Filled(b, h)'
  PROVE  Sound(b)'
  <1>1. Agree(b)'
    BY DEF Agree
  <1>2. Counted(b)'
    <2>1. \A p \in Mails \cup Senders : p \in Proc
      BY Disjoint
    <2>2. (\A h \in Headers(b) :
            LET n == Refs(b) + Gone(b) + Fields(h, b) - 1
            IN  n >= Claims(b) /\ (b \notin leaked => n = Claims(b)))'
      BY DEF Claims
    <2> QED
      BY <2>1, <2>2 DEF Counted
  <1>3. Contents(b)'
    BY DEF Contents
  <1> QED
    BY <1>1, <1>2, <1>3 DEF Sound

LEMMA SoundOwned ==
  ASSUME NEW b \in Nat, NEW p \in Proc, Owns(p, b)', \A q \in Proc \ {p} : ~Owns(q, b)', IsFiniteSet(Hands(b)'),
         \A h \in Headers(b)' : TextOf(h) = msg'[p] /\ cnt'[p] > 0,
         p \in Mails /\ Uncounted(p)' =>
            LET n == Refs(b)' + cnt'[p] * Fields(msg'[p], b) - 1
            IN  n >= Uses(Headers(b)', b) + Cardinality(Hands(b)')
                /\ (b \notin leaked' => n = Uses(Headers(b)', b) + Cardinality(Hands(b)'))
                /\ Refs(b)' > Cardinality(Hands(b)'),
         p \in Senders => Refs(b)' >= 1 /\ (b \notin leaked' => Refs(b)' = 1),
         Filled(b, msg[p])'
  PROVE  Sound(b)'
  <1>0. \A q \in Mails \cup Senders : q \in Proc
    BY Disjoint
  <1>1. Agree(b)'
    BY DEF Agree
  <1>2. Counted(b)'
    <2>1. (\A q \in Mails : Uncounted(q) /\ Owns(q, b) =>
            LET n == Refs(b) + cnt[q] * Fields(msg[q], b) - 1
            IN  n >= Claims(b) /\ (b \notin leaked => n = Claims(b)) /\ Refs(b) > Cardinality(Hands(b)))'
      BY <1>0 DEF Claims
    <2>2. (\A q \in Senders : Owns(q, b) => Refs(b) >= 1 /\ (b \notin leaked => Refs(b) = 1))'
      BY <1>0
    <2> QED
      BY <2>1, <2>2 DEF Counted
  <1>3. Contents(b)'
    <2>1. \A h \in Headers(b)' : Filled(b, h)'
      BY SameText
    <2>2. \A q \in Proc : Owns(q, b)' => Filled(b, msg[q])'
      OBVIOUS
    <2> QED
      BY <2>1, <2>2 DEF Contents
  <1> QED
    BY <1>1, <1>2, <1>3 DEF Sound

\* The numbers of a sound block
LEMMA Numbers3 ==
  ASSUME QuietBase, Kinds, NEW b \in Nat, Sound(b)
  PROVE  /\ Refs(b) \in Nat /\ Gone(b) \in {0, 1} /\ Uses(Headers(b), b) \in Nat
         /\ Cardinality(Hands(b)) \in Nat /\ IsFiniteSet(Hands(b))
  BY HeadersAre, RefsAreNat, GoneIs, FS_CardinalityType DEF Sound, Counted

LEMMA ItsFields ==
  ASSUME QuietBase, Kinds, NEW p \in Proc, pc[p] \notin NoTextYet, fld[p] = 1, NEW b \in Nat
  PROVE  b \in Unfreed(p) <=> b \in TextBlocks(msg[p])
  BY UnfreedIs

\* A mailer that has added headers owns the text.
LEMMA CountOwns ==
  ASSUME QuietBase, Kinds, NEW p \in Mails, pc[p] \in CountPlaces, NEW b \in Nat
  PROVE  /\ p \in Proc /\ p \notin Senders /\ p \notin Forwarders /\ p \notin Purgers
         /\ Uncounted(p) /\ (Owns(p, b) <=> b \in TextBlocks(msg[p])) /\ Gone(b) = 0
         /\ pc[p] \notin NoTextYet /\ fld[p] = 1
  <1>1. p \in Proc /\ p \notin Senders /\ p \notin Forwarders /\ p \notin Purgers
    BY Disjoint
  <1>2. Uncounted(p) /\ (Owns(p, b) <=> b \in TextBlocks(msg[p]))
    BY <1>1 DEF Uncounted, Owns, CountPlaces
  <1>3. Gone(b) = 0
    BY <1>1, NoPurgeBeside, GoneIs DEF CountPlaces
  <1>4. pc[p] \notin NoTextYet /\ fld[p] = 1
    BY <1>1, HeldText DEF CountPlaces, NoTextYet, FirstField
  <1> QED
    BY <1>1, <1>2, <1>3, <1>4

\* p was the only one to own the block, and has gone.
LEMMA OwnsLeft ==
  ASSUME NEW p \in Proc, OthersStay(p), NEW b, \A q \in Proc \ {p} : ~Owns(q, b)
  PROVE  /\ \A q \in Proc \ {p} : ~Owns(q, b)'
         /\ ~Owns(p, b)' => \A q \in Proc : ~Owns(q, b)'
  <1>1. ASSUME NEW q \in Proc, q # p PROVE ~Owns(q, b)'
    <2>1. q \in Proc \ {p}
      BY <1>1
    <2>2. Owns(q, b)' <=> Owns(q, b)
      BY <2>1, OwnsOthers
    <2> QED
      BY <2>1, <2>2
  <1>2. ~Owns(p, b)' => \A q \in Proc : ~Owns(q, b)'
    BY <1>1
  <1> QED
    BY <1>1, <1>2

\* The text of one recipient is counted as it is.
LEMMA SoundOne ==
  ASSUME QuietBase, Kinds, NEW p \in Mails, pc[p] \in CountPlaces, cnt[p] = 1, Finish(p),
         UNCHANGED <<sda, sdt, hdrs>>, leaked \subseteq leaked', NEW b \in Nat, Sound(b)
  PROVE  Sound(b)'
  <1>1. /\ p \in Proc /\ p \notin Senders /\ p \notin Forwarders /\ p \notin Purgers
        /\ Uncounted(p) /\ Gone(b) = 0
    BY CountOwns
  <1>2. CASE ~Owns(p, b)
    BY <1>1, <1>2, SoundLeave
  <1>3. CASE Owns(p, b)
    <2>1. OthersStay(p) /\ pc'[p] \notin CountPlaces \cup UndoPlaces
      BY <1>1, Finished DEF CountPlaces, UndoPlaces
    <2>2. Headers(b)' = Headers(b) /\ Refs(b)' = Refs(b) /\ Hands(b)' = Hands(b) /\ Gone(b)' = 0
      BY <1>1, <2>1, HandsOthers, GoneOthers DEF Headers, Refs
    <2>3. /\ Fields(msg[p], b) \in {1, 2} /\ \A q \in Proc \ {p} : ~Owns(q, b)
          /\ \A h \in Headers(b) : TextOf(h) = msg[p] /\ Fields(h, b) = Fields(msg[p], b)
      BY <1>1, <1>3, Owners DEF Sound
    <2>4. \A q \in Proc : ~Owns(q, b)'
      <3>1. ~Owns(p, b)'
        BY <2>1, NoClaims
      <3>2. ~Owns(p, b)' => \A q \in Proc : ~Owns(q, b)'
        BY <1>1, <2>1, <2>3, OwnsLeft
      <3> QED
        BY <3>1, <3>2
    <2>5. /\ Refs(b) \in Nat /\ Uses(Headers(b), b) \in Nat /\ Cardinality(Hands(b)) \in Nat /\ IsFiniteSet(Hands(b))
      BY Numbers3
    <2>6. LET n == Refs(b) + cnt[p] * Fields(msg[p], b) - 1
          IN  n >= Claims(b) /\ (b \notin leaked => n = Claims(b)) /\ Refs(b) > Cardinality(Hands(b))
      BY <1>1, <1>3 DEF Sound, Counted
    <2>7. PICK r \in Nat, k \in {1, 2}, u \in Nat, c \in Nat :
            r = Refs(b) /\ k = Fields(msg[p], b) /\ u = Uses(Headers(b), b) /\ c = Cardinality(Hands(b))
      BY <2>3, <2>5
    <2>8. 1 * k = k
      OBVIOUS
    <2>9. r + k - 1 >= u + c /\ (b \notin leaked => r + k - 1 = u + c)
      BY <2>6, <2>7, <2>8 DEF Claims
    <2>10. \A h \in Headers(b)' :
             LET n == Refs(b)' + Gone(b)' + Fields(h, b) - 1
             IN  n >= Uses(Headers(b)', b) + Cardinality(Hands(b)')
                 /\ (b \notin leaked' => n = Uses(Headers(b)', b) + Cardinality(Hands(b)'))
      <3>1. r + 0 + k - 1 = r + k - 1
        OBVIOUS
      <3> QED
        BY <2>2, <2>3, <2>7, <2>9, <3>1
    <2>11. Headers(b)' = {} => b \in leaked' \/ Refs(b)' = 0
      <3>1. Headers(b) = {} => u = 0 /\ c = 0
        BY <2>7, HeadersAre, NoHands
      <3>2. u = 0 /\ c = 0 /\ r + k - 1 = u + c => r = 0
        OBVIOUS
      <3> QED
        BY <2>2, <2>7, <2>9, <3>1, <3>2
    <2>12. \A h \in Headers(b)' : Filled(b, h)'
      BY <2>2 DEF Sound, Contents, Filled
    <2>13. \A g, h \in Headers(b)' : TextOf(g) = TextOf(h)
      BY <2>2, <2>3
    <2> QED
      BY <2>2, <2>4, <2>5, <2>10, <2>11, <2>12, <2>13, SoundUnowned
  <1> QED
    BY <1>2, <1>3

\* A text without recipients is given up.
LEMMA SoundAbandon ==
  ASSUME QuietBase, Kinds, NEW p \in Mails, pc[p] \in CountPlaces, cnt[p] = 0, Finish(p),
         UNCHANGED <<sda, sdt, hdrs>>, leaked' = leaked \cup TextBlocks(msg[p]), NEW b \in Nat, Sound(b)
  PROVE  Sound(b)'
  <1>1. /\ p \in Proc /\ p \notin Senders /\ p \notin Forwarders /\ p \notin Purgers
        /\ Uncounted(p) /\ (Owns(p, b) <=> b \in TextBlocks(msg[p]))
    BY CountOwns
  <1>2. CASE ~Owns(p, b)
    BY <1>1, <1>2, SoundLeave
  <1>3. CASE Owns(p, b)
    <2>1. OthersStay(p) /\ pc'[p] \notin CountPlaces \cup UndoPlaces
      BY <1>1, Finished DEF CountPlaces, UndoPlaces
    <2>2. Headers(b)' = Headers(b) /\ Hands(b)' = Hands(b)
      BY <1>1, <2>1, HandsOthers DEF Headers
    <2>3. Headers(b) = {} /\ \A q \in Proc \ {p} : ~Owns(q, b)
      BY <1>3, <1>1 DEF Sound, Agree
    <2>4. \A q \in Proc : ~Owns(q, b)'
      <3>1. ~Owns(p, b)'
        BY <2>1, NoClaims
      <3>2. ~Owns(p, b)' => \A q \in Proc : ~Owns(q, b)'
        BY <1>1, <2>1, <2>3, OwnsLeft
      <3> QED
        BY <3>1, <3>2
    <2>5. IsFiniteSet(Hands(b))
      BY DEF Sound, Counted
    <2> QED
      BY <1>1, <1>3, <2>2, <2>3, <2>4, <2>5, SoundUnowned
  <1> QED
    BY <1>2, <1>3

\* The headers of a text could not be counted: its blocks are short.
LEMMA SoundShort ==
  ASSUME QuietBase, Kinds, NEW p \in Mails, pc[p] \in CountPlaces, Finish(p),
         UNCHANGED <<sda, sdt, hdrs>>, leaked \subseteq leaked', NEW b \in Nat, b \notin TextBlocks(msg[p]), Sound(b)
  PROVE  Sound(b)'
  BY CountOwns, SoundLeave

LEMMA SoundCount ==
  ASSUME QuietBase, Kinds, NEW p \in Mailers, Count(p), NEW b \in Nat, Sound(b)
  PROVE  Sound(b)'
  <1>1. p \in Mails /\ p \in Proc /\ pc[p] = "rcpt" /\ pc[p] \in CountPlaces /\ UNCHANGED <<sda, sdt, hdrs, leaked>>
        /\ p \notin Senders /\ p \notin Forwarders /\ p \notin Purgers
    BY Disjoint DEF Count, data, base, errors, CountPlaces
  <1>2. CASE cnt[p] = 1
    BY <1>1, <1>2, SoundOne DEF Count
  <1>3. CASE cnt[p] \notin {0, 1}
    <2>1. Goto(p, "inc") /\ UNCHANGED local
      BY <1>3 DEF Count
    <2> QED
      BY <1>1, <2>1, SoundMove DEF CountPlaces
  <1>4. CASE cnt[p] = 0
    <2>1. Goto(p, "free") /\ UNCHANGED local
      BY <1>4 DEF Count
    <2>2. OthersStay(p) /\ pc'[p] = "free" /\ UNCHANGED <<msg, fld, cnt>>
      BY <1>1, <2>1, Stays DEF local
    <2>3. Uncounted(p) /\ (Owns(p, b) <=> b \in TextBlocks(msg[p])) /\ fld[p] = 1 /\ pc[p] \notin NoTextYet
      BY <1>1, CountOwns
    <2>4. ~Uncounted(p)'
      BY <2>2 DEF Uncounted
    <2>5. Owns(p, b)' <=> Owns(p, b)
      <3>1. Unfreed(p)' = Unfreed(p)
        BY <2>2 DEF Unfreed
      <3>2. b \in Unfreed(p) <=> b \in TextBlocks(msg[p])
        BY <1>1, <2>3, ItsFields
      <3> QED
        BY <1>1, <2>2, <2>3, <2>4, <3>1, <3>2 DEF Owns
    <2>6. CASE ~Owns(p, b)
      BY <1>1, <2>2, <2>5, <2>6, SoundSame
    <2>7. CASE Owns(p, b)
      <3>1. Headers(b)' = Headers(b) /\ Hands(b)' = Hands(b) /\ Refs(b)' = Refs(b)
        BY <1>1, <2>2, HandsOthers DEF Headers, Refs
      <3>2. Headers(b) = {} /\ (\A q \in Proc \ {p} : ~Owns(q, b)) /\ Filled(b, msg[p])
        BY <1>1, <1>4, <2>7 DEF Sound, Agree, Contents
      <3>3. \A q \in Proc \ {p} : ~Owns(q, b)'
        BY <1>1, <2>2, <3>2, OwnsLeft
      <3>4. IsFiniteSet(Hands(b))
        BY DEF Sound, Counted
      <3>5. Filled(b, msg[p])'
        BY <1>1, <2>2, <3>1, <3>2 DEF Filled
      <3> QED
        BY <1>1, <2>4, <2>5, <2>7, <3>1, <3>2, <3>3, <3>4, <3>5, SoundOwned
    <2> QED
      BY <2>6, <2>7
  <1> QED
    BY <1>2, <1>3, <1>4

LEMMA SoundCountTimeout ==
  ASSUME QuietBase, Kinds, NEW p \in Proc, CountTimeout(p), NEW b \in Nat \ short', Sound(b)
  PROVE  Sound(b)'
  <1>1. p \in Mails /\ pc[p] = "rcpt" /\ pc[p] \in CountPlaces /\ UNCHANGED <<sda, sdt, hdrs>> /\ cnt[p] \in Nat /\ Finish(p)
    BY Mailing DEF CountTimeout, data, base, CountPlaces, Kinds, Types
  <1>2. leaked \subseteq leaked'
    BY DEF CountTimeout
  <1>3. CASE cnt[p] = 0
    BY <1>1, <1>3, SoundAbandon DEF CountTimeout
  <1>4. CASE cnt[p] = 1
    BY <1>1, <1>2, <1>4, SoundOne
  <1>5. CASE cnt[p] > 1
    <2>1. b \notin TextBlocks(msg[p])
      BY <1>5 DEF CountTimeout
    <2> QED
      BY <1>1, <1>2, <2>1, SoundShort
  <1> QED
    BY <1>1, <1>3, <1>4, <1>5

LEMMA SoundListDone ==
  ASSUME QuietBase, Kinds, NEW p \in Listers, ListDone(p), NEW b \in Nat, Sound(b)
  PROVE  Sound(b)'
  <1>1. p \in Mails /\ p \in Proc /\ pc[p] = "rcpt" /\ pc[p] \in CountPlaces /\ UNCHANGED <<sda, sdt, hdrs>> /\ cnt[p] \in Nat
        /\ p \notin Senders /\ p \notin Forwarders /\ p \notin Purgers /\ p \notin Mailers
    BY Disjoint DEF ListDone, data, base, CountPlaces, Kinds, Types
  <1>2. leaked \subseteq leaked'
    BY DEF ListDone
  <1>3. CASE cnt[p] = 0
    <2>1. Finish(p) /\ leaked' = leaked \cup TextBlocks(msg[p])
      BY <1>3 DEF ListDone
    <2> QED
      BY <1>1, <1>3, <2>1, SoundAbandon
  <1>4. CASE cnt[p] = 1
    <2>1. Finish(p)
      BY <1>4 DEF ListDone
    <2> QED
      BY <1>1, <1>2, <1>4, <2>1, SoundOne
  <1>5. CASE cnt[p] > 1
    <2>1. Goto(p, "inc_open") /\ UNCHANGED local
      BY <1>5 DEF ListDone
    <2> QED
      BY <1>1, <1>2, <2>1, SoundMove DEF CountPlaces
  <1> QED
    BY <1>1, <1>3, <1>4, <1>5

LEMMA SoundIncOpenTimeout ==
  ASSUME QuietBase, Kinds, NEW p \in Proc, IncOpenTimeout(p), NEW b \in Nat \ short', Sound(b)
  PROVE  Sound(b)'
  <1>1. p \in Mails /\ pc[p] \in CountPlaces /\ UNCHANGED <<sda, sdt, hdrs, leaked>> /\ Finish(p)
    BY Mailing DEF IncOpenTimeout, data, base, CountPlaces
  <1>2. b \notin TextBlocks(msg[p])
    BY DEF IncOpenTimeout
  <1> QED
    BY <1>1, <1>2, SoundShort

LEMMA SoundIncTimeout ==
  ASSUME QuietBase, Kinds, NEW p \in Proc, IncRefsTimeout(p), NEW b \in Nat \ short', Sound(b)
  PROVE  Sound(b)'
  <1>1. /\ pc[p] = "inc" /\ p \in Mails \cup Forwarders /\ p \notin Purgers /\ (p \in Mails => p \notin Forwarders)
        /\ UNCHANGED <<sda, sdt, hdrs, leaked>> /\ Finish(p)
    BY Counting DEF IncRefsTimeout, data, base
  <1>2. CASE p \in Mails
    <2>1. b \notin TextBlocks(msg[p]) /\ pc[p] \in CountPlaces
      BY <1>1, <1>2 DEF IncRefsTimeout, CountPlaces
    <2> QED
      BY <1>1, <1>2, <2>1, SoundShort
  <1>3. CASE p \in Forwarders
    <2>1. \A x : <<p, x>> \notin Hands(b)
      BY <1>1 DEF Hands, Handing
    <2>2. ~Owns(p, b)
      BY <1>3, NoClaims
    <2> QED
      BY <1>1, <2>1, <2>2, SoundLeave
  <1> QED
    BY <1>1, <1>2, <1>3

\* The hands of one forwarder, and of all the others
Hand(S, p, x) == IF <<p, x>> \in S THEN 1 ELSE 0
Rest(S, p) == S \ {<<p, 1>>, <<p, 2>>}

LEMMA HandCount ==
  ASSUME NEW S, NEW p, IsFiniteSet(Rest(S, p))
  PROVE  /\ IsFiniteSet(S) /\ Cardinality(S) \in Nat /\ Cardinality(Rest(S, p)) \in Nat
         /\ Cardinality(S) = Cardinality(Rest(S, p)) + Hand(S, p, 1) + Hand(S, p, 2)
  <1> DEFINE R == Rest(S, p)
             d == <<p, 1>>
             e == <<p, 2>>
             Q == R \cup (IF d \in S THEN {d} ELSE {})
  <1>1. S = Q \cup (IF e \in S THEN {e} ELSE {})
    BY DEF Rest
  <1>2. d \notin R /\ e \notin Q
    BY DEF Rest
  <1>3. IsFiniteSet(R)
    OBVIOUS
  <1>4. (d \in S) \in BOOLEAN /\ (e \in S) \in BOOLEAN
    OBVIOUS
  <1>5. Hand(S, p, 1) = (IF d \in S THEN 1 ELSE 0) /\ Hand(S, p, 2) = (IF e \in S THEN 1 ELSE 0)
    BY DEF Hand
  <1>6. IsFiniteSet(Q) /\ Cardinality(Q) = Cardinality(R) + (IF d \in S THEN 1 ELSE 0) /\ Cardinality(R) \in Nat
    <2> HIDE DEF R, d, e
    <2> QED
      BY <1>2, <1>3, <1>4, AddedOne
  <1>7. IsFiniteSet(S) /\ Cardinality(S) = Cardinality(Q) + (IF e \in S THEN 1 ELSE 0) /\ Cardinality(Q) \in Nat
    <2> HIDE DEF Q, e
    <2>1. /\ IsFiniteSet(Q \cup (IF e \in S THEN {e} ELSE {}))
          /\ Cardinality(Q \cup (IF e \in S THEN {e} ELSE {})) = Cardinality(Q) + (IF e \in S THEN 1 ELSE 0)
          /\ Cardinality(Q) \in Nat
      BY <1>2, <1>4, <1>6, AddedOne
    <2> QED
      BY <1>1, <2>1
  <1> HIDE DEF Q, R, d, e
  <1>8. IsFiniteSet(S) /\ Cardinality(S) \in Nat /\ Cardinality(R) \in Nat
        /\ Cardinality(S) = Cardinality(R) + Hand(S, p, 1) + Hand(S, p, 2)
    BY <1>5, <1>6, <1>7
  <1> QED
    BY <1>8 DEF R

\* A step changes the hands of one process only.
LEMMA HandsStep ==
  ASSUME NEW p \in Proc, OthersStay(p), NEW b, IsFiniteSet(Hands(b))
  PROVE  /\ IsFiniteSet(Hands(b)')
         /\ \E c \in Nat : /\ Cardinality(Hands(b)) = c + Hand(Hands(b), p, 1) + Hand(Hands(b), p, 2)
                           /\ Cardinality(Hands(b)') = c + Hand(Hands(b)', p, 1) + Hand(Hands(b)', p, 2)
  <1>1. Rest(Hands(b)', p) = Rest(Hands(b), p)
    BY HandsOthers DEF Rest
  <1>2. IsFiniteSet(Rest(Hands(b), p))
    BY FS_Subset DEF Rest
  <1>3. PICK S \in {Hands(b)}, U \in {Hands(b)'} : TRUE
    OBVIOUS
  <1>4. IsFiniteSet(Rest(S, p)) /\ IsFiniteSet(Rest(U, p)) /\ Rest(U, p) = Rest(S, p)
    BY <1>1, <1>2, <1>3
  <1>5. /\ Cardinality(Rest(S, p)) \in Nat
        /\ Cardinality(S) = Cardinality(Rest(S, p)) + Hand(S, p, 1) + Hand(S, p, 2)
    BY <1>4, HandCount
  <1>6. IsFiniteSet(U) /\ Cardinality(U) = Cardinality(Rest(U, p)) + Hand(U, p, 1) + Hand(U, p, 2)
    BY <1>4, HandCount
  <1> QED
    BY <1>3, <1>4, <1>5, <1>6

LEMMA HandsOf ==
  ASSUME QuietBase, Kinds, NEW p \in Forwarders, NEW b \in Nat
  PROVE  /\ ~Handing(p) => Hand(Hands(b), p, 1) = 0 /\ Hand(Hands(b), p, 2) = 0
         /\ ~Handing(p)' => Hand(Hands(b)', p, 1) = 0 /\ Hand(Hands(b)', p, 2) = 0
         /\ Handing(p) => /\ Hand(Hands(b), p, 1) = (IF fld[p] = 1 THEN In(msg[p], 1, b) ELSE 0)
                          /\ Hand(Hands(b), p, 2) = In(msg[p], 2, b)
                          /\ In(msg[p], 1, b) \in {0, 1} /\ In(msg[p], 2, b) \in {0, 1}
                          /\ Fields(msg[p], b) = In(msg[p], 1, b) + In(msg[p], 2, b)
  <1>1. \A x : <<p, x>> \in Hands(b) => Handing(p)
    BY DEF Hands
  <1>2. \A x : <<p, x>> \in Hands(b)' => Handing(p)'
    BY DEF Hands
  <1>3. ASSUME Handing(p)
        PROVE  /\ Hand(Hands(b), p, 1) = (IF fld[p] = 1 THEN In(msg[p], 1, b) ELSE 0)
               /\ Hand(Hands(b), p, 2) = In(msg[p], 2, b)
               /\ In(msg[p], 1, b) \in {0, 1} /\ In(msg[p], 2, b) \in {0, 1}
               /\ Fields(msg[p], b) = In(msg[p], 1, b) + In(msg[p], 2, b)
    <2>1. pc[p] \notin {"idle", "fwd"} /\ p \in Proc /\ pc[p] \notin NoTextYet
      BY <1>3, Disjoint DEF Handing, NoTextYet
    <2>2. /\ fld[p] \in {1, 2} /\ Len(msg[p].lay) \in {1, 2} /\ msg[p].off \in Nat /\ msg[p].lay \in Layouts
      BY <2>1, HeldText
    <2>3. /\ Fields(msg[p], b) = In(msg[p], 1, b) + In(msg[p], 2, b)
          /\ In(msg[p], 1, b) \in {0, 1} /\ In(msg[p], 2, b) \in {0, 1}
          /\ \A x \in {1, 2} : In(msg[p], x, b) = 1 <=> x \in 1..Len(msg[p].lay) /\ b \in FieldBlocks(msg[p], x)
      BY <2>2, InTwo
    <2>4. /\ 1 \in fld[p]..Len(msg[p].lay) <=> fld[p] = 1
          /\ 2 \in fld[p]..Len(msg[p].lay) <=> 2 \in 1..Len(msg[p].lay)
          /\ 1 \in 1..Len(msg[p].lay)
      <3>1. PICK i \in {1, 2}, j \in {1, 2} : i = fld[p] /\ j = Len(msg[p].lay)
        BY <2>2
      <3>2. (1 \in i..j <=> i = 1) /\ (2 \in i..j <=> 2 \in 1..j) /\ 1 \in 1..j
        OBVIOUS
      <3> QED
        BY <3>1, <3>2
    <2>5. <<p, 1>> \in Hands(b) <=> (fld[p] = 1 /\ In(msg[p], 1, b) = 1)
      BY <1>3, <2>3, <2>4, HandsAre
    <2>6. <<p, 2>> \in Hands(b) <=> In(msg[p], 2, b) = 1
      BY <1>3, <2>3, <2>4, HandsAre
    <2> QED
      BY <2>3, <2>5, <2>6 DEF Hand
  <1> QED
    BY <1>1, <1>2, <1>3 DEF Hand

\* One more header on a block
LEMMA HeaderAdded ==
  ASSUME QuietBase, Kinds, NEW h \in HdrsOf, h \notin hdrs, hdrs' = hdrs \cup {h}, NEW b \in Nat
  PROVE  /\ b \notin TextBlocks(h) => Headers(b)' = Headers(b)
         /\ b \in TextBlocks(h) =>
              /\ Headers(b)' = Headers(b) \cup {h} /\ Fields(h, b) \in {1, 2}
              /\ Uses(Headers(b)', b) = Uses(Headers(b), b) + Fields(h, b)
  <1>1. h.off \in Nat /\ h.lay \in Layouts
    BY DEF HdrsOf
  <1>2. b \notin TextBlocks(h) => Headers(b)' = Headers(b)
    BY DEF Headers
  <1>3. ASSUME b \in TextBlocks(h)
        PROVE  /\ Headers(b)' = Headers(b) \cup {h} /\ Fields(h, b) \in {1, 2}
               /\ Uses(Headers(b)', b) = Uses(Headers(b), b) + Fields(h, b)
    <2>1. Headers(b)' = Headers(b) \cup {h}
      BY <1>3 DEF Headers
    <2>2. Fields(h, b) \in {1, 2}
      BY <1>1, <1>3, InTwo
    <2>3. Pointers(Headers(b)) /\ h \notin Headers(b)
      BY HeadersAre
    <2>4. Uses(Headers(b) \cup {h}, b) = Uses(Headers(b), b) + Fields(h, b)
      BY <1>1, <2>3, UsesAdded
    <2> QED
      BY <2>1, <2>2, <2>4
  <1> QED
    BY <1>2, <1>3

\* The header a process adds has the text it holds.
LEMMA NewHdrAdded ==
  ASSUME QuietBase, Kinds, NEW p \in Proc, pc[p] \notin NoTextYet,
         hdrs' = hdrs \cup {NewHdr(msg[p])}
  PROVE  \E h \in HdrsOf \ hdrs : TextOf(h) = msg[p] /\ hdrs' = hdrs \cup {h}
  <1>1. PICK m \in TextsOf : m = msg[p] /\ m.txt \in 1..texts
    BY DEF Kinds, Known
  <1>2. NewHdr(m) \in HdrsOf /\ NewHdr(m) \notin hdrs /\ TextOf(NewHdr(m)) = [txt |-> m.txt, off |-> m.off, lay |-> m.lay]
    BY <1>1, NewHdrIs
  <1>3. m = [txt |-> m.txt, off |-> m.off, lay |-> m.lay]
    BY DEF TextsOf
  <1>4. PICK h \in {NewHdr(m)} : TRUE
    OBVIOUS
  <1> QED
    BY <1>1, <1>2, <1>3, <1>4

LEMMA SoundAddHdr ==
  ASSUME QuietBase, Kinds, NEW p \in Senders \cup Forwarders, AddHdr(p), NEW b \in Nat, Sound(b)
  PROVE  Sound(b)'
  <1>0. p \in Proc /\ p \notin Purgers /\ p \notin Mails /\ pc[p] \in {"hdr", "fwd_hdr"} /\ pc[p] \notin NoTextYet
    BY Disjoint DEF AddHdr, NoTextYet
  <1>1. UNCHANGED <<sda, sdt, leaked>> /\ haLock = None /\ Finish(p)
    BY DEF AddHdr, data, errors
  <1>2. PICK h \in HdrsOf : h \notin hdrs /\ TextOf(h) = msg[p] /\ hdrs' = hdrs \cup {h}
    BY <1>0, NewHdrAdded DEF AddHdr
  <1>3. OthersStay(p) /\ pc'[p] \notin CountPlaces \cup UndoPlaces
    BY <1>0, <1>1, Finished DEF CountPlaces, UndoPlaces
  <1>4. Refs(b)' = Refs(b) /\ Gone(b)' = 0 /\ Gone(b) = 0
    BY <1>0, <1>1, <1>3, GoneIs, GoneOthers DEF Refs
  <1>5. ~Owns(p, b)' /\ \A x : <<p, x>> \notin Hands(b)'
    BY <1>3, NoClaims
  <1>6. /\ TextBlocks(h) = TextBlocks(msg[p]) /\ Fields(h, b) = Fields(msg[p], b)
        /\ (Filled(b, h) <=> Filled(b, msg[p]))
    BY <1>2, SameText
  <1>7. /\ Refs(b) \in Nat /\ Uses(Headers(b), b) \in Nat /\ Cardinality(Hands(b)) \in Nat /\ IsFiniteSet(Hands(b))
    BY Numbers3
  <1>8. \A m : Filled(b, m) => Filled(b, m)'
    BY <1>1, <1>4 DEF Filled
  <1>9. fld[p] = 1 /\ msg[p].off \in Nat /\ msg[p].lay \in Layouts /\ (b \in Unfreed(p) <=> b \in TextBlocks(msg[p]))
    BY <1>0, HeldText, ItsFields DEF FirstField
  <1>10. CASE b \notin TextBlocks(h)
    <2>1. Headers(b)' = Headers(b)
      BY <1>2, <1>10, HeaderAdded
    <2>2. ~Owns(p, b)
      BY <1>0, <1>6, <1>9, <1>10 DEF Owns, Uncounted
    <2>3. \A x \in {1, 2} : <<p, x>> \notin Hands(b)
      BY <1>0, <1>6, <1>9, <1>10, UnfreedIs DEF Hands
    <2>4. Hands(b)' = Hands(b)
      BY <1>0, <1>3, <1>5, <2>3, HandsOthers
    <2>5. \A q \in Proc : Owns(q, b)' <=> Owns(q, b)
      BY <1>0, <1>3, <1>5, <2>2, OwnsOthers
    <2>6. ASSUME NEW q \in Proc, Owns(q, b) PROVE msg'[q] = msg[q] /\ cnt'[q] = cnt[q] /\ (Uncounted(q)' <=> Uncounted(q))
      <3>1. q \in Proc \ {p}
        BY <2>2, <2>6
      <3>2. /\ Owns(q, b)' <=> Owns(q, b)
            /\ (Uncounted(q)' <=> Uncounted(q)) /\ (Handing(q)' <=> Handing(q))
            /\ msg'[q] = msg[q] /\ cnt'[q] = cnt[q]
        BY <1>0, <1>3, <3>1, OwnsOthers
      <3> QED
        BY <3>2
    <2> QED
      BY <1>1, <1>4, <2>1, <2>4, <2>5, <2>6, Elsewhere
  <1>11. CASE b \in TextBlocks(h) /\ p \in Senders
    <2>0. Headers(b)' = Headers(b) \cup {h} /\ Uses(Headers(b)', b) = Uses(Headers(b), b) + Fields(h, b) /\ Fields(h, b) \in {1, 2}
      BY <1>2, <1>11, HeaderAdded
    <2>1. pc[p] = "hdr" /\ p \notin Forwarders
      BY <1>0, <1>11, Undoing, Disjoint
    <2>2. Owns(p, b)
      BY <1>6, <1>9, <1>11, <2>1 DEF Owns
    <2>3. cnt[p] = 0
      BY <1>0, Undoing
    <2>4. Headers(b) = {} /\ (\A q \in Proc \ {p} : ~Owns(q, b))
          /\ Refs(b) >= 1 /\ (b \notin leaked => Refs(b) = 1) /\ Filled(b, msg[p])
      BY <1>0, <1>11, <2>2, <2>3 DEF Sound, Agree, Counted, Contents
    <2>5. Hands(b)' = {} /\ Cardinality(Hands(b)') = 0 /\ IsFiniteSet(Hands(b)')
      <3>1. Hands(b) = {} /\ Cardinality(Hands(b)) = 0
        BY <2>4, NoHands
      <3>2. Hands(b)' = Hands(b)
        BY <1>0, <1>3, <2>1, HandsOthers
      <3> QED
        BY <1>7, <3>1, <3>2
    <2>6. \A q \in Proc : ~Owns(q, b)'
      BY <1>0, <1>3, <1>5, <2>4, OwnsLeft
    <2>7. Fields(h, b) = 1
      <3>1. Known(p)
        BY <1>0 DEF Kinds
      <3>2. msg[p].lay \in SendLayouts
        BY <1>0, <1>11, <3>1 DEF Known
      <3>3. Fields(msg[p], b) <= 1
        BY <1>9, <3>2, SendersShareNone
      <3>4. PICK k \in {1, 2} : k = Fields(h, b)
        BY <2>0
      <3>5. k <= 1
        BY <1>6, <3>3, <3>4
      <3>6. k = 1
        BY <3>5
      <3> QED
        BY <3>4, <3>6
    <2>8. Uses(Headers(b)', b) = 1
      <3>1. Uses(Headers(b), b) = 0
        BY <2>4, HeadersAre
      <3> QED
        BY <2>0, <2>7, <3>1
    <2>9. PICK r \in Nat : r = Refs(b)
      BY <1>7
    <2>10. r + 0 + 1 - 1 >= 1 + 0 /\ (b \notin leaked => r + 0 + 1 - 1 = 1 + 0)
      BY <2>4, <2>9
    <2>11. \A g \in Headers(b)' : g = h
      BY <2>0, <2>4
    <2>12. \A g \in Headers(b)' :
             LET n == Refs(b)' + Gone(b)' + Fields(g, b) - 1
             IN  n >= Uses(Headers(b)', b) + Cardinality(Hands(b)')
                 /\ (b \notin leaked' => n = Uses(Headers(b)', b) + Cardinality(Hands(b)'))
      BY <1>1, <1>4, <2>5, <2>7, <2>8, <2>9, <2>10, <2>11
    <2>13. \A g \in Headers(b)' : Filled(b, g)'
      BY <1>6, <1>8, <2>4, <2>11
    <2>14. Headers(b)' # {} /\ \A f, g \in Headers(b)' : TextOf(f) = TextOf(g)
      BY <2>0, <2>11
    <2> QED
      BY <2>5, <2>6, <2>12, <2>13, <2>14, SoundUnowned
  <1>12. CASE b \in TextBlocks(h) /\ p \in Forwarders
    <2>0. Headers(b)' = Headers(b) \cup {h} /\ Uses(Headers(b)', b) = Uses(Headers(b), b) + Fields(h, b) /\ Fields(h, b) \in {1, 2}
      BY <1>2, <1>12, HeaderAdded
    <2>1. pc[p] = "fwd_hdr" /\ Handing(p)
      BY <1>0, <1>12, Undoing, Disjoint DEF Handing
    <2>2. PICK g \in Headers(b) : TextOf(g) = msg[p] /\ Fields(g, b) = Fields(msg[p], b)
      BY <1>6, <1>12, <2>1, Forwarding
    <2>3. /\ Cardinality(Hands(b)) = Cardinality(Hands(b)') + Fields(h, b) /\ Cardinality(Hands(b)') \in Nat
          /\ IsFiniteSet(Hands(b)')
      <3>1. /\ Hand(Hands(b), p, 1) = (IF fld[p] = 1 THEN In(msg[p], 1, b) ELSE 0)
            /\ Hand(Hands(b), p, 2) = In(msg[p], 2, b)
            /\ In(msg[p], 1, b) \in {0, 1} /\ In(msg[p], 2, b) \in {0, 1}
            /\ Fields(msg[p], b) = In(msg[p], 1, b) + In(msg[p], 2, b)
        BY <1>12, <2>1, HandsOf
      <3>2. Hand(Hands(b)', p, 1) = 0 /\ Hand(Hands(b)', p, 2) = 0
        BY <1>5 DEF Hand
      <3>3. PICK c \in Nat :
              /\ Cardinality(Hands(b)) = c + Hand(Hands(b), p, 1) + Hand(Hands(b), p, 2)
              /\ Cardinality(Hands(b)') = c + Hand(Hands(b)', p, 1) + Hand(Hands(b)', p, 2)
        BY <1>0, <1>3, <1>7, HandsStep
      <3>4. IsFiniteSet(Hands(b)')
        BY <1>0, <1>3, <1>7, HandsStep
      <3>5. PICK i \in {0, 1}, j \in {0, 1} : i = In(msg[p], 1, b) /\ j = In(msg[p], 2, b)
        BY <3>1
      <3>6. Cardinality(Hands(b)) = c + i + j /\ Cardinality(Hands(b)') = c + 0 + 0 /\ Fields(h, b) = i + j
        BY <1>6, <1>9, <3>1, <3>2, <3>3, <3>5
      <3>7. c + i + j = c + (i + j) /\ c + 0 + 0 = c
        OBVIOUS
      <3> QED
        BY <3>4, <3>6, <3>7
    <2>4. PICK r \in Nat, k \in {1, 2}, u \in Nat, c \in Nat :
            r = Refs(b) /\ k = Fields(h, b) /\ u = Uses(Headers(b), b) /\ c = Cardinality(Hands(b)')
      BY <1>7, <2>0, <2>3
    <2>5. Uses(Headers(b)', b) = u + k /\ Cardinality(Hands(b)) = c + k /\ Claims(b) = u + (c + k)
      BY <2>0, <2>3, <2>4 DEF Claims
    <2>6. u + (c + k) = u + k + c
      OBVIOUS
    <2>7. \A f \in Headers(b)' : Fields(f, b) = k /\ TextOf(f) = msg[p] /\ Filled(b, f)'
      <3>1. \A f \in Headers(b) : TextOf(f) = msg[p] /\ Filled(b, f)
        BY <2>2 DEF Sound, Agree, Contents
      <3>2. \A f \in Headers(b)' : TextOf(f) = msg[p]
        BY <1>2, <2>0, <3>1
      <3>3. Filled(b, h)
        BY <1>6, <2>2, <3>1, SameText
      <3>4. \A f \in Headers(b)' : Fields(f, b) = k
        BY <1>6, <2>4, <3>2, SameText
      <3> QED
        BY <1>8, <2>0, <3>1, <3>2, <3>3, <3>4
    <2>8. CASE \A q \in Proc : ~Owns(q, b)
      <3>1. LET n == Refs(b) + Gone(b) + Fields(g, b) - 1
            IN  n >= Claims(b) /\ (b \notin leaked => n = Claims(b))
        BY <2>2, <2>8 DEF Sound, Counted
      <3>2. r + 0 + k - 1 >= u + k + c /\ (b \notin leaked => r + 0 + k - 1 = u + k + c)
        BY <1>4, <1>6, <2>2, <2>4, <2>5, <2>6, <3>1
      <3>3. \A q \in Proc : ~Owns(q, b)'
        BY <1>0, <1>3, <1>5, <2>8, OwnsLeft
      <3>4. \A f \in Headers(b)' :
             LET n == Refs(b)' + Gone(b)' + Fields(f, b) - 1
             IN  n >= Uses(Headers(b)', b) + Cardinality(Hands(b)')
                 /\ (b \notin leaked' => n = Uses(Headers(b)', b) + Cardinality(Hands(b)'))
        BY <1>1, <1>4, <2>4, <2>5, <2>7, <3>2
      <3>5. Headers(b)' # {} /\ \A e, f \in Headers(b)' : TextOf(e) = TextOf(f)
        BY <2>0, <2>7
      <3> QED
        BY <2>3, <2>7, <3>3, <3>4, <3>5, SoundUnowned
    <2>9. ASSUME NEW q \in Proc, Owns(q, b) PROVE Sound(b)'
      <3>1. /\ Uncounted(q) /\ cnt[q] \in Nat /\ (\A f \in Proc \ {q} : ~Owns(f, b)) /\ TextOf(g) = msg[q] /\ Fields(msg[q], b) = k
        BY <1>6, <2>2, <2>4, <2>9, Owners DEF Sound
      <3>2. q # p /\ q \in Mails /\ q \notin Senders
        BY <1>0, <3>1, Disjoint DEF Uncounted
      <3>3. /\ Owns(q, b)' <=> Owns(q, b)
            /\ (Uncounted(q)' <=> Uncounted(q)) /\ (Handing(q)' <=> Handing(q))
            /\ msg'[q] = msg[q] /\ cnt'[q] = cnt[q]
        BY <1>0, <1>3, <3>2, OwnsOthers
      <3>4. \A f \in Proc \ {q} : ~Owns(f, b)'
        <4> SUFFICES ASSUME NEW f \in Proc, f # q PROVE ~Owns(f, b)'
          OBVIOUS
        <4>1. CASE f = p
          BY <1>5, <4>1
        <4>2. CASE f # p
          <5>1. f \in Proc \ {p} /\ ~Owns(f, b)
            BY <3>1, <4>2
          <5>2. Owns(f, b)' <=> Owns(f, b)
            BY <1>0, <1>3, <5>1, OwnsOthers
          <5> QED
            BY <5>1, <5>2
        <4> QED
          BY <4>1, <4>2
      <3>5. LET n == Refs(b) + cnt[q] * Fields(msg[q], b) - 1
            IN  n >= Claims(b) /\ (b \notin leaked => n = Claims(b)) /\ Refs(b) > Cardinality(Hands(b))
        BY <2>9, <3>1, <3>2 DEF Sound, Counted
      <3>6. cnt[q] > 0 /\ Filled(b, msg[q])
        BY <2>2, <2>9 DEF Sound, Agree, Contents
      <3>7. r > c
        <4>1. r > c + k
          BY <2>4, <2>5, <3>5
        <4> QED
          BY <4>1
      <3>8. LET n == Refs(b)' + cnt'[q] * Fields(msg'[q], b) - 1
            IN  n >= Uses(Headers(b)', b) + Cardinality(Hands(b)')
                /\ (b \notin leaked' => n = Uses(Headers(b)', b) + Cardinality(Hands(b)'))
                /\ Refs(b)' > Cardinality(Hands(b)')
        BY <1>1, <1>4, <2>4, <2>5, <2>6, <3>3, <3>5, <3>7
      <3>9. \A f \in Headers(b)' : TextOf(f) = msg'[q] /\ cnt'[q] > 0
        BY <2>2, <2>7, <3>1, <3>3, <3>6
      <3>10. Filled(b, msg[q])'
        BY <1>8, <3>3, <3>6
      <3> QED
        BY <2>3, <2>9, <3>2, <3>3, <3>4, <3>8, <3>9, <3>10, SoundOwned
    <2> QED
      BY <2>8, <2>9
  <1> QED
    BY <1>10, <1>11, <1>12

\* A block that p and its step leave alone
LEMMA SoundBeside ==
  ASSUME NEW p \in Proc, OthersStay(p), NEW b \in Nat, Sound(b),
         Headers(b)' = Headers(b), Refs(b)' = Refs(b), Hands(b)' = Hands(b), Gone(b)' = Gone(b),
         leaked \subseteq leaked', Refs(b) > 0 => sdt'[b + 1] = sdt[b + 1], ~Owns(p, b), ~Owns(p, b)'
  PROVE  Sound(b)'
  <1>1. \A q \in Proc : Owns(q, b)' <=> Owns(q, b)
    BY OwnsOthers
  <1>2. ASSUME NEW q \in Proc, Owns(q, b)
        PROVE  msg'[q] = msg[q] /\ cnt'[q] = cnt[q] /\ (Uncounted(q)' <=> Uncounted(q))
    <2>1. q \in Proc \ {p}
      BY <1>2
    <2>2. /\ Owns(q, b)' <=> Owns(q, b)
          /\ (Uncounted(q)' <=> Uncounted(q)) /\ (Handing(q)' <=> Handing(q))
          /\ msg'[q] = msg[q] /\ cnt'[q] = cnt[q]
      BY <2>1, OwnsOthers
    <2> QED
      BY <2>2
  <1> QED
    BY <1>1, <1>2, Elsewhere

LEMMA SoundAddRcpt ==
  ASSUME QuietBase, Kinds, NEW p \in Proc, AddRcpt(p), NEW b \in Nat, Sound(b)
  PROVE  Sound(b)'
  <1>0. p \in Mails /\ pc[p] = "rcpt" /\ pc[p] \in CountPlaces
    BY Mailing DEF AddRcpt, CountPlaces
  <1>1. UNCHANGED <<sda, sdt, leaked, pc, msg, fld>> /\ cnt' = [cnt EXCEPT ![p] = cnt[p] + 1] /\ cnt \in [Proc -> Nat]
    BY DEF AddRcpt, data, errors, Kinds, Types
  <1>2. OthersStay(p) /\ cnt'[p] = cnt[p] + 1 /\ cnt[p] \in Nat
    BY <1>1 DEF OthersStay
  <1>3. /\ p \notin Senders /\ p \notin Forwarders /\ p \notin Purgers
        /\ Uncounted(p) /\ (Owns(p, b) <=> b \in TextBlocks(msg[p])) /\ Gone(b) = 0
        /\ pc[p] \notin NoTextYet /\ fld[p] = 1
    BY <1>0, CountOwns
  <1>4. PICK h \in HdrsOf : h \notin hdrs /\ TextOf(h) = msg[p] /\ hdrs' = hdrs \cup {h}
    BY <1>3, NewHdrAdded DEF AddRcpt
  <1>5. Refs(b)' = Refs(b) /\ Gone(b)' = Gone(b) /\ Hands(b)' = Hands(b)
    BY <1>1, <1>2, <1>3, GoneOthers, HandsOthers DEF Refs
  <1>6. /\ TextBlocks(h) = TextBlocks(msg[p]) /\ Fields(h, b) = Fields(msg[p], b)
    BY <1>4, SameText
  <1>7. Uncounted(p)' /\ (Owns(p, b)' <=> Owns(p, b))
    <2>1. Unfreed(p)' = Unfreed(p) /\ (Uncounted(p)' <=> Uncounted(p))
      BY <1>1 DEF Unfreed, Uncounted
    <2> QED
      BY <1>1, <1>3, <2>1 DEF Owns
  <1>8. \A m : Filled(b, m) => Filled(b, m)'
    BY <1>1, <1>5 DEF Filled
  <1>9. CASE ~Owns(p, b)
    <2>1. Headers(b)' = Headers(b)
      BY <1>3, <1>4, <1>6, <1>9, HeaderAdded
    <2> QED
      BY <1>1, <1>2, <1>5, <1>7, <1>9, <2>1, SoundBeside
  <1>10. CASE Owns(p, b)
    <2>1. /\ Headers(b)' = Headers(b) \cup {h} /\ Fields(h, b) \in {1, 2}
          /\ Uses(Headers(b)', b) = Uses(Headers(b), b) + Fields(h, b)
      BY <1>3, <1>4, <1>6, <1>10, HeaderAdded
    <2>2. /\ \A g \in Headers(b) : TextOf(g) = msg[p]
          /\ \A q \in Proc \ {p} : ~Owns(q, b)
      BY <1>10, Owners DEF Sound
    <2>3. Refs(b) \in Nat /\ Uses(Headers(b), b) \in Nat /\ Cardinality(Hands(b)) \in Nat /\ IsFiniteSet(Hands(b))
      BY Numbers3
    <2>4. LET n == Refs(b) + cnt[p] * Fields(msg[p], b) - 1
          IN  n >= Claims(b) /\ (b \notin leaked => n = Claims(b)) /\ Refs(b) > Cardinality(Hands(b))
      BY <1>0, <1>3, <1>10 DEF Sound, Counted
    <2>5. PICK r \in Nat, k \in {1, 2}, u \in Nat, c \in Nat, i \in Nat :
            r = Refs(b) /\ k = Fields(h, b) /\ u = Uses(Headers(b), b) /\ c = Cardinality(Hands(b)) /\ i = cnt[p]
      BY <1>2, <2>1, <2>3
    <2>6. r + i * k - 1 >= u + c /\ (b \notin leaked => r + i * k - 1 = u + c) /\ r > c
      BY <1>6, <2>4, <2>5 DEF Claims
    <2>7. (i + 1) * k = i * k + k /\ i * k \in Nat
      OBVIOUS
    <2>8. r + (i + 1) * k - 1 >= (u + k) + c /\ (b \notin leaked => r + (i + 1) * k - 1 = (u + k) + c) /\ r > c
      BY <2>6, <2>7
    <2>9. LET n == Refs(b)' + cnt'[p] * Fields(msg'[p], b) - 1
            IN  n >= Uses(Headers(b)', b) + Cardinality(Hands(b)')
                /\ (b \notin leaked' => n = Uses(Headers(b)', b) + Cardinality(Hands(b)'))
                /\ Refs(b)' > Cardinality(Hands(b)')
      BY <1>1, <1>2, <1>5, <1>6, <2>1, <2>5, <2>8
    <2>10. \A q \in Proc \ {p} : ~Owns(q, b)'
      BY <1>2, <2>2, OwnsLeft
    <2>11. \A g \in Headers(b)' : TextOf(g) = msg'[p] /\ cnt'[p] > 0
      BY <1>1, <1>2, <1>4, <2>1, <2>2
    <2>12. Filled(b, msg[p])'
      BY <1>1, <1>8, <1>10 DEF Sound, Contents
    <2>13. Owns(p, b)' /\ IsFiniteSet(Hands(b)')
      BY <1>5, <1>7, <1>10, <2>3
    <2> QED
      BY <1>3, <2>9, <2>10, <2>11, <2>12, <2>13, SoundOwned
  <1> QED
    BY <1>9, <1>10

\* A recipient without a header: the blocks of the text are counted too often.
LEMMA SoundSkipRcpt ==
  ASSUME QuietBase, Kinds, NEW p \in Proc, SkipRcpt(p), NEW b \in Nat, Sound(b)
  PROVE  Sound(b)'
  <1>0. p \in Mails /\ pc[p] = "rcpt" /\ pc[p] \in CountPlaces
    BY Mailing DEF SkipRcpt, CountPlaces
  <1>1. /\ UNCHANGED <<sda, sdt, hdrs, pc, msg, fld>> /\ leaked' = leaked \cup TextBlocks(msg[p])
        /\ cnt' = [cnt EXCEPT ![p] = cnt[p] + 1] /\ cnt \in [Proc -> Nat]
    BY DEF SkipRcpt, data, base, Kinds, Types
  <1>2. OthersStay(p) /\ cnt'[p] = cnt[p] + 1 /\ cnt[p] \in Nat
    BY <1>1 DEF OthersStay
  <1>3. /\ p \notin Senders /\ p \notin Forwarders /\ p \notin Purgers
        /\ Uncounted(p) /\ (Owns(p, b) <=> b \in TextBlocks(msg[p])) /\ Gone(b) = 0
        /\ pc[p] \notin NoTextYet /\ fld[p] = 1
    BY <1>0, CountOwns
  <1>4. Headers(b)' = Headers(b) /\ Refs(b)' = Refs(b) /\ Gone(b)' = Gone(b) /\ Hands(b)' = Hands(b)
    BY <1>1, <1>2, <1>3, GoneOthers, HandsOthers DEF Refs, Headers
  <1>5. Uncounted(p)' /\ (Owns(p, b)' <=> Owns(p, b))
    <2>1. Unfreed(p)' = Unfreed(p) /\ (Uncounted(p)' <=> Uncounted(p))
      BY <1>1 DEF Unfreed, Uncounted
    <2> QED
      BY <1>1, <1>3, <2>1 DEF Owns
  <1>6. \A m : Filled(b, m) => Filled(b, m)'
    BY <1>1, <1>4 DEF Filled
  <1>7. CASE ~Owns(p, b)
    BY <1>1, <1>2, <1>4, <1>5, <1>7, SoundBeside
  <1>8. CASE Owns(p, b)
    <2>1. /\ \A g \in Headers(b) : TextOf(g) = msg[p]
          /\ \A q \in Proc \ {p} : ~Owns(q, b)
      BY <1>8, Owners DEF Sound
    <2>2. /\ Refs(b) \in Nat /\ Uses(Headers(b), b) \in Nat /\ Cardinality(Hands(b)) \in Nat /\ IsFiniteSet(Hands(b))
          /\ b \in leaked'
      BY <1>1, <1>3, <1>8, Numbers3
    <2>3. LET n == Refs(b) + cnt[p] * Fields(msg[p], b) - 1
          IN  n >= Claims(b) /\ Refs(b) > Cardinality(Hands(b))
      BY <1>0, <1>3, <1>8 DEF Sound, Counted
    <2>4. Fields(msg[p], b) \in Nat
      <3>1. msg[p].off \in Nat /\ msg[p].lay \in Layouts
        BY <1>3, HeldText
      <3> QED
        BY <3>1, FieldsNat
    <2>5. PICK r \in Nat, k \in Nat, u \in Nat, c \in Nat, i \in Nat :
            r = Refs(b) /\ k = Fields(msg[p], b) /\ u = Uses(Headers(b), b) /\ c = Cardinality(Hands(b)) /\ i = cnt[p]
      BY <1>2, <2>2, <2>4
    <2>6. r + i * k - 1 >= u + c /\ r > c
      BY <2>3, <2>5 DEF Claims
    <2>7. (i + 1) * k = i * k + k /\ i * k \in Nat
      OBVIOUS
    <2>8. r + (i + 1) * k - 1 >= u + c
      BY <2>6, <2>7
    <2>9. LET n == Refs(b)' + cnt'[p] * Fields(msg'[p], b) - 1
            IN  n >= Uses(Headers(b)', b) + Cardinality(Hands(b)')
                /\ (b \notin leaked' => n = Uses(Headers(b)', b) + Cardinality(Hands(b)'))
                /\ Refs(b)' > Cardinality(Hands(b)')
      BY <1>1, <1>2, <1>4, <2>2, <2>5, <2>6, <2>8
    <2>10. \A q \in Proc \ {p} : ~Owns(q, b)'
      BY <1>2, <2>1, OwnsLeft
    <2>11. \A g \in Headers(b)' : TextOf(g) = msg'[p] /\ cnt'[p] > 0
      BY <1>1, <1>2, <1>4, <2>1
    <2>12. Filled(b, msg[p])'
      BY <1>1, <1>6, <1>8 DEF Sound, Contents
    <2>13. Owns(p, b)' /\ IsFiniteSet(Hands(b)')
      BY <1>4, <1>5, <1>8, <2>2
    <2> QED
      BY <1>3, <2>9, <2>10, <2>11, <2>12, <2>13, SoundOwned
  <1> QED
    BY <1>7, <1>8

\* A block without references has no claims on it, while the .sda file is free.
LEMMA Unclaimed ==
  ASSUME QuietBase, Kinds, NEW p \in Proc, pc[p] = "store", CanOpenDa(p), NEW b \in Nat, Sound(b), Refs(b) = 0
  PROVE  Headers(b) = {} /\ Hands(b) = {} /\ Cardinality(Hands(b)) = 0 /\ \A q \in Proc : ~Owns(q, b)
  <1>1. \A q \in Proc \ {p} : daLock # q
    BY Disjoint DEF CanOpenDa
  <1>2. \A q \in Proc : pc[q] \in {"free", "pg_scan", "pg_free"} => q = p
    BY <1>1 DEF Kinds, Owned
  <1>3. \A q \in Purgers : pc[q] \notin InPurge
    BY <1>2, Disjoint DEF InPurge
  <1>4. Gone(b) = 0
    BY <1>3, GoneIs
  <1>5. Uses(Headers(b), b) \in Nat /\ Cardinality(Hands(b)) \in Nat /\ IsFiniteSet(Hands(b))
    BY Numbers3
  <1>6. ASSUME NEW q \in Proc, Owns(q, b) PROVE FALSE
    <2>1. CASE Uncounted(q)
      <3>1. q \in Mails
        BY <2>1 DEF Uncounted
      <3>2. Refs(b) > Cardinality(Hands(b))
        BY <1>6, <2>1, <3>1 DEF Sound, Counted
      <3> QED
        BY <1>5, <3>2
    <2>2. CASE q \in Senders
      <3>1. Refs(b) >= 1
        BY <1>6, <2>2 DEF Sound, Counted
      <3> QED
        BY <3>1
    <2>3. CASE q \in Mailers /\ pc[q] = "free"
      BY <1>2, <2>3
    <2> QED
      BY <1>6, <2>1, <2>2, <2>3, Owners DEF Sound
  <1>7. ASSUME NEW h \in Headers(b) PROVE FALSE
    <2>1. Refs(b) + Gone(b) + Fields(h, b) - 1 >= Uses(Headers(b), b) + Cardinality(Hands(b))
      BY <1>6 DEF Sound, Counted, Claims
    <2>2. Fields(h, b) \in {1, 2} /\ Uses(Headers(b), b) >= Fields(h, b)
      BY HeadersAre
    <2>3. PICK k \in {1, 2}, u \in Nat, c \in Nat :
            k = Fields(h, b) /\ u = Uses(Headers(b), b) /\ c = Cardinality(Hands(b))
      BY <1>5, <2>2
    <2>4. 0 + 0 + k - 1 >= u + c /\ u >= k
      BY <1>4, <2>1, <2>2, <2>3
    <2> QED
      BY <2>4
  <1>8. Headers(b) = {}
    BY <1>7
  <1> QED
    BY <1>6, <1>8, NoHands

LEMMA SoundStoreText ==
  ASSUME QuietBase, Kinds, NEW p \in Senders \cup Mails, StoreText(p), NEW b \in Nat, Sound(b)
  PROVE  Sound(b)'
  <1>0. p \in Proc /\ p \notin Purgers /\ p \notin Forwarders /\ pc[p] = "store" /\ (p \in Senders <=> p \notin Mails)
    BY Disjoint DEF StoreText
  <1>1. PICK m \in TextsOf :
          /\ m.off \in Nat /\ m.lay \in Layouts
          /\ msg' = [msg EXCEPT ![p] = m]
          /\ \A c \in TextBlocks(m) : RefsIn(sda, c) = 0
          /\ \A c \in Nat : RefsIn(sda', c) = IF c \in TextBlocks(m) THEN 1 ELSE RefsIn(sda, c)
          /\ \A c \in TextBlocks(m) : sdt'[c + 1] = <<m.txt, c - m.off>>
          /\ \A c \in Nat \ TextBlocks(m) : RefsIn(sda, c) > 0 => sdt'[c + 1] = sdt[c + 1]
    BY <1>0, Storing
  <1>2. UNCHANGED <<hdrs, fld, cnt, leaked>> /\ CanOpenDa(p)
    BY DEF StoreText, errors
  <1>3. /\ pc = [q \in Proc |-> pc[q]] /\ msg \in [Proc -> TextsOf \cup {NoText}]
        /\ (p \in Senders => Goto(p, "hdr")) /\ (p \in Mails => Goto(p, "rcpt"))
    BY <1>0 DEF StoreText, Kinds, Types
  <1>4. /\ (p \in Senders => pc'[p] = "hdr") /\ (p \in Mails => pc'[p] = "rcpt")
        /\ \A q \in Proc \ {p} : pc'[q] = pc[q]
    <2>1. PICK l \in {"hdr", "rcpt"} : Goto(p, l) /\ (p \in Senders => l = "hdr") /\ (p \in Mails => l = "rcpt")
      BY <1>0, <1>3
    <2>2. pc' = [q \in Proc |-> IF q = p THEN l ELSE pc[q]]
      BY <1>3, <2>1 DEF Goto
    <2> QED
      BY <1>0, <2>1, <2>2
  <1>5. msg'[p] = m /\ OthersStay(p)
    BY <1>0, <1>1, <1>2, <1>3, <1>4 DEF OthersStay
  <1>6. fld'[p] = 1 /\ cnt'[p] = 0
    <2>1. Known(p)
      BY <1>0 DEF Kinds
    <2> QED
      BY <1>0, <1>2, <2>1 DEF Known, FirstField
  <1>7. Headers(b)' = Headers(b) /\ Gone(b)' = Gone(b) /\ Hands(b)' = Hands(b)
    BY <1>0, <1>2, <1>5, GoneOthers, HandsOthers DEF Headers
  <1>8. Owns(p, b)' <=> b \in TextBlocks(m)
    <2>1. b \in TextBlocks(m) <=> \E x \in 1..Len(m.lay) : b \in FieldBlocks(m, x)
      BY <1>1, TextOrField
    <2>2. Unfreed(p)' = UNION {FieldBlocks(m, x) : x \in 1..Len(m.lay)}
      BY <1>5, <1>6 DEF Unfreed
    <2>3. b \in Unfreed(p)' <=> b \in TextBlocks(m)
      BY <2>1, <2>2
    <2>4. p \in Senders => pc'[p] = "hdr" /\ p \notin Mails /\ p \notin Mailers
      BY <1>0, <1>4, Disjoint
    <2>5. p \in Mails => pc'[p] = "rcpt" /\ p \notin Senders
      BY <1>0, <1>4
    <2> QED
      BY <1>0, <1>5, <2>3, <2>4, <2>5 DEF Owns, Uncounted
  <1>9. CASE b \in TextBlocks(m)
    <2>1. Refs(b) = 0 /\ Refs(b)' = 1
      BY <1>1, <1>9 DEF Refs
    <2>2. Headers(b) = {} /\ Hands(b) = {} /\ Cardinality(Hands(b)) = 0 /\ \A q \in Proc : ~Owns(q, b)
      BY <1>0, <1>2, <2>1, Unclaimed
    <2>3. Uses(Headers(b)', b) = 0 /\ Cardinality(Hands(b)') = 0 /\ IsFiniteSet(Hands(b)') /\ Headers(b)' = {}
      BY <1>7, <2>2, HeadersAre, Numbers3
    <2>4. \A q \in Proc \ {p} : ~Owns(q, b)'
      BY <1>0, <1>5, <2>2, OwnsLeft
    <2>5. Filled(b, msg[p])'
      BY <1>1, <1>5, <1>9 DEF Filled
    <2>6. Fields(m, b) \in {1, 2}
      BY <1>1, <1>9, InTwo
    <2>7. LET n == Refs(b)' + cnt'[p] * Fields(msg'[p], b) - 1
          IN  n >= Uses(Headers(b)', b) + Cardinality(Hands(b)')
              /\ (b \notin leaked' => n = Uses(Headers(b)', b) + Cardinality(Hands(b)'))
              /\ Refs(b)' > Cardinality(Hands(b)')
      <3>1. PICK k \in {1, 2} : k = Fields(m, b)
        BY <2>6
      <3>2. 1 + 0 * k - 1 = 0 + 0
        OBVIOUS
      <3> QED
        BY <1>5, <1>6, <2>1, <2>3, <3>1, <3>2
    <2>8. Refs(b)' >= 1 /\ (b \notin leaked' => Refs(b)' = 1)
      BY <2>1
    <2>9. Owns(p, b)' /\ \A h \in Headers(b)' : TextOf(h) = msg'[p] /\ cnt'[p] > 0
      BY <1>8, <1>9, <2>3
    <2> QED
      BY <1>0, <2>3, <2>4, <2>5, <2>7, <2>8, <2>9, SoundOwned
  <1>10. CASE b \notin TextBlocks(m)
    <2>1. Refs(b)' = Refs(b) /\ (Refs(b) > 0 => sdt'[b + 1] = sdt[b + 1])
      BY <1>1, <1>10 DEF Refs
    <2>2. ~Owns(p, b) /\ ~Owns(p, b)'
      BY <1>0, <1>8, <1>10 DEF Owns, Uncounted
    <2> QED
      BY <1>0, <1>2, <1>5, <1>7, <2>1, <2>2, SoundBeside
  <1> QED
    BY <1>9, <1>10

\* A forwarder's references come and go together with what it hands out.
LEMMA SoundForwarded ==
  ASSUME QuietBase, Kinds, NEW p \in Forwarders, OthersStay(p), pc[p] \notin {"idle", "fwd"},
         NEW b \in TextBlocks(msg[p]), Sound(b), UNCHANGED hdrs, leaked \subseteq leaked',
         Refs(b)' \in Nat, Refs(b)' > 0 => sdt'[b + 1] = sdt[b + 1],
         Refs(b)' - Cardinality(Hands(b)') >= Refs(b) - Cardinality(Hands(b)),
         b \notin leaked' => Refs(b)' - Cardinality(Hands(b)') = Refs(b) - Cardinality(Hands(b))
  PROVE  Sound(b)'
  <1>1. p \in Proc /\ p \notin Purgers /\ pc[p] # "idle" /\ msg[p].off \in Nat /\ msg[p].lay \in Layouts
    BY Forwarding, Disjoint
  <1>2. b \in Nat
    BY <1>1, BlocksAreNat
  <1>3. Refs(b) > Cardinality(Hands(b)) /\ Cardinality(Hands(b)) \in Nat /\ Refs(b) \in Nat /\ Gone(b) = 0
    BY Backed
  <1>4. PICK g \in Headers(b) : TextOf(g) = msg[p]
    BY <1>1, Forwarding
  <1>5. Headers(b)' = Headers(b) /\ Gone(b)' = 0
    BY <1>1, <1>3, GoneOthers DEF Headers
  <1>6. Uses(Headers(b), b) \in Nat /\ IsFiniteSet(Hands(b)) /\ \A h \in Headers(b) : Fields(h, b) \in {1, 2}
    BY <1>2, HeadersAre, Numbers3
  <1>7. IsFiniteSet(Hands(b)') /\ Cardinality(Hands(b)') \in Nat
    <2>1. IsFiniteSet(Hands(b)')
      BY <1>1, <1>6, HandsStep
    <2> QED
      BY <2>1, FS_CardinalityType
  <1>8. PICK r \in Nat, c \in Nat, s \in Nat, d \in Nat, u \in Nat :
          /\ r = Refs(b) /\ c = Cardinality(Hands(b)) /\ u = Uses(Headers(b), b)
          /\ s = Refs(b)' /\ d = Cardinality(Hands(b)')
    BY <1>3, <1>6, <1>7
  <1>9. s - d >= r - c /\ (b \notin leaked' => s - d = r - c) /\ r > c
    BY <1>3, <1>8
  <1>10. \A m : Filled(b, m) => Filled(b, m)'
    BY <1>3 DEF Filled
  <1>11. \A h \in Headers(b) : TextOf(h) = msg[p] /\ Filled(b, h) /\ Filled(b, h)'
    BY <1>4, <1>10 DEF Sound, Agree, Contents
  <1>12. ~Owns(p, b) /\ ~Owns(p, b)'
    BY NoClaims
  <1>13. CASE \A q \in Proc : ~Owns(q, b)
    <2>1. \A q \in Proc : ~Owns(q, b)'
      BY <1>1, <1>12, <1>13, OwnsLeft
    <2>2. ASSUME NEW h \in Headers(b)'
          PROVE  LET n == Refs(b)' + Gone(b)' + Fields(h, b) - 1
                 IN  n >= Uses(Headers(b)', b) + Cardinality(Hands(b)')
                     /\ (b \notin leaked' => n = Uses(Headers(b)', b) + Cardinality(Hands(b)'))
      <3>1. h \in Headers(b)
        BY <1>5
      <3>2. PICK k \in {1, 2} : k = Fields(h, b)
        BY <1>6, <3>1
      <3>3. LET n == Refs(b) + Gone(b) + Fields(h, b) - 1
            IN  n >= Claims(b) /\ (b \notin leaked => n = Claims(b))
        BY <1>13, <3>1 DEF Sound, Counted
      <3>4. r + 0 + k - 1 >= u + c /\ (b \notin leaked => r + 0 + k - 1 = u + c)
        BY <1>3, <1>8, <3>2, <3>3 DEF Claims
      <3>5. s + 0 + k - 1 >= u + d
        BY <1>9, <3>4
      <3>6. ASSUME b \notin leaked' PROVE s + 0 + k - 1 = u + d
        <4>1. b \notin leaked
          BY <3>6
        <4>2. s - d = r - c /\ r + 0 + k - 1 = u + c
          BY <1>9, <3>4, <3>6, <4>1
        <4> QED
          BY <4>2
      <3> QED
        BY <1>5, <1>8, <3>2, <3>5, <3>6
    <2>3. Headers(b)' # {} /\ (\A e, f \in Headers(b)' : TextOf(e) = TextOf(f)) /\ \A f \in Headers(b)' : Filled(b, f)'
      BY <1>4, <1>5, <1>11
    <2> QED
      BY <1>2, <1>7, <2>1, <2>2, <2>3, SoundUnowned
  <1>14. ASSUME NEW q \in Proc, Owns(q, b) PROVE Sound(b)'
    <2>1. /\ Uncounted(q) /\ cnt[q] \in Nat /\ (\A f \in Proc \ {q} : ~Owns(f, b)) /\ TextOf(g) = msg[q]
          /\ Fields(msg[q], b) \in {1, 2}
      BY <1>2, <1>4, <1>14, Owners DEF Sound
    <2>2. q # p /\ q \in Mails /\ q \notin Senders
      BY <2>1, Disjoint DEF Uncounted
    <2>3. /\ Owns(q, b)' <=> Owns(q, b)
          /\ (Uncounted(q)' <=> Uncounted(q)) /\ (Handing(q)' <=> Handing(q))
          /\ msg'[q] = msg[q] /\ cnt'[q] = cnt[q]
      BY <1>1, <2>2, OwnsOthers
    <2>4. \A f \in Proc \ {q} : ~Owns(f, b)'
      <3> SUFFICES ASSUME NEW f \in Proc, f # q PROVE ~Owns(f, b)'
        OBVIOUS
      <3>1. CASE f = p
        BY <1>12, <3>1
      <3>2. CASE f # p
        <4>1. f \in Proc \ {p} /\ ~Owns(f, b)
          BY <2>1, <3>2
        <4>2. Owns(f, b)' <=> Owns(f, b)
          BY <1>1, <4>1, OwnsOthers
        <4> QED
          BY <4>1, <4>2
      <3> QED
        BY <3>1, <3>2
    <2>5. LET n == Refs(b) + cnt[q] * Fields(msg[q], b) - 1
          IN  n >= Claims(b) /\ (b \notin leaked => n = Claims(b)) /\ Refs(b) > Cardinality(Hands(b))
      BY <1>14, <2>1, <2>2 DEF Sound, Counted
    <2>6. PICK i \in Nat, k \in {1, 2} : i = cnt[q] /\ k = Fields(msg[q], b)
      BY <2>1
    <2>7. i * k \in Nat
      OBVIOUS
    <2>8. PICK w \in Nat : w = i * k
      BY <2>7
    <2>9. r + w - 1 >= u + c /\ (b \notin leaked => r + w - 1 = u + c)
      BY <1>8, <2>5, <2>6, <2>8 DEF Claims
    <2>10. s + w - 1 >= u + d /\ s > d
      BY <1>9, <2>9
    <2>11. ASSUME b \notin leaked' PROVE s + w - 1 = u + d
      <3>1. b \notin leaked
        BY <2>11
      <3>2. s - d = r - c /\ r + w - 1 = u + c
        BY <1>9, <2>9, <2>11, <3>1
      <3> QED
        BY <3>2
    <2>12. LET n == Refs(b)' + cnt'[q] * Fields(msg'[q], b) - 1
           IN  n >= Uses(Headers(b)', b) + Cardinality(Hands(b)')
               /\ (b \notin leaked' => n = Uses(Headers(b)', b) + Cardinality(Hands(b)'))
               /\ Refs(b)' > Cardinality(Hands(b)')
      BY <1>5, <1>8, <2>3, <2>6, <2>8, <2>10, <2>11
    <2>13. cnt[q] > 0 /\ Filled(b, msg[q])
      BY <1>4, <1>14 DEF Sound, Agree, Contents
    <2>14. (\A f \in Headers(b)' : TextOf(f) = msg'[q] /\ cnt'[q] > 0) /\ Filled(b, msg[q])'
      BY <1>4, <1>5, <1>10, <1>11, <2>1, <2>3, <2>13
    <2> QED
      BY <1>2, <1>7, <1>14, <2>2, <2>3, <2>4, <2>12, <2>14, SoundOwned
  <1> QED
    BY <1>13, <1>14

\* smb_incmsg_dfields has come to all the blocks of the text.
LEMMA FitsAll ==
  ASSUME QuietBase, sda \in Seq(Nat), NEW m, m.off \in Nat, m.lay \in Layouts, IncFits(m), NEW b \in TextBlocks(m)
  PROVE  b < Len(sda)
  <1>1. b \in Nat
    BY BlocksAreNat
  <1>2. PICK x \in 1..Len(m.lay) : b \in FieldBlocks(m, x)
    BY <1>1, TextOrField
  <1>3. PICK f \in Nat, g \in Nat : f <= g /\ FieldBlocks(m, x) = f..g
    BY FieldInterval
  <1>4. Greatest(f..g) = g
    BY <1>3, Ends
  <1>5. Greatest(FieldBlocks(m, x)) < Len(sda)
    BY DEF IncFits, FreeFits
  <1>6. PICK n \in Nat : n = Len(sda)
    OBVIOUS
  <1>7. g < n /\ b <= g
    BY <1>2, <1>3, <1>4, <1>5, <1>6
  <1> QED
    BY <1>1, <1>6, <1>7

\* The counts after smb_incmsg_dfields
LEMMA Increased ==
  ASSUME QuietBase, Kinds, Roomy, NEW p \in Proc, IncRefs(p), NEW b \in Nat
  PROVE  LET r == IF p \in Forwarders THEN 1 ELSE cnt[p] - 1
         IN  /\ r \in Nat
             /\ Refs(b)' = IF b < Len(sda) THEN Refs(b) + r * Fields(msg[p], b) ELSE 0
  <1>1. pc[p] = "inc" /\ pc[p] \notin NoTextYet
    BY DEF IncRefs, NoTextYet
  <1>2. cnt[p] \in Nat /\ sda \in Seq(Nat)
    BY DEF Kinds, Types
  <1>3. PICK r \in Nat : r = IF p \in Forwarders THEN 1 ELSE cnt[p] - 1
    BY <1>1, <1>2, Counting
  <1>4. msg[p].off \in Nat /\ msg[p].lay \in Layouts
    BY <1>1, HeldText
  <1>5. \A i \in 1..Len(sda) : sda[i] + r * Fields(msg[p], i - 1) < RefWidth
    BY <1>1, <1>3 DEF Roomy
  <1>6. sda' = IncDat(msg[p], r)
    BY <1>3 DEF IncRefs
  <1>7. \A c \in Nat : RefsIn(sda', c) = IF c < Len(sda) THEN RefsIn(sda, c) + r * Fields(msg[p], c) ELSE 0
    BY <1>2, <1>4, <1>5, <1>6, IncDatIs
  <1> QED
    BY <1>3, <1>7 DEF Refs

LEMMA SoundIncRefs ==
  ASSUME QuietBase, Kinds, Roomy, NEW p \in Proc, IncRefs(p), NEW b \in Nat \ short', Sound(b)
  PROVE  Sound(b)'
  <1>0. /\ p \in Mails \cup Forwarders /\ p \notin Purgers /\ p \notin Senders
        /\ (p \in Mails => p \notin Forwarders) /\ pc[p] = "inc" /\ pc[p] \notin NoTextYet
    BY Counting DEF IncRefs, NoTextYet
  <1>1. UNCHANGED <<sdt, hdrs>> /\ leaked \subseteq leaked' /\ b \in Nat /\ sda \in Seq(Nat)
    BY DEF IncRefs, base, Kinds, Types
  <1>2. msg[p].off \in Nat /\ msg[p].lay \in Layouts
    BY <1>0, HeldText
  <1>3. PICK r \in Nat : /\ r = IF p \in Forwarders THEN 1 ELSE cnt[p] - 1
                         /\ Refs(b)' = IF b < Len(sda) THEN Refs(b) + r * Fields(msg[p], b) ELSE 0
    BY <1>1, Increased
  <1>4. Refs(b) \in Nat /\ (Refs(b) > 0 => b < Len(sda)) /\ (b < Len(sda) \/ Refs(b) = 0)
    BY <1>1, RefsAreNat DEF Refs, RefsIn
  <1>5. /\ OthersStay(p)
        /\ (p \in Forwarders /\ IncFits(msg[p])) => pc'[p] = "fwd_hdr" /\ UNCHANGED <<msg, fld, cnt>>
        /\ ~(p \in Forwarders /\ IncFits(msg[p])) => pc'[p] = "idle"
    <2>1. CASE p \in Forwarders /\ IncFits(msg[p])
      <3>1. Goto(p, "fwd_hdr") /\ UNCHANGED local
        BY <2>1 DEF IncRefs
      <3> QED
        BY <2>1, <3>1, Stays DEF local
    <2>2. CASE ~(p \in Forwarders /\ IncFits(msg[p]))
      <3>1. Finish(p)
        BY <2>2 DEF IncRefs
      <3> QED
        BY <2>2, <3>1, Finished
    <2> QED
      BY <2>1, <2>2
  <1>6. Gone(b)' = Gone(b) /\ Headers(b)' = Headers(b)
    BY <1>0, <1>1, <1>5, GoneOthers DEF Headers
  <1>7. ~Handing(p)
    BY <1>0 DEF Handing
  <1>8. ~Owns(p, b)'
    <2>1. p \in Mails => pc'[p] \notin CountPlaces \cup UndoPlaces
      BY <1>0, <1>5 DEF CountPlaces, UndoPlaces
    <2> QED
      BY <1>0, <2>1, NoClaims
  <1>9. CASE b \notin TextBlocks(msg[p])
    <2>1. Refs(b)' = Refs(b)
      <3>1. Fields(msg[p], b) = 0
        BY <1>1, <1>2, <1>9, InTwo
      <3>2. r * 0 = 0
        OBVIOUS
      <3> QED
        BY <1>3, <1>4, <3>1, <3>2
    <2>2. ~Owns(p, b)
      BY <1>0, <1>9 DEF Owns, Uncounted
    <2>3. Hands(b)' = Hands(b)
      <3>1. ASSUME p \in Forwarders, NEW x \in {1, 2} PROVE <<p, x>> \notin Hands(b) /\ <<p, x>> \notin Hands(b)'
        <4>1. <<p, x>> \notin Hands(b)
          BY <1>7, <3>1, HandsAre
        <4>2. ASSUME <<p, x>> \in Hands(b)' PROVE FALSE
          <5>1. Handing(p)' /\ x \in fld'[p]..Len(msg'[p].lay) /\ b \in FieldBlocks(msg'[p], x)
            BY <4>2 DEF Hands
          <5>2. UNCHANGED <<msg, fld>>
            BY <1>0, <1>5, <5>1 DEF Handing
          <5>3. fld[p] \in {1, 2} /\ Len(msg[p].lay) \in {1, 2}
            BY <1>0, HeldText
          <5>4. x \in 1..Len(msg[p].lay) /\ b \in FieldBlocks(msg[p], x)
            BY <5>1, <5>2, <5>3
          <5> QED
            BY <1>2, <1>9, <5>4, BlocksAreNat
        <4> QED
          BY <4>1, <4>2
      <3> QED
        BY <1>5, <3>1, HandsOthers
    <2> QED
      BY <1>1, <1>5, <1>6, <1>8, <2>1, <2>2, <2>3, SoundBeside
  <1>10. CASE b \in TextBlocks(msg[p]) /\ p \in Mails
    <2>1. IncFits(msg[p]) /\ b < Len(sda)
      <3>1. IncFits(msg[p])
        BY <1>0, <1>1, <1>10 DEF IncRefs
      <3> QED
        BY <1>1, <1>2, <1>10, <3>1, FitsAll
    <2>2. /\ Uncounted(p) /\ Owns(p, b) /\ Gone(b) = 0
      BY <1>0, <1>1, <1>10, CountOwns DEF CountPlaces
    <2>3. /\ Fields(msg[p], b) \in {1, 2} /\ \A q \in Proc \ {p} : ~Owns(q, b)
          /\ \A h \in Headers(b) : TextOf(h) = msg[p] /\ Fields(h, b) = Fields(msg[p], b)
      BY <1>1, <2>2, Owners DEF Sound
    <2>4. \A q \in Proc : ~Owns(q, b)'
      BY <1>5, <1>8, <2>3, OwnsLeft
    <2>5. Hands(b)' = Hands(b)
      BY <1>0, <1>5, <1>10, HandsOthers
    <2>6. /\ Uses(Headers(b), b) \in Nat /\ Cardinality(Hands(b)) \in Nat /\ IsFiniteSet(Hands(b))
          /\ cnt[p] \in Nat /\ cnt[p] > 1 /\ r = cnt[p] - 1
      BY <1>0, <1>1, <1>3, <1>10, Numbers3, Counting DEF Kinds, Types
    <2>7. LET n == Refs(b) + cnt[p] * Fields(msg[p], b) - 1
          IN  n >= Claims(b) /\ (b \notin leaked => n = Claims(b)) /\ Refs(b) > Cardinality(Hands(b))
      BY <1>10, <2>2 DEF Sound, Counted
    <2>8. PICK s \in Nat, k \in {1, 2}, u \in Nat, c \in Nat :
            s = Refs(b) /\ k = Fields(msg[p], b) /\ u = Uses(Headers(b), b) /\ c = Cardinality(Hands(b))
      BY <1>4, <2>3, <2>6
    <2>9. s + (r + 1) * k - 1 >= u + c /\ (b \notin leaked => s + (r + 1) * k - 1 = u + c) /\ s > c
      <3>1. cnt[p] = r + 1
        BY <2>6
      <3> QED
        BY <2>7, <2>8, <3>1 DEF Claims
    <2>10. (r + 1) * k = r * k + k /\ r * k \in Nat
      OBVIOUS
    <2>11. PICK w \in Nat : w = r * k
      BY <2>10
    <2>12. Refs(b)' = s + w
      BY <1>3, <2>1, <2>8, <2>11
    <2>13. s + w + 0 + k - 1 >= u + c /\ (b \notin leaked => s + w + 0 + k - 1 = u + c)
      BY <2>9, <2>10, <2>11
    <2>14. \A h \in Headers(b)' :
             LET n == Refs(b)' + Gone(b)' + Fields(h, b) - 1
             IN  n >= Uses(Headers(b)', b) + Cardinality(Hands(b)')
                 /\ (b \notin leaked' => n = Uses(Headers(b)', b) + Cardinality(Hands(b)'))
      BY <1>1, <1>6, <2>2, <2>3, <2>5, <2>8, <2>12, <2>13
    <2>15. Headers(b)' = {} => b \in leaked' \/ Refs(b)' = 0
      <3>1. ASSUME Headers(b) = {}, b \notin leaked PROVE FALSE
        <4>1. u = 0 /\ c = 0
          BY <1>1, <2>8, <3>1, HeadersAre, NoHands
        <4>2. s + w + 0 + k - 1 = 0 + 0 /\ s > 0
          BY <2>9, <2>13, <3>1, <4>1
        <4> QED
          BY <4>2
      <3> QED
        BY <1>1, <1>6, <3>1
    <2>16. \A h \in Headers(b)' : Filled(b, h)'
      <3>1. s > 0
        BY <2>9
      <3> QED
        BY <1>1, <1>6, <2>8, <3>1 DEF Sound, Contents, Filled
    <2>17. \A g, h \in Headers(b)' : TextOf(g) = TextOf(h)
      BY <1>6, <2>3
    <2> QED
      BY <1>1, <2>4, <2>5, <2>6, <2>14, <2>15, <2>16, <2>17, SoundUnowned
  <1>11. CASE b \in TextBlocks(msg[p]) /\ p \in Forwarders
    <2>1. Refs(b) > Cardinality(Hands(b)) /\ Cardinality(Hands(b)) \in Nat /\ IsFiniteSet(Hands(b)) /\ b < Len(sda)
      <3>1. Refs(b) > Cardinality(Hands(b)) /\ Cardinality(Hands(b)) \in Nat
        BY <1>0, <1>11, Backed
      <3> QED
        BY <1>1, <1>4, <3>1, Numbers3
    <2>2. Hand(Hands(b), p, 1) = 0 /\ Hand(Hands(b), p, 2) = 0
      BY <1>1, <1>7, <1>11, HandsOf
    <2>3. PICK c \in Nat :
            /\ Cardinality(Hands(b)) = c + Hand(Hands(b), p, 1) + Hand(Hands(b), p, 2)
            /\ Cardinality(Hands(b)') = c + Hand(Hands(b)', p, 1) + Hand(Hands(b)', p, 2)
      BY <1>5, <2>1, HandsStep
    <2>4. PICK s \in Nat, k \in {1, 2} : s = Refs(b) /\ k = Fields(msg[p], b) /\ Refs(b)' = s + k /\ Cardinality(Hands(b)) = c
      <3>1. Fields(msg[p], b) \in {1, 2}
        BY <1>1, <1>2, <1>11, InTwo
      <3>2. PICK s \in Nat, k \in {1, 2} : s = Refs(b) /\ k = Fields(msg[p], b)
        BY <1>4, <3>1
      <3>3. 1 * k = k /\ r = 1 /\ c + 0 + 0 = c
        BY <1>3, <1>11
      <3> QED
        BY <1>3, <2>1, <2>2, <2>3, <3>2, <3>3
    <2>5. CASE IncFits(msg[p])
      <3>1. pc'[p] = "fwd_hdr" /\ UNCHANGED <<msg, fld, cnt>> /\ fld[p] = 1
        BY <1>0, <1>5, <1>11, <2>5, HeldText DEF FirstField
      <3>2. \A x \in {1, 2} : <<p, x>> \in Hands(b)' <=> In(msg[p], x, b) = 1
        <4>1. \A x \in {1, 2} : In(msg[p], x, b) = 1 <=> x \in 1..Len(msg[p].lay) /\ b \in FieldBlocks(msg[p], x)
          BY <1>1, <1>2, InTwo
        <4>2. Handing(p)'
          BY <1>11, <3>1 DEF Handing
        <4>3. \A x \in {1, 2} : <<p, x>> \in Hands(b)' <=> x \in fld'[p]..Len(msg'[p].lay) /\ b \in FieldBlocks(msg'[p], x)
          BY <1>11, <4>2 DEF Hands
        <4> QED
          BY <3>1, <4>1, <4>3
      <3>3. Fields(msg[p], b) = In(msg[p], 1, b) + In(msg[p], 2, b) /\ In(msg[p], 1, b) \in {0, 1} /\ In(msg[p], 2, b) \in {0, 1}
        BY <1>1, <1>2, InTwo
      <3>4. PICK i \in {0, 1}, j \in {0, 1} : i = In(msg[p], 1, b) /\ j = In(msg[p], 2, b) /\ k = i + j
        BY <2>4, <3>3
      <3>5. Hand(Hands(b)', p, 1) = i /\ Hand(Hands(b)', p, 2) = j
        BY <3>2, <3>4 DEF Hand
      <3>6. Cardinality(Hands(b)') = c + i + j
        BY <2>3, <3>5
      <3>7. (s + k) - (c + i + j) = s - c
        BY <3>4
      <3>8. Refs(b)' - Cardinality(Hands(b)') = Refs(b) - Cardinality(Hands(b)) /\ Refs(b)' \in Nat
            /\ Refs(b)' - Cardinality(Hands(b)') >= Refs(b) - Cardinality(Hands(b))
        BY <2>4, <3>6, <3>7
      <3> QED
        BY <1>0, <1>1, <1>5, <1>11, <3>8, SoundForwarded
    <2>6. CASE ~IncFits(msg[p])
      <3>1. pc'[p] = "idle" /\ b \in leaked'
        BY <1>5, <1>11, <2>6 DEF IncRefs
      <3>2. Hand(Hands(b)', p, 1) = 0 /\ Hand(Hands(b)', p, 2) = 0
        <4>1. ~Handing(p)'
          BY <3>1 DEF Handing
        <4> QED
          BY <1>1, <1>11, <4>1, HandsOf
      <3>3. Cardinality(Hands(b)') = c
        BY <2>3, <3>2
      <3>4. s + k - c >= s - c
        OBVIOUS
      <3>5. Refs(b)' - Cardinality(Hands(b)') >= Refs(b) - Cardinality(Hands(b)) /\ Refs(b)' \in Nat
        BY <2>4, <3>3, <3>4
      <3> QED
        BY <1>0, <1>1, <1>5, <1>11, <3>1, <3>5, SoundForwarded
    <2> QED
      BY <2>5, <2>6
  <1> QED
    BY <1>0, <1>9, <1>10, <1>11

\* A block whose claims p keeps
LEMMA SoundKept ==
  ASSUME NEW p \in Proc, OthersStay(p), NEW b \in Nat, Sound(b),
         Headers(b)' = Headers(b), Refs(b)' = Refs(b), Hands(b)' = Hands(b), Gone(b)' = Gone(b),
         leaked \subseteq leaked', Refs(b) > 0 => sdt'[b + 1] = sdt[b + 1], Owns(p, b)' <=> Owns(p, b),
         Owns(p, b) => msg'[p] = msg[p] /\ cnt'[p] = cnt[p] /\ (Uncounted(p)' <=> Uncounted(p))
  PROVE  Sound(b)'
  <1>1. \A q \in Proc : Owns(q, b)' <=> Owns(q, b)
    BY OwnsOthers
  <1>2. ASSUME NEW q \in Proc, Owns(q, b)
        PROVE  msg'[q] = msg[q] /\ cnt'[q] = cnt[q] /\ (Uncounted(q)' <=> Uncounted(q))
    <2>1. CASE q = p
      BY <1>2, <2>1
    <2>2. CASE q # p
      <3>1. q \in Proc \ {p}
        BY <2>2
      <3>2. /\ Owns(q, b)' <=> Owns(q, b)
            /\ (Uncounted(q)' <=> Uncounted(q)) /\ (Handing(q)' <=> Handing(q))
            /\ msg'[q] = msg[q] /\ cnt'[q] = cnt[q]
        BY <3>1, OwnsOthers
      <3> QED
        BY <3>2
    <2> QED
      BY <2>1, <2>2
  <1> QED
    BY <1>1, <1>2, Elsewhere

\* Who gives a text back has a header of it no more than anybody else.
LEMMA GivingBack ==
  ASSUME QuietBase, Kinds, NEW p \in Proc, pc[p] \in {"undo", "free"}, NEW b \in Nat, Sound(b)
  PROVE  /\ p \in Senders \cup Forwarders \cup Mailers /\ p \notin Purgers /\ p \notin Listers /\ cnt[p] = 0
         /\ pc[p] \notin NoTextYet /\ ~Uncounted(p)
         /\ p \notin Forwarders => (Owns(p, b) <=> b \in Unfreed(p))
         /\ p \notin Forwarders /\ b \in Unfreed(p) =>
              /\ Headers(b) = {} /\ Hands(b) = {} /\ Cardinality(Hands(b)) = 0 /\ IsFiniteSet(Hands(b))
              /\ \A q \in Proc \ {p} : ~Owns(q, b)
              /\ Filled(b, msg[p])
              /\ p \in Senders => Refs(b) >= 1 /\ (b \notin leaked => Refs(b) = 1)
  <1>1. /\ p \in Senders \cup Forwarders \cup Mailers /\ p \notin Purgers /\ p \notin Listers /\ cnt[p] = 0
        /\ (pc[p] = "undo" => p \notin Mailers)
    BY Undoing, Freeing, Disjoint
  <1>2. pc[p] \notin NoTextYet /\ ~Uncounted(p)
    BY DEF NoTextYet, Uncounted
  <1>3. p \notin Forwarders => (Owns(p, b) <=> b \in Unfreed(p))
    BY <1>1, <1>2, Disjoint DEF Owns
  <1>4. ASSUME p \notin Forwarders, b \in Unfreed(p)
        PROVE  /\ Headers(b) = {} /\ Hands(b) = {} /\ Cardinality(Hands(b)) = 0 /\ IsFiniteSet(Hands(b))
               /\ \A q \in Proc \ {p} : ~Owns(q, b)
               /\ Filled(b, msg[p])
               /\ p \in Senders => Refs(b) >= 1 /\ (b \notin leaked => Refs(b) = 1)
    <2>1. Owns(p, b)
      BY <1>3, <1>4
    <2>2. Headers(b) = {} /\ \A q \in Proc \ {p} : ~Owns(q, b)
      BY <1>1, <2>1 DEF Sound, Agree
    <2>3. Filled(b, msg[p]) /\ (p \in Senders => Refs(b) >= 1 /\ (b \notin leaked => Refs(b) = 1))
      BY <2>1 DEF Sound, Counted, Contents
    <2> QED
      BY <2>2, <2>3, NoHands, Numbers3
  <1> QED
    BY <1>1, <1>2, <1>3, <1>4

\* What is not given back is forgotten.
LEMMA SoundForgotten ==
  ASSUME QuietBase, Kinds, NEW p \in Proc, OthersStay(p), pc[p] \in {"undo", "free"},
         UNCHANGED <<sda, sdt, hdrs>>, leaked' = leaked \cup Unfreed(p), NEW b \in Nat, Sound(b), ~Uncounted(p)',
         Owns(p, b)' => b \in Unfreed(p) /\ msg'[p] = msg[p],
         \A x \in {1, 2} : <<p, x>> \in Hands(b)' => <<p, x>> \in Hands(b)
  PROVE  Sound(b)'
  <1>1. /\ p \in Senders \cup Forwarders \cup Mailers /\ p \notin Purgers /\ p \notin Listers /\ cnt[p] = 0
        /\ pc[p] \notin NoTextYet /\ ~Uncounted(p)
        /\ p \notin Forwarders => (Owns(p, b) <=> b \in Unfreed(p))
    BY GivingBack
  <1>2. Refs(b)' = Refs(b) /\ Headers(b)' = Headers(b) /\ Gone(b)' = Gone(b)
    BY <1>1, GoneOthers DEF Refs, Headers
  <1>3. Refs(b) \in Nat /\ Cardinality(Hands(b)) \in Nat /\ IsFiniteSet(Hands(b))
    BY RefsAreNat, Numbers3
  <1>4. CASE b \notin Unfreed(p)
    <2>1. ~Owns(p, b) /\ ~Owns(p, b)'
      BY <1>1, <1>4, NoClaims
    <2>2. \A x \in {1, 2} : <<p, x>> \notin Hands(b)
      <3>1. b \in Unfreed(p) <=> \E y \in fld[p]..Len(msg[p].lay) : b \in FieldBlocks(msg[p], y)
        BY <1>1, UnfreedIs
      <3> QED
        BY <1>4, <3>1 DEF Hands
    <2>3. Hands(b)' = Hands(b)
      BY <2>2, HandsOthers
    <2> QED
      BY <1>2, <2>1, <2>3, SoundBeside
  <1>5. CASE b \in Unfreed(p) /\ p \in Forwarders
    <2>1. b \in TextBlocks(msg[p])
      BY <1>1, <1>5, UnfreedIs
    <2>2. PICK c \in Nat :
            /\ Cardinality(Hands(b)) = c + Hand(Hands(b), p, 1) + Hand(Hands(b), p, 2)
            /\ Cardinality(Hands(b)') = c + Hand(Hands(b)', p, 1) + Hand(Hands(b)', p, 2)
      BY <1>3, HandsStep
    <2>3. /\ Hand(Hands(b), p, 1) \in {0, 1} /\ Hand(Hands(b), p, 2) \in {0, 1}
          /\ Hand(Hands(b)', p, 1) \in {0, 1} /\ Hand(Hands(b)', p, 2) \in {0, 1}
          /\ Hand(Hands(b)', p, 1) <= Hand(Hands(b), p, 1) /\ Hand(Hands(b)', p, 2) <= Hand(Hands(b), p, 2)
      BY DEF Hand
    <2>4. PICK i \in {0, 1}, j \in {0, 1}, k \in {0, 1}, l \in {0, 1}, r \in Nat :
            /\ i = Hand(Hands(b), p, 1) /\ j = Hand(Hands(b), p, 2)
            /\ k = Hand(Hands(b)', p, 1) /\ l = Hand(Hands(b)', p, 2) /\ r = Refs(b)
      BY <1>3, <2>3
    <2>5. k <= i /\ l <= j
      BY <2>3, <2>4
    <2>6. r - (c + k + l) >= r - (c + i + j)
      BY <2>5
    <2>7. Refs(b)' - Cardinality(Hands(b)') >= Refs(b) - Cardinality(Hands(b)) /\ Refs(b)' \in Nat
      BY <1>2, <2>2, <2>4, <2>6
    <2>8. pc[p] \notin {"idle", "fwd"} /\ b \in leaked' /\ leaked \subseteq leaked' /\ UNCHANGED <<sdt, hdrs>>
      BY <1>5
    <2> QED
      BY <1>5, <2>1, <2>7, <2>8, SoundForwarded
  <1>6. CASE b \in Unfreed(p) /\ p \notin Forwarders
    <2>1. /\ Headers(b) = {} /\ Hands(b) = {} /\ IsFiniteSet(Hands(b))
          /\ \A q \in Proc \ {p} : ~Owns(q, b)
          /\ Filled(b, msg[p])
          /\ p \in Senders => Refs(b) >= 1 /\ (b \notin leaked => Refs(b) = 1)
      BY <1>6, GivingBack
    <2>2. Hands(b)' = Hands(b) /\ b \in leaked'
      BY <1>6, HandsOthers
    <2>3. \A q \in Proc \ {p} : ~Owns(q, b)'
      BY <2>1, OwnsLeft
    <2>4. CASE Owns(p, b)'
      <3>1. Filled(b, msg[p])'
        BY <1>2, <2>1, <2>4 DEF Filled
      <3>2. Headers(b)' = {} /\ IsFiniteSet(Hands(b)')
        BY <1>2, <2>1, <2>2
      <3> QED
        BY <1>2, <2>1, <2>2, <2>3, <2>4, <3>1, <3>2, SoundOwned
    <2>5. CASE ~Owns(p, b)'
      <3>1. \A q \in Proc : ~Owns(q, b)'
        BY <2>3, <2>5
      <3>2. Headers(b)' = {} /\ IsFiniteSet(Hands(b)')
        BY <1>2, <2>1, <2>2
      <3> QED
        BY <2>2, <3>1, <3>2, SoundUnowned
    <2> QED
      BY <2>4, <2>5
  <1> QED
    BY <1>4, <1>5, <1>6

LEMMA SoundUndoOpenTimeout ==
  ASSUME QuietBase, Kinds, NEW p \in Proc, UndoOpenTimeout(p) \/ FreeFieldTimeout(p), NEW b \in Nat, Sound(b)
  PROVE  Sound(b)'
  <1>1. /\ pc[p] \in {"undo", "free"} /\ Finish(p) /\ UNCHANGED <<sda, sdt, hdrs>> /\ leaked' = leaked \cup Unfreed(p)
    BY DEF UndoOpenTimeout, FreeFieldTimeout, data, base
  <1>2. OthersStay(p) /\ pc'[p] \notin CountPlaces \cup UndoPlaces
    BY <1>1, Finished DEF CountPlaces, UndoPlaces
  <1>3. ~Owns(p, b)' /\ \A x : <<p, x>> \notin Hands(b)'
    BY <1>2, NoClaims
  <1>4. ~Uncounted(p)'
    BY <1>2 DEF Uncounted, CountPlaces
  <1> QED
    BY <1>1, <1>2, <1>3, <1>4, SoundForgotten

LEMMA SoundFreeNothing ==
  ASSUME QuietBase, Kinds, NEW p \in Proc, FreeNothing(p), NEW b \in Nat, Sound(b)
  PROVE  Sound(b)'
  <1>1. /\ pc[p] = "free" /\ Finish(p) /\ UNCHANGED <<sda, sdt, hdrs, leaked>> /\ sda = <<>>
    BY DEF FreeNothing, data, base, errors
  <1>2. /\ p \in Senders \cup Forwarders \cup Mailers /\ p \notin Purgers /\ p \notin Listers
        /\ pc[p] \notin NoTextYet
        /\ p \notin Forwarders => (Owns(p, b) <=> b \in Unfreed(p))
    BY <1>1, GivingBack
  <1>3. Refs(b) = 0 /\ Refs(b)' = 0
    BY <1>1 DEF Refs, RefsIn
  <1>4. \A x \in {1, 2} : <<p, x>> \in Hands(b) => p \in Forwarders /\ b \in Unfreed(p)
    <2>1. b \in Unfreed(p) <=> \E y \in fld[p]..Len(msg[p].lay) : b \in FieldBlocks(msg[p], y)
      BY <1>2, UnfreedIs
    <2> QED
      BY <2>1 DEF Hands
  <1>5. CASE b \notin Unfreed(p)
    <2>1. ~Owns(p, b) /\ \A x \in {1, 2} : <<p, x>> \notin Hands(b)
      BY <1>2, <1>4, <1>5, NoClaims
    <2> QED
      BY <1>1, <1>2, <2>1, SoundLeave
  <1>6. CASE b \in Unfreed(p) /\ p \in Forwarders
    <2>1. b \in TextBlocks(msg[p])
      BY <1>2, <1>6, UnfreedIs
    <2>2. Refs(b) > Cardinality(Hands(b)) /\ Cardinality(Hands(b)) \in Nat
      BY <1>1, <1>6, <2>1, Backed
    <2> QED
      BY <1>3, <2>2
  <1>7. CASE b \in Unfreed(p) /\ p \notin Forwarders
    <2>1. /\ Headers(b) = {} /\ Hands(b) = {} /\ IsFiniteSet(Hands(b))
          /\ \A q \in Proc \ {p} : ~Owns(q, b)
      BY <1>1, <1>7, GivingBack
    <2>2. OthersStay(p) /\ pc'[p] \notin CountPlaces \cup UndoPlaces
      BY <1>1, Finished DEF CountPlaces, UndoPlaces
    <2>3. \A q \in Proc : ~Owns(q, b)'
      BY <2>1, <2>2, OwnsLeft, NoClaims
    <2>4. Headers(b)' = {} /\ Hands(b)' = {} /\ IsFiniteSet(Hands(b)')
      BY <1>1, <1>7, <2>1, <2>2, HandsOthers DEF Headers
    <2> QED
      BY <1>3, <2>3, <2>4, SoundUnowned
  <1> QED
    BY <1>5, <1>6, <1>7

\* Where a process is when it has freed a field
LEMMA FieldFreed ==
  ASSUME QuietBase, Kinds, NEW p \in Proc, FreeField(p)
  PROVE  /\ OthersStay(p) /\ UNCHANGED hdrs
         /\ fld[p] < Len(msg[p].lay) => /\ fld[p] = 1 /\ Len(msg[p].lay) = 2 /\ fld'[p] = 2
                                        /\ msg'[p] = msg[p] /\ cnt'[p] = cnt[p]
                                        /\ (p \in Mailers => pc'[p] = "free") /\ (p \notin Mailers => pc'[p] = "undo")
         /\ ~(fld[p] < Len(msg[p].lay)) => pc'[p] = "idle" /\ fld[p] = Len(msg[p].lay)
  <1>1. pc[p] = "free" /\ pc[p] \notin NoTextYet /\ UNCHANGED hdrs
    BY DEF FreeField, base, NoTextYet
  <1>2. CASE fld[p] < Len(msg[p].lay)
    <2>1. fld[p] = 1 /\ Len(msg[p].lay) = 2
      BY <1>1, <1>2, FirstOfTwo
    <2>2. /\ fld' = [fld EXCEPT ![p] = @ + 1] /\ UNCHANGED <<msg, cnt>>
          /\ Goto(p, IF p \in Mailers THEN "free" ELSE "undo")
      BY <1>2 DEF FreeField
    <2>3. fld \in [Proc -> {1, 2}] /\ pc = [q \in Proc |-> pc[q]]
      BY DEF Kinds, Types
    <2>4. PICK l \in {"free", "undo"} : Goto(p, l) /\ (p \in Mailers => l = "free") /\ (p \notin Mailers => l = "undo")
      BY <2>2
    <2>5. pc' = [q \in Proc |-> IF q = p THEN l ELSE pc[q]]
      BY <2>3, <2>4 DEF Goto
    <2>6. fld'[p] = 2 /\ \A q \in Proc \ {p} : fld'[q] = fld[q]
      BY <2>1, <2>2, <2>3
    <2> QED
      BY <1>1, <1>2, <2>1, <2>2, <2>4, <2>5, <2>6 DEF OthersStay
  <1>3. CASE ~(fld[p] < Len(msg[p].lay))
    <2>1. Finish(p)
      BY <1>3 DEF FreeField
    <2>2. fld[p] = Len(msg[p].lay)
      <3>1. fld[p] \in 1..Len(msg[p].lay) /\ fld[p] \in {1, 2} /\ Len(msg[p].lay) \in {1, 2}
        BY <1>1, HeldText
      <3>2. PICK i \in {1, 2}, j \in {1, 2} : i = fld[p] /\ j = Len(msg[p].lay)
        BY <3>1
      <3>3. i \in 1..j /\ ~(i < j)
        BY <1>3, <3>1, <3>2
      <3> QED
        BY <3>2, <3>3
    <2> QED
      BY <1>1, <1>3, <2>1, <2>2, Finished
  <1> QED
    BY <1>2, <1>3

\* The claims it had before and has after
LEMMA Remaining ==
  ASSUME QuietBase, Kinds, NEW p \in Proc, FreeField(p), NEW b \in Nat
  PROVE  /\ b \in Unfreed(p) <=> (\/ b \in FieldBlocks(msg[p], fld[p])
                                  \/ fld[p] < Len(msg[p].lay) /\ b \in FieldBlocks(msg[p], 2))
         /\ p \notin Forwarders => (Owns(p, b)' <=> (fld[p] < Len(msg[p].lay) /\ b \in FieldBlocks(msg[p], 2)))
         /\ ~Uncounted(p)'
         /\ p \in Forwarders => \A x \in {1, 2} :
              /\ <<p, x>> \in Hands(b) <=> (x \in fld[p]..Len(msg[p].lay) /\ b \in FieldBlocks(msg[p], x))
              /\ <<p, x>> \in Hands(b)' <=> (fld[p] < Len(msg[p].lay) /\ x = 2 /\ b \in FieldBlocks(msg[p], 2))
  <1>1. /\ OthersStay(p)
        /\ fld[p] < Len(msg[p].lay) => /\ fld[p] = 1 /\ Len(msg[p].lay) = 2 /\ fld'[p] = 2
                                       /\ msg'[p] = msg[p] /\ cnt'[p] = cnt[p]
                                       /\ (p \in Mailers => pc'[p] = "free") /\ (p \notin Mailers => pc'[p] = "undo")
        /\ ~(fld[p] < Len(msg[p].lay)) => pc'[p] = "idle" /\ fld[p] = Len(msg[p].lay)
    BY FieldFreed
  <1>2. /\ pc[p] = "free" /\ pc[p] \notin NoTextYet /\ p \in Senders \cup Forwarders \cup Mailers /\ p \notin Listers
        /\ fld[p] \in {1, 2}
    BY Freeing, HeldText DEF FreeField, NoTextYet
  <1>3. b \in Unfreed(p) <=> \E x \in fld[p]..Len(msg[p].lay) : b \in FieldBlocks(msg[p], x)
    BY <1>2, UnfreedIs
  <1>4. CASE fld[p] < Len(msg[p].lay)
    <2>0. /\ \A x : x \in 1..2 <=> x \in {1, 2}
          /\ \A x : x \in 2..2 <=> x = 2
      OBVIOUS
    <2>a. fld[p] = 1 /\ Len(msg[p].lay) = 2 /\ fld'[p] = 2 /\ Len(msg'[p].lay) = 2
      BY <1>1, <1>4
    <2>1. \A x : x \in fld[p]..Len(msg[p].lay) <=> x \in {1, 2}
      BY <2>0, <2>a
    <2>2. \A x : x \in fld'[p]..Len(msg'[p].lay) <=> x = 2
      BY <2>0, <2>a
    <2>3. b \in Unfreed(p)' <=> b \in FieldBlocks(msg[p], 2)
      BY <1>1, <1>4, <2>2 DEF Unfreed
    <2>4. ~Uncounted(p)'
      BY <1>1, <1>2, <1>4 DEF Uncounted
    <2>5. p \notin Forwarders => (Owns(p, b)' <=> b \in FieldBlocks(msg[p], 2))
      BY <1>1, <1>2, <1>4, <2>3, <2>4, Disjoint DEF Owns
    <2>6. ASSUME p \in Forwarders, NEW x \in {1, 2}
          PROVE  /\ <<p, x>> \in Hands(b) <=> (x \in fld[p]..Len(msg[p].lay) /\ b \in FieldBlocks(msg[p], x))
                 /\ <<p, x>> \in Hands(b)' <=> (x = 2 /\ b \in FieldBlocks(msg[p], 2))
      <3>1. Handing(p) /\ Handing(p)'
        BY <1>1, <1>2, <1>4, <2>6, Disjoint DEF Handing
      <3>2. <<p, x>> \in Hands(b) <=> (x \in fld[p]..Len(msg[p].lay) /\ b \in FieldBlocks(msg[p], x))
        BY <2>6, <3>1, HandsAre
      <3>3. <<p, x>> \in Hands(b)' <=> (x \in fld'[p]..Len(msg'[p].lay) /\ b \in FieldBlocks(msg'[p], x))
        BY <2>6, <3>1 DEF Hands
      <3> QED
        BY <1>1, <1>4, <2>2, <3>2, <3>3
    <2> QED
      BY <1>1, <1>3, <1>4, <2>1, <2>4, <2>5, <2>6
  <1>5. CASE ~(fld[p] < Len(msg[p].lay))
    <2>1. \A x : x \in fld[p]..Len(msg[p].lay) <=> x = fld[p]
      BY <1>1, <1>2, <1>5
    <2>2. pc'[p] \notin CountPlaces \cup UndoPlaces
      BY <1>1, <1>5 DEF CountPlaces, UndoPlaces
    <2>3. ~Owns(p, b)' /\ (\A x : <<p, x>> \notin Hands(b)') /\ ~Uncounted(p)'
      BY <2>2, NoClaims DEF Uncounted, CountPlaces
    <2>4. ASSUME p \in Forwarders, NEW x \in {1, 2}
          PROVE  <<p, x>> \in Hands(b) <=> (x \in fld[p]..Len(msg[p].lay) /\ b \in FieldBlocks(msg[p], x))
      BY <1>2, <2>4, HandsAre DEF Handing
    <2> QED
      BY <1>3, <1>5, <2>1, <2>3, <2>4
  <1> QED
    BY <1>4, <1>5

LEMMA SoundFreeField ==
  ASSUME QuietBase, Kinds, NEW p \in Proc, FreeField(p), NEW b \in Nat, Sound(b)
  PROVE  Sound(b)'
  <1>1. /\ pc[p] = "free" /\ p \in Senders \cup Forwarders \cup Mailers /\ p \notin Purgers /\ p \notin Listers
        /\ pc[p] \notin NoTextYet /\ ~Uncounted(p)
        /\ p \notin Forwarders => (Owns(p, b) <=> b \in Unfreed(p))
    BY GivingBack DEF FreeField
  <1>2. /\ msg[p].off \in Nat /\ msg[p].lay \in Layouts /\ fld[p] \in {1, 2} /\ fld[p] \in 1..Len(msg[p].lay)
        /\ Len(msg[p].lay) \in {1, 2}
    BY <1>1, HeldText
  <1>3. /\ OthersStay(p) /\ UNCHANGED hdrs
        /\ fld[p] < Len(msg[p].lay) => /\ fld[p] = 1 /\ Len(msg[p].lay) = 2 /\ fld'[p] = 2
                                       /\ msg'[p] = msg[p] /\ cnt'[p] = cnt[p]
                                       /\ (p \in Mailers => pc'[p] = "free") /\ (p \notin Mailers => pc'[p] = "undo")
        /\ ~(fld[p] < Len(msg[p].lay)) => pc'[p] = "idle" /\ fld[p] = Len(msg[p].lay)
    BY FieldFreed
  <1>4. /\ b \in Unfreed(p) <=> (\/ b \in FieldBlocks(msg[p], fld[p])
                                 \/ fld[p] < Len(msg[p].lay) /\ b \in FieldBlocks(msg[p], 2))
        /\ p \notin Forwarders => (Owns(p, b)' <=> (fld[p] < Len(msg[p].lay) /\ b \in FieldBlocks(msg[p], 2)))
        /\ ~Uncounted(p)'
        /\ p \in Forwarders => \A x \in {1, 2} :
              /\ <<p, x>> \in Hands(b) <=> (x \in fld[p]..Len(msg[p].lay) /\ b \in FieldBlocks(msg[p], x))
              /\ <<p, x>> \in Hands(b)' <=> (fld[p] < Len(msg[p].lay) /\ x = 2 /\ b \in FieldBlocks(msg[p], 2))
    BY Remaining
  <1>5. PICK r \in Nat : r = IF p \in Mailers THEN AllRefs ELSE 1
    BY DEF AllRefs
  <1>6. Free(p, fld[p], r) /\ sda # <<>>
    BY <1>5 DEF FreeField
  <1>7. /\ FreeFits(FieldBlocks(msg[p], fld[p])) =>
             /\ leaked' = leaked
             /\ \A c \in Nat : RefsIn(sda', c) = IF c \in FieldBlocks(msg[p], fld[p])
                                                 THEN Minus(RefsIn(sda, c), r) ELSE RefsIn(sda, c)
             /\ \A c \in Nat : RefsIn(sda', c) > 0 => sdt'[c + 1] = sdt[c + 1]
        /\ ~FreeFits(FieldBlocks(msg[p], fld[p])) =>
             leaked' = (IF sda = <<>> THEN leaked ELSE leaked \cup Unfreed(p)) /\ sda' = sda /\ sdt' = sdt
    BY <1>1, <1>2, <1>6, FreeIs
  <1>8. \A x \in {1, 2} : <<p, x>> \in Hands(b)' => <<p, x>> \in Hands(b)
    <2>1. p \notin Forwarders => \A x : <<p, x>> \notin Hands(b)'
      BY DEF Hands
    <2>2. fld[p] < Len(msg[p].lay) => 2 \in fld[p]..Len(msg[p].lay)
      <3>1. 2 \in 1..2
        OBVIOUS
      <3> QED
        BY <1>3, <3>1
    <2> QED
      BY <1>4, <2>1, <2>2
  <1>9. CASE ~FreeFits(FieldBlocks(msg[p], fld[p]))
    <2>1. leaked' = leaked \cup Unfreed(p) /\ UNCHANGED <<sda, sdt, hdrs>>
      BY <1>3, <1>6, <1>7, <1>9
    <2>2. Owns(p, b)' => b \in Unfreed(p) /\ msg'[p] = msg[p]
      <3>1. CASE p \in Forwarders
        BY <3>1, NoClaims
      <3>2. CASE p \notin Forwarders
        BY <1>3, <1>4, <3>2
      <3> QED
        BY <3>1, <3>2
    <2> QED
      BY <1>1, <1>3, <1>4, <1>8, <2>1, <2>2, SoundForgotten
  <1>10. CASE FreeFits(FieldBlocks(msg[p], fld[p])) /\ b \notin FieldBlocks(msg[p], fld[p])
    <2>1. Refs(b)' = Refs(b) /\ leaked' = leaked /\ (Refs(b) > 0 => sdt'[b + 1] = sdt[b + 1])
      BY <1>7, <1>10 DEF Refs
    <2>2. Headers(b)' = Headers(b) /\ Gone(b)' = Gone(b)
      BY <1>1, <1>3, GoneOthers DEF Headers
    <2>3. Hands(b)' = Hands(b)
      <3>1. CASE p \in Forwarders
        <4>1. \A x \in {1, 2} : <<p, x>> \in Hands(b) => <<p, x>> \in Hands(b)'
          <5> SUFFICES ASSUME NEW x \in {1, 2}, <<p, x>> \in Hands(b) PROVE <<p, x>> \in Hands(b)'
            OBVIOUS
          <5>1. x \in fld[p]..Len(msg[p].lay) /\ b \in FieldBlocks(msg[p], x)
            BY <1>4, <3>1
          <5>2. x # fld[p]
            BY <1>10, <5>1
          <5>3. PICK i \in {1, 2}, j \in {1, 2} : i = fld[p] /\ j = Len(msg[p].lay)
            BY <1>2
          <5>4. x \in i..j /\ x # i
            BY <5>1, <5>2, <5>3
          <5>5. i < j /\ x = 2
            BY <5>4
          <5> QED
            BY <1>4, <3>1, <5>1, <5>3, <5>5
        <4> QED
          BY <1>3, <1>8, <4>1, HandsOthers
      <3>2. CASE p \notin Forwarders
        BY <1>3, <3>2, HandsOthers
      <3> QED
        BY <3>1, <3>2
    <2>4. Owns(p, b)' <=> Owns(p, b)
      <3>1. CASE p \in Forwarders
        BY <3>1, NoClaims
      <3>2. CASE p \notin Forwarders
        BY <1>1, <1>4, <1>10, <3>2
      <3> QED
        BY <3>1, <3>2
    <2>5. Owns(p, b) => msg'[p] = msg[p] /\ cnt'[p] = cnt[p] /\ (Uncounted(p)' <=> Uncounted(p))
      <3>1. Owns(p, b) => fld[p] < Len(msg[p].lay)
        BY <1>1, <1>4, <1>10, NoClaims
      <3> QED
        BY <1>1, <1>3, <1>4, <3>1
    <2>6. leaked \subseteq leaked'
      BY <2>1
    <2> QED
      BY <1>3, <2>1, <2>2, <2>3, <2>4, <2>5, <2>6, SoundKept
  <1>11. ASSUME FreeFits(FieldBlocks(msg[p], fld[p])), b \in FieldBlocks(msg[p], fld[p]) PROVE Sound(b)'
    <2>1. b \in Unfreed(p) /\ b \in TextBlocks(msg[p])
      BY <1>1, <1>4, <1>11, UnfreedIs
    <2>2. Refs(b)' = Minus(Refs(b), r) /\ leaked' = leaked /\ (Refs(b)' > 0 => sdt'[b + 1] = sdt[b + 1]) /\ Refs(b) \in Nat
      BY <1>7, <1>11, RefsAreNat DEF Refs
    <2>3. /\ Minus(Refs(b), r) \in Nat /\ (r = 0 => Minus(Refs(b), r) = 0)
          /\ (r = 1 => Minus(Refs(b), r) = IF Refs(b) = 0 THEN 0 ELSE Refs(b) - 1)
      BY <2>2, MinusNat
    <2>4. CASE p \in Forwarders
      <3>1. Refs(b) > Cardinality(Hands(b)) /\ Cardinality(Hands(b)) \in Nat /\ IsFiniteSet(Hands(b))
        BY <1>1, <2>1, <2>4, Backed, Numbers3
      <3>2. r = 1
        BY <1>5, <2>4, Disjoint
      <3>3. PICK c \in Nat :
              /\ Cardinality(Hands(b)) = c + Hand(Hands(b), p, 1) + Hand(Hands(b), p, 2)
              /\ Cardinality(Hands(b)') = c + Hand(Hands(b)', p, 1) + Hand(Hands(b)', p, 2)
        BY <1>3, <3>1, HandsStep
      <3>4. /\ Hand(Hands(b), p, 1) = (IF fld[p] = 1 THEN In(msg[p], 1, b) ELSE 0)
            /\ Hand(Hands(b), p, 2) = In(msg[p], 2, b)
            /\ In(msg[p], 1, b) \in {0, 1} /\ In(msg[p], 2, b) \in {0, 1}
        BY <1>1, <2>4, HandsOf DEF Handing
      <3>5. In(msg[p], fld[p], b) = 1 /\ (Len(msg[p].lay) = 1 => In(msg[p], 2, b) = 0)
            /\ (In(msg[p], 2, b) = 1 <=> 2 \in 1..Len(msg[p].lay) /\ b \in FieldBlocks(msg[p], 2))
        BY <1>2, <1>11, InTwo
      <3>6. <<p, 1>> \notin Hands(b)' /\ (<<p, 2>> \in Hands(b)' <=> (fld[p] < Len(msg[p].lay) /\ b \in FieldBlocks(msg[p], 2)))
        BY <1>4, <2>4
      <3>7. Hand(Hands(b)', p, 1) = 0 /\ (Hand(Hands(b)', p, 2) \in {0, 1})
            /\ (Hand(Hands(b)', p, 2) = 1 <=> (fld[p] < Len(msg[p].lay) /\ b \in FieldBlocks(msg[p], 2)))
        BY <3>6 DEF Hand
      <3>8. Cardinality(Hands(b)) = Cardinality(Hands(b)') + 1 /\ Cardinality(Hands(b)') \in Nat
        <4>1. CASE fld[p] = 1
          <5>1. Hand(Hands(b), p, 1) = 1
            BY <3>4, <3>5, <4>1
          <5>2. Hand(Hands(b), p, 2) = Hand(Hands(b)', p, 2)
            <6>1. PICK j \in {1, 2} : j = Len(msg[p].lay)
              BY <1>2
            <6>2. 1 < j <=> 2 \in 1..j
              OBVIOUS
            <6> QED
              BY <3>4, <3>5, <3>7, <4>1, <6>1, <6>2
          <5>3. PICK i \in {0, 1} : i = Hand(Hands(b)', p, 2)
            BY <3>7
          <5>4. c + 1 + i = (c + 0 + i) + 1 /\ c + 0 + i \in Nat
            OBVIOUS
          <5> QED
            BY <3>3, <3>7, <5>1, <5>2, <5>3, <5>4
        <4>2. CASE fld[p] = 2
          <5>1. Hand(Hands(b), p, 1) = 0 /\ Hand(Hands(b), p, 2) = 1
            BY <3>4, <3>5, <4>2
          <5>2. Hand(Hands(b)', p, 2) = 0
            BY <1>3, <3>7, <4>2
          <5> QED
            BY <3>3, <3>7, <5>1, <5>2
        <4> QED
          BY <1>2, <4>1, <4>2
      <3>9. PICK s \in Nat, d \in Nat : s = Refs(b) /\ d = Cardinality(Hands(b)')
        BY <2>2, <3>8
      <3>10. s > d + 1 /\ Refs(b)' = s - 1
        BY <2>2, <2>3, <3>1, <3>2, <3>8, <3>9
      <3>11. s - 1 \in Nat /\ (s - 1) - d = s - (d + 1)
        BY <3>10
      <3>12. Refs(b)' \in Nat /\ Refs(b)' - Cardinality(Hands(b)') = Refs(b) - Cardinality(Hands(b))
             /\ Refs(b)' - Cardinality(Hands(b)') >= Refs(b) - Cardinality(Hands(b))
        BY <3>8, <3>9, <3>10, <3>11
      <3>13. pc[p] \notin {"idle", "fwd"} /\ leaked \subseteq leaked' /\ UNCHANGED hdrs
        BY <1>1, <1>3, <2>2
      <3> QED
        BY <1>3, <2>1, <2>2, <2>4, <3>12, <3>13, SoundForwarded
    <2>5. CASE p \notin Forwarders
      <3>1. /\ Headers(b) = {} /\ Hands(b) = {} /\ IsFiniteSet(Hands(b))
            /\ \A q \in Proc \ {p} : ~Owns(q, b)
            /\ Filled(b, msg[p])
            /\ p \in Senders => Refs(b) >= 1 /\ (b \notin leaked => Refs(b) = 1)
        BY <1>1, <2>1, <2>5, GivingBack
      <3>2. Hands(b)' = Hands(b) /\ Headers(b)' = Headers(b)
        BY <1>3, <2>5, HandsOthers DEF Headers
      <3>3. \A q \in Proc \ {p} : ~Owns(q, b)'
        BY <1>3, <3>1, OwnsLeft
      <3>4. CASE p \in Senders
        <4>1. ~(fld[p] < Len(msg[p].lay) /\ b \in FieldBlocks(msg[p], 2))
          <5>1. ASSUME fld[p] < Len(msg[p].lay), b \in FieldBlocks(msg[p], 2) PROVE FALSE
            <6>1. In(msg[p], 1, b) = 1 /\ In(msg[p], 2, b) = 1
              <7>1. 1 \in 1..Len(msg[p].lay) /\ 2 \in 1..Len(msg[p].lay) /\ b \in FieldBlocks(msg[p], 1)
                <8>1. 1 \in 1..2 /\ 2 \in 1..2
                  OBVIOUS
                <8> QED
                  BY <1>3, <1>11, <5>1, <8>1
              <7> QED
                BY <1>2, <5>1, <7>1, InTwo
            <6>2. Fields(msg[p], b) = In(msg[p], 1, b) + In(msg[p], 2, b)
              BY <1>2, InTwo
            <6>3. Fields(msg[p], b) = 2
              BY <6>1, <6>2
            <6>4. Known(p)
              BY DEF Kinds
            <6>5. msg[p].lay \in SendLayouts
              BY <1>1, <3>4, <6>4 DEF Known
            <6>6. Fields(msg[p], b) <= 1
              BY <1>2, <6>5, SendersShareNone
            <6> QED
              BY <6>3, <6>6
          <5> QED
            BY <5>1
        <4>2. ~Owns(p, b)'
          BY <1>4, <2>5, <4>1
        <4>3. b \in leaked' \/ Refs(b)' = 0
          <5>1. r = 1
            BY <1>5, <3>4, Disjoint
          <5> QED
            BY <2>2, <2>3, <3>1, <3>4, <5>1
        <4>4. (\A q \in Proc : ~Owns(q, b)') /\ Headers(b)' = {} /\ IsFiniteSet(Hands(b)')
          BY <3>1, <3>2, <3>3, <4>2
        <4> QED
          BY <4>3, <4>4, SoundUnowned
      <3>5. CASE p \in Mailers
        <4>1. Refs(b)' = 0
          BY <1>5, <2>2, <2>3, <3>5 DEF AllRefs
        <4>2. Headers(b)' = {} /\ IsFiniteSet(Hands(b)')
          BY <3>1, <3>2
        <4>3. CASE Owns(p, b)'
          <5>1. Filled(b, msg[p])' /\ p \notin Senders
            BY <3>5, <4>1, Disjoint DEF Filled
          <5> QED
            BY <1>4, <3>3, <4>2, <4>3, <5>1, SoundOwned
        <4>4. CASE ~Owns(p, b)'
          <5>1. \A q \in Proc : ~Owns(q, b)'
            BY <3>3, <4>4
          <5> QED
            BY <4>1, <4>2, <5>1, SoundUnowned
        <4> QED
          BY <4>3, <4>4
      <3> QED
        BY <1>1, <2>5, <3>4, <3>5
    <2> QED
      BY <2>4, <2>5
  <1> QED
    BY <1>9, <1>10, <1>11

\* Beside a purge nobody has a claim on the text of the header it is at.
LEMMA BesidePurging ==
  ASSUME QuietBase, Kinds, NEW p \in Purgers, pc[p] = "pg_free", NEW b \in Nat, Sound(b)
  PROVE  /\ \A q \in Purgers \ {p} : pc[q] # "pg_free"
         /\ Hands(b) = {} /\ Cardinality(Hands(b)) = 0 /\ IsFiniteSet(Hands(b))
         /\ Gone(b) = IF fld[p] = 2 /\ b \in FieldBlocks(msg[p], 1) THEN 1 ELSE 0
         /\ \A h \in Headers(b) : TextOf(h) = msg[p] => \A q \in Proc : ~Owns(q, b)
  <1>1. p \in Proc /\ Still(p) /\ Owned(p) /\ haLock = p
    BY Purger DEF Owned, InPurge
  <1>2. \A q \in Proc : BesidePurge(q, pc[q])
    BY <1>1 DEF Still, InPurge
  <1>3. \A q \in Purgers \ {p} : pc[q] # "pg_free"
    BY <1>1, Purger DEF Owned, InPurge
  <1>4. \A q \in Forwarders : ~Handing(q)
    BY <1>2, Disjoint DEF Handing, BesidePurge
  <1>5. Hands(b) = {}
    BY <1>4 DEF Hands
  <1>6. Gone(b) = IF fld[p] = 2 /\ b \in FieldBlocks(msg[p], 1) THEN 1 ELSE 0
    BY <1>1, GoneIs
  <1>7. ASSUME NEW h \in Headers(b), NEW q \in Proc, Owns(q, b) PROVE FALSE
    <2>1. Uncounted(q)
      BY <1>7, Owners DEF Sound
    <2>2. BesidePurge(q, pc[q])
      BY <1>2
    <2> QED
      BY <2>1, <2>2 DEF Uncounted, BesidePurge
  <1> QED
    BY <1>3, <1>5, <1>6, <1>7, FS_EmptySet

\* delmail drops a header and takes back what is left of its references.
LEMMA SoundDropped ==
  ASSUME QuietBase, Kinds, NEW p \in Purgers, OthersStay(p), pc[p] = "pg_free", pc'[p] # "pg_free",
         NEW h \in hdrs, TextOf(h) = msg[p], hdrs' = hdrs \ {h}, NEW b \in Nat, Sound(b), leaked \subseteq leaked',
         Refs(b)' > 0 => sdt'[b + 1] = sdt[b + 1],
         b \notin TextBlocks(msg[p]) => Refs(b)' = Refs(b),
         NEW d \in {0, 1},
         b \in TextBlocks(msg[p]) =>
            /\ Refs(b)' = IF Refs(b) = 0 THEN 0 ELSE Refs(b) - d
            /\ Gone(b) + d <= Fields(msg[p], b)
            /\ b \in leaked' \/ Gone(b) + d = Fields(msg[p], b) \/ Refs(b) = 0
  PROVE  Sound(b)'
  <1>1. /\ \A q \in Purgers \ {p} : pc[q] # "pg_free"
        /\ Hands(b) = {} /\ Cardinality(Hands(b)) = 0 /\ IsFiniteSet(Hands(b))
        /\ Gone(b) = IF fld[p] = 2 /\ b \in FieldBlocks(msg[p], 1) THEN 1 ELSE 0
        /\ \A g \in Headers(b) : TextOf(g) = msg[p] => \A q \in Proc : ~Owns(q, b)
    BY BesidePurging
  <1>2. p \in Proc /\ p \notin Forwarders /\ pc[p] \notin NoTextYet /\ ~Owns(p, b) /\ ~Owns(p, b)'
    BY Purger, NoClaims DEF NoTextYet
  <1>3. Hands(b)' = {} /\ Cardinality(Hands(b)') = 0 /\ IsFiniteSet(Hands(b)')
    BY <1>1, <1>2, HandsOthers
  <1>4. Gone(b)' = 0
    <2>1. \A q \in Purgers : pc'[q] # "pg_free"
      <3>1. \A q \in Purgers \ {p} : pc'[q] = pc[q]
        BY Disjoint DEF OthersStay
      <3> QED
        BY <1>1, <3>1
    <2> QED
      BY <2>1 DEF Gone
  <1>5. msg[p].off \in Nat /\ msg[p].lay \in Layouts /\ 1 \in 1..Len(msg[p].lay)
    <2>1. msg[p].off \in Nat /\ msg[p].lay \in Layouts /\ Len(msg[p].lay) \in {1, 2}
      BY <1>2, HeldText
    <2> QED
      BY <2>1, OneOrTwo
  <1>6. TextBlocks(h) = TextBlocks(msg[p]) /\ Fields(h, b) = Fields(msg[p], b)
    BY SameText
  <1>7. CASE b \notin TextBlocks(msg[p])
    <2>1. Headers(b)' = Headers(b) /\ Gone(b) = 0
      <3>1. b \notin FieldBlocks(msg[p], 1)
        BY <1>5, <1>7, BlocksAreNat
      <3> QED
        BY <1>1, <1>6, <1>7, <3>1 DEF Headers
    <2> QED
      <3>1. Refs(b) > 0 => sdt'[b + 1] = sdt[b + 1]
        BY <1>7
      <3> QED
        BY <1>1, <1>2, <1>3, <1>4, <1>7, <2>1, <3>1, SoundBeside
  <1>8. CASE b \in TextBlocks(msg[p])
    <2>1. h \in Headers(b) /\ Headers(b)' = Headers(b) \ {h}
      BY <1>6, <1>8 DEF Headers
    <2>2. /\ \A q \in Proc : ~Owns(q, b)
          /\ \A g \in Headers(b) : TextOf(g) = msg[p] /\ Fields(g, b) = Fields(msg[p], b)
      <3>1. \A g \in Headers(b) : TextOf(g) = msg[p]
        BY <2>1 DEF Sound, Agree
      <3> QED
        BY <1>1, <2>1, <3>1, SameText
    <2>3. \A q \in Proc : ~Owns(q, b)'
      BY <1>2, <2>2, OwnsLeft
    <2>4. LET n == Refs(b) + Gone(b) + Fields(h, b) - 1
          IN  n >= Claims(b) /\ (b \notin leaked => n = Claims(b))
      BY <2>1, <2>2 DEF Sound, Counted
    <2>5. Pointers(Headers(b)) /\ Uses(Headers(b), b) \in Nat /\ Fields(h, b) \in {1, 2} /\ Refs(b) \in Nat /\ Gone(b) \in {0, 1}
      BY <2>1, HeadersAre, RefsAreNat, GoneIs
    <2>6. Uses(Headers(b)', b) \in Nat /\ Uses(Headers(b), b) = Uses(Headers(b)', b) + Fields(h, b)
      BY <2>1, <2>5, UsesRemoved
    <2>7. PICK r \in Nat, a \in {0, 1}, k \in {1, 2}, u \in Nat :
            r = Refs(b) /\ a = Gone(b) /\ k = Fields(h, b) /\ u = Uses(Headers(b)', b)
      BY <2>5, <2>6
    <2>8. r + a + k - 1 >= u + k /\ (b \notin leaked => r + a + k - 1 = u + k)
      BY <1>1, <2>4, <2>6, <2>7 DEF Claims
    <2>9. Refs(b)' = (IF r = 0 THEN 0 ELSE r - d) /\ a + d <= k /\ (b \in leaked' \/ a + d = k \/ r = 0)
      BY <1>6, <1>8, <2>7
    <2>10. PICK s \in Nat : s = Refs(b)' /\ s = IF r = 0 THEN 0 ELSE r - d
      <3>1. (IF r = 0 THEN 0 ELSE r - d) \in Nat
        OBVIOUS
      <3> QED
        BY <2>9, <3>1
    <2>11. ASSUME NEW g \in Headers(b)'
           PROVE  LET n == Refs(b)' + Gone(b)' + Fields(g, b) - 1
                  IN  n >= Uses(Headers(b)', b) + Cardinality(Hands(b)')
                      /\ (b \notin leaked' => n = Uses(Headers(b)', b) + Cardinality(Hands(b)'))
      <3>1. g \in Headers(b) /\ g # h
        BY <2>1
      <3>2. Fields(g, b) = k /\ Uses(Headers(b), b) >= Fields(g, b) + Fields(h, b)
        BY <1>6, <2>1, <2>2, <2>5, <2>7, <3>1, UsesTwo
      <3>3. u >= k
        BY <2>6, <2>7, <3>2
      <3>4. r >= 1
        BY <2>8, <3>3
      <3>5. s = r - d
        BY <2>10, <3>4
      <3>6. s + 0 + k - 1 >= u + 0
        BY <2>8, <2>9, <2>10, <3>4, <3>5
      <3>7. ASSUME b \notin leaked' PROVE s + 0 + k - 1 = u + 0
        <4>1. b \notin leaked /\ a + d = k
          BY <2>9, <3>4, <3>7
        <4>2. r + a + k - 1 = u + k
          BY <2>8, <4>1
        <4> QED
          BY <3>5, <4>1, <4>2
      <3> QED
        BY <1>3, <1>4, <2>7, <2>10, <3>2, <3>6, <3>7
    <2>12. ASSUME Headers(b)' = {}, b \notin leaked' PROVE Refs(b)' = 0
      <3>1. u = 0
        BY <2>7, <2>12, UsesNone
      <3>2. r + a - 1 = 0
        <4>1. r + a + k - 1 = u + k
          BY <2>8, <2>12
        <4> QED
          BY <3>1, <4>1
      <3>3. CASE r = 0
        BY <2>10, <3>3
      <3>4. CASE r # 0
        <4>1. a + d = k
          BY <2>9, <2>12, <3>4
        <4>2. r = 1 /\ a = 0
          BY <3>2, <3>4
        <4>3. d = 1
          BY <4>1, <4>2
        <4> QED
          BY <2>10, <4>2, <4>3
      <3> QED
        BY <3>3, <3>4
    <2>13. \A g \in Headers(b)' : Filled(b, g)'
      <3>1. ASSUME NEW g \in Headers(b)', Refs(b)' > 0 PROVE sdt'[b + 1] = <<g.txt, b - g.off>>
        <4>1. Filled(b, g)
          BY <2>1 DEF Sound, Contents
        <4>2. Refs(b) > 0
          <5>1. s > 0 => r > 0
            BY <2>10
          <5> QED
            BY <2>7, <2>10, <3>1, <5>1
        <4> QED
          BY <3>1, <4>1, <4>2 DEF Filled
      <3> QED
        BY <3>1 DEF Filled
    <2>14. \A f, g \in Headers(b)' : TextOf(f) = TextOf(g)
      BY <2>1, <2>2
    <2> QED
      BY <1>3, <2>3, <2>11, <2>12, <2>13, <2>14, SoundUnowned
  <1> QED
    BY <1>7, <1>8

\* What a purge has still to free of a block
LEMMA PurgeLeft ==
  ASSUME QuietBase, Kinds, NEW p \in Purgers, pc[p] = "pg_free", NEW b \in Nat, Sound(b), b \in TextBlocks(msg[p])
  PROVE  /\ Gone(b) <= Fields(msg[p], b)
         /\ b \in Unfreed(p) \/ Gone(b) = Fields(msg[p], b)
         /\ fld[p] = Len(msg[p].lay) => Gone(b) + (IF b \in FieldBlocks(msg[p], fld[p]) THEN 1 ELSE 0) = Fields(msg[p], b)
  <1>1. p \in Proc /\ pc[p] \notin NoTextYet
    BY Purger DEF NoTextYet
  <1>2. /\ msg[p].off \in Nat /\ msg[p].lay \in Layouts /\ fld[p] \in {1, 2} /\ fld[p] \in 1..Len(msg[p].lay)
        /\ Len(msg[p].lay) \in {1, 2}
    BY <1>1, HeldText
  <1>3. /\ Fields(msg[p], b) = In(msg[p], 1, b) + In(msg[p], 2, b)
        /\ In(msg[p], 1, b) \in {0, 1} /\ In(msg[p], 2, b) \in {0, 1}
        /\ Fields(msg[p], b) \in {1, 2}
        /\ (Len(msg[p].lay) = 1 => In(msg[p], 2, b) = 0)
        /\ \A x \in {1, 2} : In(msg[p], x, b) = 1 <=> x \in 1..Len(msg[p].lay) /\ b \in FieldBlocks(msg[p], x)
    BY <1>2, InTwo
  <1>4. Gone(b) = IF fld[p] = 2 /\ b \in FieldBlocks(msg[p], 1) THEN 1 ELSE 0
    BY BesidePurging
  <1>5. CASE fld[p] = 1
    <2>1. Gone(b) = 0
      BY <1>4, <1>5
    <2>2. b \in Unfreed(p)
      BY <1>1, <1>5, UnfreedIs
    <2>3. ASSUME Len(msg[p].lay) = 1
          PROVE  (IF b \in FieldBlocks(msg[p], fld[p]) THEN 1 ELSE 0) = Fields(msg[p], b)
      <3>1. 1 \in 1..Len(msg[p].lay)
        BY <1>2, OneOrTwo
      <3>2. (IF b \in FieldBlocks(msg[p], 1) THEN 1 ELSE 0) = In(msg[p], 1, b)
        BY <1>3, <3>1
      <3>3. PICK i \in {0, 1} : i = In(msg[p], 1, b)
        BY <1>3
      <3>4. i + 0 = i
        OBVIOUS
      <3> QED
        BY <1>3, <1>5, <2>3, <3>2, <3>3, <3>4
    <2>4. 0 <= Fields(msg[p], b) /\ \A i \in {0, 1} : 0 + i = i
      BY <1>3
    <2> QED
      BY <1>5, <2>1, <2>2, <2>3, <2>4
  <1>6. CASE fld[p] = 2
    <2>1. Len(msg[p].lay) = 2 /\ 1 \in 1..Len(msg[p].lay) /\ 2 \in 1..Len(msg[p].lay)
      <3>1. PICK j \in {1, 2} : j = Len(msg[p].lay)
        BY <1>2
      <3>2. 2 \in 1..j
        BY <1>2, <1>6, <3>1
      <3>3. j = 2 /\ 1 \in 1..2 /\ 2 \in 1..2
        BY <3>2
      <3> QED
        BY <3>1, <3>3
    <2>2. Gone(b) = In(msg[p], 1, b)
      BY <1>3, <1>4, <1>6, <2>1
    <2>3. (IF b \in FieldBlocks(msg[p], 2) THEN 1 ELSE 0) = In(msg[p], 2, b)
      BY <1>3, <2>1
    <2>4. b \in Unfreed(p) \/ In(msg[p], 2, b) = 0
      <3>1. ASSUME In(msg[p], 2, b) # 0 PROVE b \in Unfreed(p)
        <4>1. b \in FieldBlocks(msg[p], 2)
          BY <1>3, <3>1
        <4>2. 2 \in fld[p]..Len(msg[p].lay)
          BY <1>6, <2>1
        <4> QED
          BY <4>1, <4>2 DEF Unfreed
      <3> QED
        BY <3>1
    <2>5. PICK i \in {0, 1}, j \in {0, 1} : i = In(msg[p], 1, b) /\ j = In(msg[p], 2, b)
      BY <1>3
    <2>6. i <= i + j /\ i + 0 = i
      OBVIOUS
    <2> QED
      BY <1>3, <1>6, <2>1, <2>2, <2>3, <2>4, <2>5, <2>6
  <1> QED
    BY <1>2, <1>5, <1>6

LEMMA SoundPurgeFreeTimeout ==
  ASSUME QuietBase, Kinds, NEW p \in Purgers, PurgeFreeTimeout(p), NEW b \in Nat, Sound(b)
  PROVE  Sound(b)'
  <1>1. /\ pc[p] = "pg_free" /\ UNCHANGED <<sda, sdt>> /\ leaked' = leaked \cup Unfreed(p)
        /\ hdrs' = Dropped(p) /\ Goto(p, "pg_scan") /\ UNCHANGED local
    BY DEF PurgeFreeTimeout, data
  <1>2. OthersStay(p) /\ pc'[p] = "pg_scan"
    BY <1>1, Stays, Purger
  <1>3. PICK h \in hdrs : TextOf(h) = msg[p] /\ hdrs' = hdrs \ {h}
    BY <1>1, DroppedOne
  <1>4. Refs(b)' = Refs(b) /\ Refs(b) \in Nat
    BY <1>1, RefsAreNat DEF Refs
  <1>5. ASSUME b \in TextBlocks(msg[p])
        PROVE  /\ Refs(b)' = IF Refs(b) = 0 THEN 0 ELSE Refs(b) - 0
               /\ Gone(b) + 0 <= Fields(msg[p], b)
               /\ b \in leaked' \/ Gone(b) + 0 = Fields(msg[p], b) \/ Refs(b) = 0
    <2>1. Gone(b) <= Fields(msg[p], b) /\ (b \in Unfreed(p) \/ Gone(b) = Fields(msg[p], b))
      BY <1>1, <1>5, PurgeLeft
    <2>2. PICK a \in {0, 1}, r \in Nat : a = Gone(b) /\ r = Refs(b)
      BY <1>4, GoneIs
    <2>3. a + 0 = a /\ r - 0 = r
      OBVIOUS
    <2> QED
      BY <1>1, <1>4, <2>1, <2>2, <2>3
  <1>6. /\ leaked \subseteq leaked' /\ pc'[p] # "pg_free" /\ 0 \in {0, 1}
        /\ (Refs(b)' > 0 => sdt'[b + 1] = sdt[b + 1])
        /\ (b \notin TextBlocks(msg[p]) => Refs(b)' = Refs(b))
    BY <1>1, <1>2, <1>4
  <1> QED
    BY <1>1, <1>2, <1>3, <1>5, <1>6, SoundDropped

LEMMA SoundPurgeFree ==
  ASSUME QuietBase, Kinds, NEW p \in Purgers, PurgeFree(p), NEW b \in Nat, Sound(b)
  PROVE  Sound(b)'
  <1>1. /\ pc[p] = "pg_free" /\ p \in Proc /\ pc[p] \notin NoTextYet /\ Free(p, fld[p], 1) /\ UNCHANGED <<msg, cnt>>
        /\ p \notin Forwarders
    BY Purger DEF PurgeFree, NoTextYet
  <1>2. /\ msg[p].off \in Nat /\ msg[p].lay \in Layouts /\ fld[p] \in {1, 2} /\ fld[p] \in 1..Len(msg[p].lay)
        /\ Len(msg[p].lay) \in {1, 2}
    BY <1>1, HeldText
  <1>3. /\ FreeFits(FieldBlocks(msg[p], fld[p])) =>
             /\ leaked' = leaked
             /\ \A c \in Nat : RefsIn(sda', c) = IF c \in FieldBlocks(msg[p], fld[p])
                                                 THEN Minus(RefsIn(sda, c), 1) ELSE RefsIn(sda, c)
             /\ \A c \in Nat : RefsIn(sda', c) > 0 => sdt'[c + 1] = sdt[c + 1]
        /\ ~FreeFits(FieldBlocks(msg[p], fld[p])) =>
             leaked' = (IF sda = <<>> THEN leaked ELSE leaked \cup Unfreed(p)) /\ sda' = sda /\ sdt' = sdt
    BY <1>1, <1>2, FreeIs
  <1>4. /\ Refs(b) \in Nat
        /\ Minus(Refs(b), 1) = IF Refs(b) = 0 THEN 0 ELSE Refs(b) - 1
    BY RefsAreNat, MinusNat
  <1>5. ASSUME fld[p] < Len(msg[p].lay), FreeFits(FieldBlocks(msg[p], fld[p])) PROVE Sound(b)'
    <2>1. fld[p] = 1 /\ Len(msg[p].lay) = 2
      BY <1>1, <1>5, FirstOfTwo
    <2>2. fld' = [fld EXCEPT ![p] = @ + 1] /\ UNCHANGED <<pc, hdrs>> /\ fld \in [Proc -> {1, 2}]
      BY <1>5 DEF PurgeFree, Kinds, Types
    <2>3. fld'[p] = 2 /\ OthersStay(p)
      <3>1. fld'[p] = 1 + 1
        BY <1>1, <2>1, <2>2
      <3>2. 1 + 1 = 2
        OBVIOUS
      <3>3. \A q \in Proc \ {p} : fld'[q] = fld[q]
        BY <2>2
      <3> QED
        BY <1>1, <2>2, <3>1, <3>2, <3>3 DEF OthersStay
    <2>4. /\ \A q \in Purgers \ {p} : pc[q] # "pg_free"
          /\ Hands(b) = {} /\ Cardinality(Hands(b)) = 0 /\ IsFiniteSet(Hands(b))
          /\ Gone(b) = 0
          /\ \A g \in Headers(b) : TextOf(g) = msg[p] => \A q \in Proc : ~Owns(q, b)
      BY <1>1, <2>1, BesidePurging
    <2>5. Gone(b)' = IF b \in FieldBlocks(msg[p], 1) THEN 1 ELSE 0
      BY <1>1, <2>2, <2>3, <2>4 DEF Gone
    <2>6. Headers(b)' = Headers(b) /\ Hands(b)' = Hands(b) /\ ~Owns(p, b) /\ ~Owns(p, b)' /\ leaked' = leaked
      BY <1>1, <1>3, <1>5, <2>2, <2>3, HandsOthers, NoClaims DEF Headers
    <2>7. CASE b \notin FieldBlocks(msg[p], 1)
      <3>1. Refs(b)' = Refs(b) /\ (Refs(b) > 0 => sdt'[b + 1] = sdt[b + 1])
        BY <1>3, <1>5, <2>1, <2>7 DEF Refs
      <3>2. leaked \subseteq leaked' /\ Gone(b)' = Gone(b)
        BY <2>4, <2>5, <2>6, <2>7
      <3> QED
        BY <1>1, <2>3, <2>6, <3>1, <3>2, SoundBeside
    <2>8. CASE b \in FieldBlocks(msg[p], 1)
      <3>1. b \in TextBlocks(msg[p])
        BY <1>2, <2>1, <2>8, BlocksAreNat
      <3>2. PICK h \in hdrs : TextOf(h) = msg[p]
        BY <1>1, DroppedOne
      <3>3. h \in Headers(b)
        BY <3>1, <3>2, SameText DEF Headers
      <3>4. /\ \A q \in Proc : ~Owns(q, b)
            /\ \A g \in Headers(b) : TextOf(g) = TextOf(h) /\ Fields(g, b) = Fields(h, b)
        <4>1. \A g \in Headers(b) : TextOf(g) = TextOf(h)
          BY <3>3 DEF Sound, Agree
        <4>2. \A g \in Headers(b) : Fields(g, b) = Fields(msg[p], b)
          BY <3>2, <4>1, SameText
        <4> QED
          BY <2>4, <3>2, <3>3, <4>1, <4>2
      <3>5. \A q \in Proc : ~Owns(q, b)'
        BY <1>1, <2>3, <2>6, <3>4, OwnsLeft
      <3>6. LET n == Refs(b) + Gone(b) + Fields(h, b) - 1
            IN  n >= Claims(b) /\ (b \notin leaked => n = Claims(b))
        BY <3>3, <3>4 DEF Sound, Counted
      <3>7. Uses(Headers(b), b) \in Nat /\ Fields(h, b) \in {1, 2} /\ Uses(Headers(b), b) >= Fields(h, b)
        BY <3>3, HeadersAre
      <3>8. PICK r \in Nat, k \in {1, 2}, u \in Nat :
              r = Refs(b) /\ k = Fields(h, b) /\ u = Uses(Headers(b), b)
        BY <1>4, <3>7
      <3>9. r + 0 + k - 1 >= u + 0 /\ (b \notin leaked => r + 0 + k - 1 = u + 0) /\ u >= k
        BY <2>4, <3>6, <3>7, <3>8 DEF Claims
      <3>10. r >= 1
        BY <3>9
      <3>11. Refs(b)' = r - 1
        BY <1>3, <1>4, <1>5, <2>1, <2>8, <3>8, <3>10 DEF Refs
      <3>12. (r - 1) + 1 + k - 1 = r + 0 + k - 1
        BY <3>10
      <3>13. \A g \in Headers(b)' :
               LET n == Refs(b)' + Gone(b)' + Fields(g, b) - 1
               IN  n >= Uses(Headers(b)', b) + Cardinality(Hands(b)')
                   /\ (b \notin leaked' => n = Uses(Headers(b)', b) + Cardinality(Hands(b)'))
        BY <2>4, <2>5, <2>6, <2>8, <3>4, <3>8, <3>9, <3>11, <3>12
      <3>14. \A g \in Headers(b)' : Filled(b, g)'
        <4>1. Refs(b) > 0 /\ (Refs(b)' > 0 => sdt'[b + 1] = sdt[b + 1])
          BY <1>3, <1>5, <3>8, <3>10 DEF Refs
        <4> QED
          BY <2>6, <4>1 DEF Sound, Contents, Filled
      <3>15. Headers(b)' # {} /\ IsFiniteSet(Hands(b)') /\ \A f, g \in Headers(b)' : TextOf(f) = TextOf(g)
        BY <2>4, <2>6, <3>3, <3>4
      <3> QED
        BY <3>5, <3>13, <3>14, <3>15, SoundUnowned
    <2> QED
      BY <2>7, <2>8
  <1>6. ASSUME ~(fld[p] < Len(msg[p].lay) /\ FreeFits(FieldBlocks(msg[p], fld[p]))) PROVE Sound(b)'
    <2>1. hdrs' = Dropped(p) /\ Goto(p, "pg_scan") /\ UNCHANGED local
      BY <1>1, <1>6 DEF PurgeFree, local
    <2>2. OthersStay(p) /\ pc'[p] = "pg_scan"
      BY <1>1, <2>1, Stays
    <2>3. PICK h \in hdrs : TextOf(h) = msg[p] /\ hdrs' = hdrs \ {h}
      BY <1>1, <2>1, DroppedOne
    <2>4. leaked \subseteq leaked' /\ pc'[p] # "pg_free"
      BY <1>3, <2>2
    <2>5. CASE FreeFits(FieldBlocks(msg[p], fld[p]))
      <3>1. fld[p] = Len(msg[p].lay)
        <4>1. PICK i \in {1, 2}, j \in {1, 2} : i = fld[p] /\ j = Len(msg[p].lay)
          BY <1>2
        <4>2. i \in 1..j /\ ~(i < j)
          BY <1>2, <1>6, <2>5, <4>1
        <4>3. i = j
          BY <4>2
        <4> QED
          BY <4>1, <4>3
      <3>2. PICK d \in {0, 1} : d = IF b \in FieldBlocks(msg[p], fld[p]) THEN 1 ELSE 0
        OBVIOUS
      <3>3. Refs(b)' = IF Refs(b) = 0 THEN 0 ELSE Refs(b) - d
        <4>1. PICK r \in Nat : r = Refs(b)
          BY <1>4
        <4>2. r - 0 = r
          OBVIOUS
        <4> QED
          BY <1>3, <1>4, <2>5, <3>2, <4>1, <4>2 DEF Refs
      <3>4. b \notin TextBlocks(msg[p]) => Refs(b)' = Refs(b)
        <4>1. b \notin TextBlocks(msg[p]) => b \notin FieldBlocks(msg[p], fld[p])
          BY <1>2, BlocksAreNat
        <4> QED
          BY <1>3, <2>5, <4>1 DEF Refs
      <3>5. ASSUME b \in TextBlocks(msg[p]) PROVE Gone(b) + d = Fields(msg[p], b) /\ Gone(b) + d <= Fields(msg[p], b)
        <4>1. Gone(b) + d = Fields(msg[p], b)
          BY <1>1, <3>1, <3>2, <3>5, PurgeLeft
        <4>2. Fields(msg[p], b) \in {1, 2}
          BY <1>2, <3>5, InTwo
        <4> QED
          BY <4>1, <4>2
      <3>6. Refs(b)' > 0 => sdt'[b + 1] = sdt[b + 1]
        BY <1>3, <2>5 DEF Refs
      <3> QED
        BY <1>1, <2>2, <2>3, <2>4, <3>3, <3>4, <3>5, <3>6, SoundDropped
    <2>6. CASE ~FreeFits(FieldBlocks(msg[p], fld[p]))
      <3>1. Refs(b)' = Refs(b) /\ UNCHANGED sdt /\ (sda = <<>> => Refs(b) = 0)
        BY <1>3, <2>6 DEF Refs, RefsIn
      <3>2. ASSUME b \in TextBlocks(msg[p])
            PROVE  /\ Refs(b)' = IF Refs(b) = 0 THEN 0 ELSE Refs(b) - 0
                   /\ Gone(b) + 0 <= Fields(msg[p], b)
                   /\ b \in leaked' \/ Gone(b) + 0 = Fields(msg[p], b) \/ Refs(b) = 0
        <4>1. Gone(b) <= Fields(msg[p], b) /\ (b \in Unfreed(p) \/ Gone(b) = Fields(msg[p], b))
          BY <1>1, <3>2, PurgeLeft
        <4>2. PICK a \in {0, 1}, r \in Nat : a = Gone(b) /\ r = Refs(b)
          BY <1>4, GoneIs
        <4>3. a + 0 = a /\ r - 0 = r
          OBVIOUS
        <4> QED
          BY <1>3, <2>6, <3>1, <4>1, <4>2, <4>3
      <3>3. /\ 0 \in {0, 1}
            /\ (Refs(b)' > 0 => sdt'[b + 1] = sdt[b + 1])
            /\ (b \notin TextBlocks(msg[p]) => Refs(b)' = Refs(b))
        BY <3>1
      <3> QED
        BY <1>1, <2>2, <2>3, <2>4, <3>2, <3>3, SoundDropped
    <2> QED
      BY <2>5, <2>6
  <1> QED
    BY <1>5, <1>6

\* Headers written again with other marks: the blocks stay sound.
LEMMA SoundRelabelled ==
  ASSUME QuietBase, Kinds, UNCHANGED <<sda, sdt, leaked>>, NEW b \in Nat, Sound(b),
         Hands(b)' = Hands(b), Gone(b)' = Gone(b), \A q \in Proc : Owns(q, b)' <=> Owns(q, b),
         \A q \in Proc : Owns(q, b) => msg'[q] = msg[q] /\ cnt'[q] = cnt[q] /\ (Uncounted(q)' <=> Uncounted(q)),
         Uses(Headers(b)', b) = Uses(Headers(b), b), Headers(b)' = {} <=> Headers(b) = {},
         \A g \in Headers(b)' : \E f \in Headers(b) : TextOf(g) = TextOf(f)
  PROVE  Sound(b)'
  <1>1. Refs(b)' = Refs(b)
    BY DEF Refs
  <1>2. \A m : Filled(b, m)' <=> Filled(b, m)
    BY <1>1 DEF Filled
  <1>3. \A f, g : TextOf(g) = TextOf(f) => Fields(g, b) = Fields(f, b) /\ (Filled(b, g) <=> Filled(b, f))
    <2> SUFFICES ASSUME NEW f, NEW g, TextOf(g) = TextOf(f)
                 PROVE  Fields(g, b) = Fields(f, b) /\ (Filled(b, g) <=> Filled(b, f))
      OBVIOUS
    <2>1. PICK t \in {TextOf(f)} : t = TextOf(f)
      OBVIOUS
    <2>2. Fields(g, b) = Fields(t, b) /\ (Filled(b, g) <=> Filled(b, t))
      BY <2>1, SameText
    <2>3. Fields(f, b) = Fields(t, b) /\ (Filled(b, f) <=> Filled(b, t))
      BY <2>1, SameText
    <2> QED
      BY <2>2, <2>3
  <1>4. IsFiniteSet(Hands(b))
    BY Numbers3
  <1>5. CASE \A q \in Proc : ~Owns(q, b)
    <2>1. \A q \in Proc : ~Owns(q, b)'
      BY <1>1, <1>5
    <2>2. ASSUME NEW g \in Headers(b)'
          PROVE  LET n == Refs(b)' + Gone(b)' + Fields(g, b) - 1
                 IN  n >= Uses(Headers(b)', b) + Cardinality(Hands(b)')
                     /\ (b \notin leaked' => n = Uses(Headers(b)', b) + Cardinality(Hands(b)'))
      <3>1. PICK f \in Headers(b) : Fields(g, b) = Fields(f, b)
        BY <1>1, <1>3
      <3>2. LET n == Refs(b) + Gone(b) + Fields(f, b) - 1
            IN  n >= Claims(b) /\ (b \notin leaked => n = Claims(b))
        BY <1>5 DEF Sound, Counted
      <3> QED
        BY <1>1, <3>1, <3>2 DEF Claims
    <2>3. Headers(b)' = {} => b \in leaked' \/ Refs(b)' = 0
      BY <1>1, <1>5 DEF Sound, Counted
    <2>4. /\ \A f, g \in Headers(b)' : TextOf(f) = TextOf(g)
          /\ \A g \in Headers(b)' : Filled(b, g)'
      <3>1. (\A f, g \in Headers(b) : TextOf(f) = TextOf(g)) /\ \A g \in Headers(b) : Filled(b, g)
        BY DEF Sound, Agree, Contents
      <3> QED
        BY <1>1, <1>2, <1>3, <3>1
    <2> QED
      BY <1>1, <1>4, <2>1, <2>2, <2>3, <2>4, SoundUnowned
  <1>6. ASSUME NEW p \in Proc, Owns(p, b) PROVE Sound(b)'
    <2>1. (\A q \in Proc \ {p} : ~Owns(q, b)) /\ \A f \in Headers(b) : TextOf(f) = msg[p] /\ cnt[p] > 0
      BY <1>6 DEF Sound, Agree
    <2>8. msg'[p] = msg[p] /\ cnt'[p] = cnt[p] /\ (Uncounted(p)' <=> Uncounted(p))
      BY <1>6
    <2>2. Owns(p, b)' /\ \A q \in Proc \ {p} : ~Owns(q, b)'
      BY <1>1, <1>6, <2>1
    <2>3. \A g \in Headers(b)' : TextOf(g) = msg'[p] /\ cnt'[p] > 0
      BY <2>1, <2>8
    <2>4. ASSUME p \in Mails, Uncounted(p)'
          PROVE  LET n == Refs(b)' + cnt'[p] * Fields(msg'[p], b) - 1
                 IN  n >= Uses(Headers(b)', b) + Cardinality(Hands(b)')
                     /\ (b \notin leaked' => n = Uses(Headers(b)', b) + Cardinality(Hands(b)'))
                     /\ Refs(b)' > Cardinality(Hands(b)')
      <3>1. LET n == Refs(b) + cnt[p] * Fields(msg[p], b) - 1
            IN  n >= Claims(b) /\ (b \notin leaked => n = Claims(b)) /\ Refs(b) > Cardinality(Hands(b))
        BY <1>6, <2>4, <2>8 DEF Sound, Counted
      <3>2. LET n == Refs(b)' + cnt'[p] * Fields(msg'[p], b) - 1
            IN  n >= Claims(b) /\ (b \notin leaked' => n = Claims(b)) /\ Refs(b)' > Cardinality(Hands(b))
        BY <1>1, <2>8, <3>1
      <3> QED
        BY <3>2 DEF Claims
    <2>5. p \in Senders => Refs(b)' >= 1 /\ (b \notin leaked' => Refs(b)' = 1)
      BY <1>1, <1>6 DEF Sound, Counted
    <2>6. Filled(b, msg[p])'
      BY <1>2, <1>6, <2>8 DEF Sound, Contents
    <2>7. IsFiniteSet(Hands(b)')
      BY <1>1, <1>4
    <2> QED
      BY <2>2, <2>3, <2>4, <2>5, <2>6, <2>7, SoundOwned
  <1> QED
    BY <1>5, <1>6

\* Marking a message changes nothing for the blocks of its text.
LEMMA SoundMark ==
  ASSUME QuietBase, Kinds, Mark, NEW b \in Nat, Sound(b)
  PROVE  Sound(b)'
  <1>1. UNCHANGED <<sda, sdt, leaked, pc, msg, fld, cnt>>
    BY DEF Mark, data, errors, local
  <1>2. PICK h \in hdrs, k \in HdrsOf : TextOf(k) = TextOf(h) /\ k \notin hdrs \ {h} /\ hdrs' = (hdrs \ {h}) \cup {k}
    BY Marked
  <1>3. Refs(b)' = Refs(b) /\ Hands(b)' = Hands(b) /\ Gone(b)' = Gone(b)
    BY <1>1 DEF Refs, Hands, Handing, Gone
  <1>4. \A q \in Proc : (Owns(q, b)' <=> Owns(q, b)) /\ (Uncounted(q)' <=> Uncounted(q))
    BY <1>1 DEF Owns, Uncounted, Unfreed
  <1>5. TextBlocks(k) = TextBlocks(h) /\ Fields(k, b) = Fields(h, b)
    <2>1. PICK t \in {TextOf(h)} : t = TextOf(h)
      OBVIOUS
    <2>2. TextBlocks(k) = TextBlocks(t) /\ Fields(k, b) = Fields(t, b)
      BY <1>2, <2>1, SameText
    <2>3. TextBlocks(h) = TextBlocks(t) /\ Fields(h, b) = Fields(t, b)
      BY <2>1, SameText
    <2> QED
      BY <2>2, <2>3
  <1>6. /\ Uses(Headers(b)', b) = Uses(Headers(b), b) /\ (Headers(b)' = {} <=> Headers(b) = {})
        /\ \A g \in Headers(b)' : \E f \in Headers(b) : TextOf(g) = TextOf(f)
    <2>1. CASE b \notin TextBlocks(h)
      <3>1. Headers(b)' = Headers(b)
        BY <1>2, <1>5, <2>1 DEF Headers
      <3> QED
        BY <3>1
    <2>2. CASE b \in TextBlocks(h)
      <3>1. Headers(b)' = (Headers(b) \ {h}) \cup {k} /\ h \in Headers(b) /\ k \notin Headers(b) \ {h}
        BY <1>2, <1>5, <2>2 DEF Headers
      <3>2. Pointers(Headers(b)) /\ Fields(h, b) \in {1, 2} /\ k.off \in Nat /\ k.lay \in Layouts
        BY <3>1, HeadersAre DEF HdrsOf
      <3>3. Pointers(Headers(b) \ {h})
        BY <3>2, FS_Subset DEF Pointers
      <3>4. Uses(Headers(b), b) = Uses(Headers(b) \ {h}, b) + Fields(h, b)
        BY <3>1, <3>2, UsesRemoved
      <3>5. Uses((Headers(b) \ {h}) \cup {k}, b) = Uses(Headers(b) \ {h}, b) + Fields(k, b)
        BY <3>1, <3>2, <3>3, UsesAdded
      <3>6. Uses(Headers(b)', b) = Uses(Headers(b), b)
        BY <1>5, <3>1, <3>4, <3>5
      <3>7. \A g \in Headers(b)' : \E f \in Headers(b) : TextOf(g) = TextOf(f)
        BY <1>2, <3>1
      <3> QED
        BY <3>1, <3>6, <3>7
    <2> QED
      BY <2>1, <2>2
  <1> QED
    BY <1>1, <1>3, <1>4, <1>6, SoundRelabelled

\* Nor does writing the headers back.
LEMMA RewrittenUses ==
  ASSUME Kinds, NEW H \in SUBSET hdrs, NEW b
  PROVE  Uses({Rewritten(h) : h \in H}, b) = Uses(H, b)
  <1> DEFINE Has(u) == u[2] <= Len(u[1].lay) /\ b \in FieldBlocks(u[1], u[2])
             K == {Rewritten(h) : h \in H}
             D == {u \in H \X {1, 2} : Has(u)}
             E == {u \in K \X {1, 2} : Has(u)}
             F == [u \in D |-> <<Rewritten(u[1]), u[2]>>]
  <1>1. ASSUME NEW h \in H, NEW x \in {1, 2} PROVE <<h, x>> \in D <=> <<Rewritten(h), x>> \in E
    <2>1. Rewritten(h).lay = h.lay /\ Rewritten(h).off = h.off
      BY RewrittenIs
    <2>2. FieldBlocks(Rewritten(h), x) = FieldBlocks(h, x)
      BY <2>1 DEF FieldBlocks
    <2>3. Rewritten(h) \in K
      OBVIOUS
    <2> HIDE DEF K
    <2>4. Has(<<h, x>>) <=> Has(<<Rewritten(h), x>>)
      BY <2>1, <2>2
    <2>5. <<h, x>> \in H \X {1, 2} /\ <<Rewritten(h), x>> \in K \X {1, 2}
      BY <2>3
    <2> HIDE DEF Has
    <2> QED
      BY <2>4, <2>5
  <1>2. \A g, h \in H : Rewritten(g) = Rewritten(h) => g = h
    <2>1. \A h \in H : Rewritten(h).num = h.num
      BY RewrittenIs
    <2> QED
      BY <2>1 DEF Kinds, Numbers
  <1>3. \A u \in D : \E h \in H, x \in {1, 2} : u = <<h, x>> /\ F[u] = <<Rewritten(h), x>>
    OBVIOUS
  <1>4. \A v \in E : \E h \in H, x \in {1, 2} : v = <<Rewritten(h), x>>
    OBVIOUS
  <1>5. IsFiniteSet(D)
    <2>1. IsFiniteSet(H)
      BY FS_Subset DEF Kinds, Types
    <2>2. IsFiniteSet({1, 2})
      <3>1. IsFiniteSet({1} \cup {2})
        BY FS_Singleton, FS_AddElement
      <3>2. {1, 2} = {1} \cup {2}
        OBVIOUS
      <3> QED
        BY <3>1, <3>2
    <2>3. IsFiniteSet(H \X {1, 2})
      BY <2>1, <2>2, FS_Product
    <2>4. D \subseteq H \X {1, 2}
      OBVIOUS
    <2> HIDE DEF D
    <2> QED
      BY <2>3, <2>4, FS_Subset
  <1>6. F = [u \in D |-> F[u]]
    OBVIOUS
  <1> HIDE DEF D, E, F
  <1>7. \A u \in D : F[u] \in E
    BY <1>1, <1>3
  <1>8. \A u, v \in D : F[u] = F[v] => u = v
    <2> SUFFICES ASSUME NEW u \in D, NEW v \in D, F[u] = F[v] PROVE u = v
      OBVIOUS
    <2>1. PICK g \in H, x \in {1, 2} : u = <<g, x>> /\ F[u] = <<Rewritten(g), x>>
      BY <1>3
    <2>2. PICK h \in H, y \in {1, 2} : v = <<h, y>> /\ F[v] = <<Rewritten(h), y>>
      BY <1>3
    <2>3. Rewritten(g) = Rewritten(h) /\ x = y
      BY <2>1, <2>2
    <2> QED
      BY <1>2, <2>1, <2>2, <2>3
  <1>9. \A v \in E : \E u \in D : F[u] = v
    <2> SUFFICES ASSUME NEW v \in E PROVE \E u \in D : F[u] = v
      OBVIOUS
    <2>1. PICK h \in H, x \in {1, 2} : v = <<Rewritten(h), x>>
      BY <1>4
    <2>2. <<h, x>> \in D
      BY <1>1, <2>1
    <2>3. F[<<h, x>>] = <<Rewritten(h), x>>
      BY <2>2 DEF F
    <2> QED
      BY <2>1, <2>2, <2>3
  <1>10. F \in [D -> E]
    BY <1>6, <1>7
  <1>11. ExistsBijection(D, E)
    <2>1. F \in Bijection(D, E)
      BY <1>8, <1>9, <1>10, Fun_IsBij
    <2> QED
      BY <2>1, Fun_ExistsBij
  <1>12. Cardinality(E) = Cardinality(D)
    BY <1>5, <1>11, FS_Bijection
  <1> QED
    BY <1>12 DEF Uses, D, E

LEMMA SoundPurgeClose ==
  ASSUME QuietBase, Kinds, NEW p \in Purgers, PurgeClose(p), NEW b \in Nat, Sound(b)
  PROVE  Sound(b)'
  <1>1. p \in Proc /\ p \notin Forwarders
    BY Purger
  <1>2. /\ Finish(p) /\ UNCHANGED <<sda, sdt, leaked>> /\ pc[p] = "pg_scan"
        /\ hdrs' = {Rewritten(h) : h \in hdrs}
    BY DEF PurgeClose, data, errors, Rewritten
  <1>3. OthersStay(p) /\ pc'[p] = "idle"
    BY <1>1, <1>2, Finished
  <1>4. Hands(b)' = Hands(b)
    BY <1>1, <1>3, HandsOthers
  <1>5. Gone(b)' = Gone(b)
    <2>1. \A q \in Purgers \ {p} : pc'[q] = pc[q] /\ msg'[q] = msg[q] /\ fld'[q] = fld[q]
      BY <1>3, Disjoint DEF OthersStay
    <2> QED
      BY <1>2, <1>3, <2>1 DEF Gone
  <1>6. ~Owns(p, b) /\ ~Owns(p, b)'
    BY NoClaims
  <1>7. \A q \in Proc : Owns(q, b)' <=> Owns(q, b)
    BY <1>1, <1>3, <1>6, OwnsOthers
  <1>8. ASSUME NEW q \in Proc, Owns(q, b)
        PROVE  msg'[q] = msg[q] /\ cnt'[q] = cnt[q] /\ (Uncounted(q)' <=> Uncounted(q))
    <2>1. q \in Proc \ {p}
      BY <1>6, <1>8
    <2>2. /\ Owns(q, b)' <=> Owns(q, b)
          /\ (Uncounted(q)' <=> Uncounted(q)) /\ (Handing(q)' <=> Handing(q))
          /\ msg'[q] = msg[q] /\ cnt'[q] = cnt[q]
      BY <1>1, <1>3, <2>1, OwnsOthers
    <2> QED
      BY <2>2
  <1>9. Headers(b)' = {Rewritten(h) : h \in Headers(b)}
    <2>1. \A h \in hdrs : TextBlocks(Rewritten(h)) = TextBlocks(h)
      BY RewrittenIs DEF TextBlocks
    <2>2. Headers(b)' = {k \in hdrs' : b \in TextBlocks(k)}
      BY DEF Headers
    <2> QED
      BY <1>2, <2>1, <2>2 DEF Headers
  <1>10. Headers(b) \in SUBSET hdrs
    BY DEF Headers
  <1>11. Uses(Headers(b)', b) = Uses(Headers(b), b)
    BY <1>9, <1>10, RewrittenUses
  <1>12. /\ Headers(b)' = {} <=> Headers(b) = {}
         /\ \A g \in Headers(b)' : \E f \in Headers(b) : TextOf(g) = TextOf(f)
    BY <1>9, <1>10, RewrittenIs
  <1> QED
    BY <1>2, <1>4, <1>5, <1>7, <1>8, <1>11, <1>12, SoundRelabelled

-----------------------------------------------------------------------------
(* The blocks are sound.                                                    *)

\* Every step keeps a block sound, as long as no count wraps.
LEMMA SoundNext ==
  ASSUME QuietBase, Kinds, Roomy, [Next]_vars, NEW b \in Nat \ short', Sound(b)
  PROVE  Sound(b)'
  <1>1. \A p \in Senders \cup Mailers \cup Listers \cup Forwarders \cup Purgers : p \in Proc
    BY DEF Proc
  <1>2. b \in Nat
    OBVIOUS
  <1>3. ASSUME NEW p \in Senders \cup Forwarders \cup Mailers, UndoStep(p) PROVE Sound(b)'
    BY <1>1, <1>2, <1>3, SoundUndoOpen, SoundUndoOpenTimeout, SoundFreeNothing, SoundFreeField DEF UndoStep
  <1>4. ASSUME NEW p \in Senders, SendStep(p) PROVE Sound(b)'
    BY <1>1, <1>2, <1>3, <1>4, SoundAddLock, SoundStoreText, SoundStoreTimeout, SoundAddHdr, SoundAddHdrFails DEF SendStep
  <1>5. ASSUME NEW p \in Mailers, MailStep(p) PROVE Sound(b)'
    <2>1. p \in Mails
      BY DEF Mails
    <2>2. CASE AddLock(p) \/ StoreText(p) \/ StoreTextTimeout(p) \/ AddRcpt(p) \/ SkipRcpt(p)
      BY <1>1, <1>2, <2>1, <2>2, SoundAddLock, SoundStoreText, SoundStoreTimeout, SoundAddRcpt, SoundSkipRcpt
    <2>3. CASE Count(p) \/ CountTimeout(p) \/ IncRefs(p) \/ IncRefsTimeout(p)
      BY <1>1, <1>2, <2>1, <2>3, SoundCount, SoundCountTimeout, SoundIncRefs, SoundIncTimeout
    <2>4. CASE FreeNothing(p) \/ FreeField(p) \/ FreeFieldTimeout(p)
      BY <1>3, <2>4 DEF UndoStep
    <2> QED
      BY <1>5, <2>2, <2>3, <2>4 DEF MailStep
  <1>6. ASSUME NEW p \in Listers, ListStep(p) PROVE Sound(b)'
    <2>1. p \in Mails
      BY DEF Mails
    <2>2. CASE AddLock(p) \/ StoreText(p) \/ StoreTextTimeout(p) \/ AddRcpt(p)
      BY <1>1, <1>2, <2>1, <2>2, SoundAddLock, SoundStoreText, SoundStoreTimeout, SoundAddRcpt
    <2>3. CASE ListDone(p) \/ IncOpen(p) \/ IncOpenTimeout(p)
      BY <1>1, <1>2, <2>3, SoundListDone, SoundIncOpen, SoundIncOpenTimeout
    <2>4. CASE IncRefs(p) \/ IncRefsTimeout(p)
      BY <1>1, <2>4, SoundIncRefs, SoundIncTimeout
    <2> QED
      BY <1>6, <2>2, <2>3, <2>4 DEF ListStep
  <1>7. ASSUME NEW p \in Forwarders, ForwardStep(p) PROVE Sound(b)'
    <2>1. CASE Forward(p) \/ ForwardOpen(p) \/ ForwardOpenTimeout(p)
      BY <1>2, <2>1, SoundForward, SoundForwardOpen, SoundForwardTimeout
    <2>2. CASE IncRefs(p) \/ IncRefsTimeout(p)
      BY <1>1, <2>2, SoundIncRefs, SoundIncTimeout
    <2>3. CASE AddHdr(p) \/ AddHdrFails(p) \/ UndoStep(p)
      BY <1>1, <1>2, <1>3, <2>3, SoundAddHdr, SoundAddHdrFails
    <2> QED
      BY <1>7, <2>1, <2>2, <2>3 DEF ForwardStep
  <1>8. ASSUME NEW p \in Purgers, PurgeStep(p) PROVE Sound(b)'
    BY <1>2, <1>8, SoundPurgeMove, SoundPurgeReturn, SoundPurgeNext, SoundPurgeFree, SoundPurgeFreeTimeout,
       SoundPurgeClose DEF PurgeStep
  <1>9. ASSUME NEW p \in Proc, CloseBase(p) PROVE Sound(b)'
    BY <1>2, <1>9, SoundCloseBase
  <1>10. CASE Mark
    BY <1>2, <1>10, SoundMark
  <1>11. CASE UNCHANGED vars
    BY <1>2, <1>11, SoundStutter
  <1> QED
    BY <1>4, <1>5, <1>6, <1>7, <1>8, <1>9, <1>10, <1>11 DEF Next

LEMMA ShortGrows ==
  ASSUME [Next]_vars
  PROVE  short \subseteq short'
  <1>1. ASSUME NEW p, UndoStep(p) PROVE short \subseteq short'
    BY <1>1 DEF UndoStep, UndoOpen, UndoOpenTimeout, FreeNothing, FreeField, FreeFieldTimeout, errors
  <1>2. ASSUME NEW p, \/ AddLock(p) \/ StoreText(p) \/ StoreTextTimeout(p) \/ AddHdr(p) \/ AddHdrFails(p)
                      \/ AddRcpt(p) \/ SkipRcpt(p)
        PROVE  short \subseteq short'
    BY <1>2 DEF AddLock, StoreText, StoreTextTimeout, AddHdr, AddHdrFails, AddRcpt, SkipRcpt, errors
  <1>3. ASSUME NEW p, Count(p) \/ CountTimeout(p) \/ ListDone(p) \/ IncOpen(p) \/ IncOpenTimeout(p)
        PROVE  short \subseteq short'
    BY <1>3 DEF Count, CountTimeout, ListDone, IncOpen, IncOpenTimeout, errors
  <1>4. ASSUME NEW p, IncRefs(p) \/ IncRefsTimeout(p) \/ FreeNothing(p) \/ FreeField(p) \/ FreeFieldTimeout(p)
        PROVE  short \subseteq short'
    BY <1>4 DEF IncRefs, IncRefsTimeout, FreeNothing, FreeField, FreeFieldTimeout, errors
  <1>5. ASSUME NEW p, Forward(p) \/ ForwardOpen(p) \/ ForwardOpenTimeout(p) \/ CloseBase(p) PROVE short \subseteq short'
    BY <1>5 DEF Forward, ForwardOpen, ForwardOpenTimeout, CloseBase, errors
  <1>6. ASSUME NEW p, PurgeStep(p) PROVE short \subseteq short'
    BY <1>6 DEF PurgeStep, PurgeLock, PurgeOpen, PurgeReturn, PurgeNext, PurgeFree, PurgeFreeTimeout, PurgeClose, errors
  <1>7. Mark => short \subseteq short'
    BY DEF Mark, errors
  <1>8. UNCHANGED vars => short \subseteq short'
    BY DEF vars
  <1>9. ASSUME NEW p, SendStep(p) \/ MailStep(p) \/ ListStep(p) \/ ForwardStep(p) PROVE short \subseteq short'
    BY <1>1, <1>2, <1>3, <1>4, <1>5, <1>9 DEF SendStep, MailStep, ListStep, ForwardStep
  <1> QED
    BY <1>5, <1>6, <1>7, <1>8, <1>9 DEF Next

LEMMA StoreInvNext ==
  ASSUME QuietBase, Kinds, Roomy, StoreInv, [Next]_vars
  PROVE  StoreInv'
  <1>1. short \subseteq short'
    BY ShortGrows
  <1>2. ASSUME NEW b \in Nat \ short' PROVE Sound(b)'
    <2>1. Sound(b)
      BY <1>1 DEF StoreInv
    <2> QED
      BY <2>1, SoundNext
  <1> QED
    BY <1>2 DEF StoreInv

LEMMA StoreInvInit ==
  ASSUME Init
  PROVE  StoreInv
  <1> SUFFICES ASSUME NEW b \in Nat PROVE Sound(b)
    BY DEF StoreInv
  <1>1. Headers(b) = {}
    BY DEF Init, Headers
  <1>2. \A p \in Proc : pc[p] = "idle"
    BY DEF Init
  <1>3. \A p \in Proc : ~Owns(p, b) /\ ~Uncounted(p) /\ ~Handing(p)
    BY <1>2 DEF Owns, Uncounted, Handing
  <1>4. Hands(b) = {} /\ IsFiniteSet(Hands(b))
    <2>1. Hands(b) = {}
      BY <1>3, Disjoint DEF Hands
    <2> QED
      BY <2>1, FS_EmptySet
  <1>5. Refs(b) = 0
    BY DEF Init, Refs, RefsIn
  <1>6. Agree(b)
    BY <1>1, <1>3 DEF Agree
  <1>7. Counted(b)
    BY <1>1, <1>3, <1>4, <1>5, Disjoint DEF Counted
  <1>8. Contents(b)
    BY <1>1, <1>3 DEF Contents
  <1> QED
    BY <1>6, <1>7, <1>8 DEF Sound

\* No message that purges spare is in a block that counts as free.
LEMMA SparedUsed ==
  ASSUME QuietBase, Kinds, StoreInv, NEW h \in hdrs, Spared(h), NEW b \in TextBlocks(h) \ short
  PROVE  b < Len(sda) /\ sda[b + 1] > 0
  <1>1. h \in hdrs /\ Spared(h)
    OBVIOUS
  <1>2. h.off \in Nat /\ h.lay \in Layouts
    BY <1>1 DEF Kinds, Types, HdrsOf
  <1>3. b \in Nat /\ Sound(b) /\ h \in Headers(b)
    BY <1>1, <1>2, BlocksAreNat DEF StoreInv, Headers
  <1>4. Uses(Headers(b), b) \in Nat /\ Cardinality(Hands(b)) \in Nat /\ Refs(b) \in Nat /\ Gone(b) \in {0, 1}
    BY <1>3, Numbers3
  <1>5. Pointers(Headers(b)) /\ \A g \in Headers(b) : Fields(g, b) \in {1, 2} /\ Uses(Headers(b), b) >= Fields(g, b)
    BY <1>3, HeadersAre
  <1>6. PICK r \in Nat, k \in {1, 2}, u \in Nat, c \in Nat :
          r = Refs(b) /\ k = Fields(h, b) /\ u = Uses(Headers(b), b) /\ c = Cardinality(Hands(b))
    BY <1>3, <1>4, <1>5
  <1>7. Refs(b) > 0
    <2>1. ASSUME NEW q \in Proc, Owns(q, b) PROVE Refs(b) > 0
      <3>1. Uncounted(q) /\ q \in Mails
        BY <1>3, <2>1, Owners DEF Sound, Uncounted
      <3>2. Refs(b) > Cardinality(Hands(b))
        BY <1>3, <2>1, <3>1 DEF Sound, Counted
      <3> QED
        BY <1>6, <3>2
    <2>2. CASE \A q \in Proc : ~Owns(q, b)
      <3>1. Refs(b) + Gone(b) + Fields(h, b) - 1 >= Uses(Headers(b), b) + Cardinality(Hands(b))
        BY <1>3, <2>2 DEF Sound, Counted, Claims
      <3>2. CASE Gone(b) = 0
        <4>1. r + 0 + k - 1 >= u + c /\ u >= k
          BY <1>3, <1>5, <1>6, <3>1, <3>2
        <4>2. r > 0
          BY <4>1
        <4> QED
          BY <1>6, <4>2
      <3>3. CASE Gone(b) = 1
        <4>1. PICK q \in Purgers : pc[q] = "pg_free" /\ fld[q] = 2 /\ b \in FieldBlocks(msg[q], 1)
          BY <3>3 DEF Gone
        <4>2. PICK g \in hdrs : ~Spared(g) /\ TextOf(g) = msg[q]
          BY <4>1, Purger DEF Known
        <4>3. b \in TextBlocks(msg[q])
          <5>1. q \in Proc /\ pc[q] \notin NoTextYet
            BY <4>1, Purger DEF NoTextYet
          <5>2. msg[q].off \in Nat /\ msg[q].lay \in Layouts /\ Len(msg[q].lay) \in {1, 2}
            BY <5>1, HeldText
          <5>3. 1 \in 1..Len(msg[q].lay)
            BY <5>2, OneOrTwo
          <5> QED
            BY <4>1, <5>2, <5>3, BlocksAreNat
        <4>4. g \in Headers(b) /\ g # h
          BY <1>1, <4>2, <4>3, SameText DEF Headers
        <4>5. Uses(Headers(b), b) >= Fields(g, b) + Fields(h, b)
          BY <1>3, <1>5, <4>4, UsesTwo
        <4>6. PICK l \in {1, 2} : l = Fields(g, b)
          BY <1>5, <4>4
        <4>7. r + 1 + k - 1 >= u + c /\ u >= l + k
          BY <1>6, <3>1, <3>3, <4>5, <4>6
        <4>8. r > 0
          BY <4>7
        <4> QED
          BY <1>6, <4>8
      <3> QED
        BY <1>4, <3>2, <3>3
    <2> QED
      BY <2>1, <2>2
  <1>8. b < Len(sda)
    BY <1>3, <1>7, RefsAreNat
  <1> QED
    BY <1>7, <1>8 DEF Refs, RefsIn

LEMMA SoundUsed ==
  ASSUME QuietBase, Kinds, StoreInv
  PROVE  UsedNotFree
  BY SparedUsed DEF UsedNotFree, Readable, Spared

\* When all calls have returned each count is what its text's headers come to.
LEMMA SoundExact ==
  ASSUME QuietBase, Kinds, StoreInv
  PROVE  RefsExact
  <1> SUFFICES ASSUME \A p \in Proc : pc[p] = "idle", NEW b \in 0..Len(sda) - 1, b \notin leaked \cup short
               PROVE  sda[b + 1] = IF Headers(b) = {} THEN 0
                                   ELSE Uses(Headers(b), b) - (Fields(CHOOSE h \in Headers(b) : TRUE, b) - 1)
    BY DEF RefsExact
  <1>1. b \in Nat /\ b < Len(sda)
    <2>1. Len(sda) \in Nat
      BY DEF Kinds, Types
    <2>2. PICK n \in Nat : n = Len(sda)
      BY <2>1
    <2>3. b \in 0..n - 1
      BY <2>2
    <2>4. b \in Nat /\ b < n
      BY <2>3
    <2> QED
      BY <2>2, <2>4
  <1>2. Sound(b) /\ Refs(b) = sda[b + 1]
    BY <1>1 DEF StoreInv, Refs, RefsIn
  <1>3. \A p \in Proc : ~Owns(p, b) /\ ~Handing(p)
    BY DEF Owns, Uncounted, Handing
  <1>4. Hands(b) = {} /\ Cardinality(Hands(b)) = 0
    <2>1. Hands(b) = {}
      BY <1>3, Disjoint DEF Hands
    <2> QED
      BY <2>1, FS_EmptySet
  <1>5. Gone(b) = 0
    BY Disjoint, <1>1 DEF Gone
  <1>6. CASE Headers(b) = {}
    BY <1>2, <1>3, <1>6 DEF Sound, Counted
  <1>7. CASE Headers(b) # {}
    <2>1. PICK h \in Headers(b) : h = CHOOSE g \in Headers(b) : TRUE
      BY <1>7
    <2>2. Refs(b) + Gone(b) + Fields(h, b) - 1 = Uses(Headers(b), b) + Cardinality(Hands(b))
      BY <1>2, <1>3 DEF Sound, Counted, Claims
    <2>3. Uses(Headers(b), b) \in Nat /\ Fields(h, b) \in {1, 2} /\ Refs(b) \in Nat
      BY <1>1, HeadersAre, RefsAreNat
    <2>4. PICK r \in Nat, k \in {1, 2}, u \in Nat : r = Refs(b) /\ k = Fields(h, b) /\ u = Uses(Headers(b), b)
      BY <2>3
    <2>5. r + 0 + k - 1 = u + 0
      BY <1>4, <1>5, <2>2, <2>4
    <2>6. r = u - (k - 1)
      BY <2>5
    <2> QED
      BY <1>2, <1>7, <2>1, <2>4, <2>6
  <1> QED
    BY <1>6, <1>7

\* Every process is where its call can be and has there the locks, the text and
\* the number it should: whoever frees or counts has the .sda file, a number is
\* that of one header, and a purge finds the header it has come to.
THEOREM KindsKept ==
  ASSUME QuietBase
  PROVE  Spec => []Kinds
  <1>1. Init => Kinds
    BY KindsInit
  <1>2. Kinds /\ [Next]_vars => Kinds'
    BY KindsNext
  <1> QED
    BY <1>1, <1>2, PTL DEF Spec

\* As long as no count wraps, whatever fails or times out, at every moment: the
\* headers in a block are those of one text, a text still being stored or freed
\* is in nobody else's block, and the count of a block is never below what points
\* to it.  It is above it only where a call has failed to give a block back, or
\* bulkmail has counted a recipient that got no header (leaked).
THEOREM BlocksSound ==
  ASSUME QuietBase
  PROVE  Spec /\ []Roomy => []StoreInv
  <1>1. Init => StoreInv
    BY StoreInvInit
  <1>2. Kinds /\ Roomy /\ StoreInv /\ [Next]_vars => StoreInv'
    BY StoreInvNext
  <1>3. Spec => []Kinds
    BY KindsKept
  <1> QED
    BY <1>1, <1>2, <1>3, PTL DEF Spec

\* No block of a readable message is free to be allocated again; and when all
\* calls have returned, each block is counted once for every header and field in
\* it (UsedNotFree, RefsExact), which is not the number of headers that smb.txt
\* promises.  smb_incdat, smb_freemsgdat and the callers that
\* undo them leave nothing allocated but where a call has returned an error or
\* bulkmail has counted a recipient that got no header.
THEOREM CountsExact ==
  ASSUME QuietBase
  PROVE  Spec /\ []Roomy => [](UsedNotFree /\ RefsExact)
  <1>1. Kinds /\ StoreInv => UsedNotFree /\ RefsExact
    BY SoundUsed, SoundExact
  <1>2. Spec => []Kinds
    BY KindsKept
  <1>3. Spec /\ []Roomy => []StoreInv
    BY BlocksSound
  <1> QED
    BY <1>1, <1>2, <1>3, PTL

-----------------------------------------------------------------------------
(* What readers see.                                                        *)

\* A message that purges spare says what was stored for it.
LEMMA TextIs ==
  ASSUME QuietBase, Kinds, StoreInv, NEW h \in hdrs, Spared(h)
  PROVE  TextAt(h) = h.txt
  <1>1. h.off \in Nat /\ h.lay \in Layouts
    BY DEF Kinds, Types, HdrsOf
  <1>2. CASE TextBlocks(h) \cap short # {}
    BY <1>2 DEF TextAt
  <1>3. CASE TextBlocks(h) \cap short = {}
    <2>1. ASSUME NEW b \in TextBlocks(h)
          PROVE  b < Len(sdt) /\ sdt[b + 1] = <<h.txt, b - h.off>>
      <3>1. b \in Nat \ short /\ h \in Headers(b)
        BY <1>1, <1>3, BlocksAreNat DEF Headers
      <3>2. Filled(b, h)
        BY <3>1 DEF StoreInv, Sound, Contents
      <3>3. b < Len(sda) /\ sda[b + 1] > 0
        BY <3>1, SparedUsed
      <3>4. Refs(b) > 0
        BY <3>3 DEF Refs, RefsIn
      <3> QED
        BY <3>2, <3>3, <3>4 DEF Filled, Kinds, Types
    <2>2. h.off \in TextBlocks(h)
      <3>1. PICK g \in Nat : h.off <= g /\ TextBlocks(h) = h.off..g
        BY <1>1, TextInterval
      <3> QED
        BY <1>1, <3>1
    <2>3. sdt[h.off + 1][1] = h.txt
      BY <2>1, <2>2
    <2> QED
      BY <1>3, <2>1, <2>3 DEF TextAt
  <1> QED
    BY <1>2, <1>3

\* What the promise's box and unsure stand for, and what they should be
Box == TextsIn(Readable)
Unsure == TextsIn(Late)
BoxOf(R) == [n \in {h.num : h \in R} |-> (CHOOSE h \in R : h.num = n).txt]
BoxRight == Box = BoxOf(Readable) /\ Unsure = BoxOf(Late)

LEMMA BoxIs == ASSUME QuietBase, Kinds, StoreInv PROVE BoxRight
  <1>1. ASSUME NEW R \in SUBSET {h \in hdrs : Spared(h)} PROVE TextsIn(R) = BoxOf(R)
    <2>1. ASSUME NEW n \in {h.num : h \in R}
          PROVE  TextAt(CHOOSE h \in R : h.num = n) = (CHOOSE h \in R : h.num = n).txt
      <3>1. (CHOOSE h \in R : h.num = n) \in R
        BY <2>1
      <3> QED
        BY <3>1, TextIs
    <2> QED
      BY <2>1 DEF TextsIn, BoxOf
  <1>2. Readable \in SUBSET {h \in hdrs : Spared(h)} /\ Late \in SUBSET {h \in hdrs : Spared(h)}
    BY DEF Readable, Late, Spared
  <1> QED
    BY <1>1, <1>2 DEF BoxRight, Box, Unsure

\* The message a number belongs to
LEMMA BoxAt ==
  ASSUME NEW R, \A g, h \in R : g.num = h.num => g = h
  PROVE  /\ DOMAIN BoxOf(R) = {h.num : h \in R}
         /\ \A h \in R : h.num \in DOMAIN BoxOf(R) /\ BoxOf(R)[h.num] = h.txt
  <1>1. DOMAIN BoxOf(R) = {h.num : h \in R}
    BY DEF BoxOf
  <1>2. ASSUME NEW h \in R PROVE h.num \in DOMAIN BoxOf(R) /\ BoxOf(R)[h.num] = h.txt
    <2>1. h.num \in {g.num : g \in R}
      OBVIOUS
    <2>2. (CHOOSE g \in R : g.num = h.num) = h
      OBVIOUS
    <2> QED
      BY <1>1, <2>1, <2>2 DEF BoxOf
  <1> QED
    BY <1>1, <1>2

LEMMA BoxGrows ==
  ASSUME NEW R, NEW S, NEW k \in S, k \notin R, \A h : h \in S <=> h \in R \/ h = k,
         \A g, h \in S : g.num = h.num => g = h
  PROVE  BoxOf(S) = T!With(BoxOf(R), k.num, k.txt)
  <1>1. /\ DOMAIN BoxOf(R) = {h.num : h \in R}
        /\ \A h \in R : h.num \in DOMAIN BoxOf(R) /\ BoxOf(R)[h.num] = h.txt
    BY BoxAt
  <1>2. \A h \in S : (CHOOSE g \in S : g.num = h.num) = h
    OBVIOUS
  <1>3. {h.num : h \in S} = DOMAIN BoxOf(R) \cup {k.num}
    BY <1>1
  <1>4. ASSUME NEW n \in {h.num : h \in S}
        PROVE  (CHOOSE h \in S : h.num = n).txt = IF n = k.num THEN k.txt ELSE BoxOf(R)[n]
    <2>1. PICK h \in S : h.num = n
      OBVIOUS
    <2>2. (CHOOSE g \in S : g.num = n) = h
      BY <1>2, <2>1
    <2>3. CASE h = k
      BY <2>1, <2>2, <2>3
    <2>4. CASE h # k
      BY <1>1, <2>1, <2>2, <2>4
    <2> QED
      BY <2>3, <2>4
  <1> QED
    BY <1>3, <1>4 DEF BoxOf, T!With

LEMMA BoxShrinks ==
  ASSUME NEW R, NEW k \in R, NEW S, S = R \ {k},
         \A g, h \in R : g.num = h.num => g = h
  PROVE  BoxOf(S) = T!Without(BoxOf(R), k.num)
  <1>1. /\ DOMAIN BoxOf(R) = {h.num : h \in R}
        /\ \A h \in R : h.num \in DOMAIN BoxOf(R) /\ BoxOf(R)[h.num] = h.txt
    BY BoxAt
  <1>2. {h.num : h \in S} = DOMAIN BoxOf(R) \ {k.num}
    BY <1>1
  <1>3. ASSUME NEW n \in {h.num : h \in S}
        PROVE  (CHOOSE h \in S : h.num = n).txt = BoxOf(R)[n]
    <2>1. PICK h \in S : h.num = n
      OBVIOUS
    <2>2. (CHOOSE g \in S : g.num = n) = h
      BY <2>1
    <2> QED
      BY <1>1, <2>1, <2>2
  <1> QED
    BY <1>2, <1>3 DEF BoxOf, T!Without

\* S has the messages of R and L again, whatever their marks.
Again(S, H) ==
    /\ \A g \in S : \E h \in H : g.num = h.num /\ g.txt = h.txt
    /\ \A h \in H : \E g \in S : g.num = h.num /\ g.txt = h.txt

Joined(f, g) == [n \in DOMAIN f \cup DOMAIN g |-> IF n \in DOMAIN f THEN f[n] ELSE g[n]]

LEMMA BoxJoins ==
  ASSUME NEW R, NEW L, NEW S, Again(S, R \cup L),
         \A g, h \in R \cup L : g.num = h.num => g = h, \A g, h \in S : g.num = h.num => g = h
  PROVE  BoxOf(S) = Joined(BoxOf(R), BoxOf(L))
  <1>1. /\ DOMAIN BoxOf(R) = {h.num : h \in R}
        /\ \A h \in R : h.num \in DOMAIN BoxOf(R) /\ BoxOf(R)[h.num] = h.txt
    BY BoxAt
  <1>2. /\ DOMAIN BoxOf(L) = {h.num : h \in L}
        /\ \A h \in L : h.num \in DOMAIN BoxOf(L) /\ BoxOf(L)[h.num] = h.txt
    BY BoxAt
  <1>3. /\ DOMAIN BoxOf(S) = {h.num : h \in S}
        /\ \A h \in S : h.num \in DOMAIN BoxOf(S) /\ BoxOf(S)[h.num] = h.txt
    BY BoxAt
  <1>4. DOMAIN BoxOf(S) = DOMAIN BoxOf(R) \cup DOMAIN BoxOf(L)
    BY <1>1, <1>2, <1>3 DEF Again
  <1>5. ASSUME NEW n \in DOMAIN BoxOf(S)
        PROVE  BoxOf(S)[n] = IF n \in DOMAIN BoxOf(R) THEN BoxOf(R)[n] ELSE BoxOf(L)[n]
    <2>1. PICK g \in S : g.num = n /\ BoxOf(S)[n] = g.txt
      BY <1>3
    <2>2. PICK h \in R \cup L : h.num = n /\ g.txt = h.txt
      BY <2>1 DEF Again
    <2>3. CASE h \in R
      BY <1>1, <2>1, <2>2, <2>3
    <2>4. CASE h \notin R
      <3>1. h \in L /\ n \notin DOMAIN BoxOf(R)
        BY <1>1, <2>2, <2>4
      <3> QED
        BY <1>2, <2>1, <2>2, <3>1
    <2> QED
      BY <2>3, <2>4
  <1>6. BoxOf(S) = [n \in DOMAIN BoxOf(S) |-> BoxOf(S)[n]]
    BY DEF BoxOf
  <1> QED
    BY <1>4, <1>5, <1>6 DEF Joined

\* What a step does to the readable messages and to those marked late
Keeps == Readable' = Readable /\ Late' = Late /\ UNCHANGED <<last, haLock>>
Adds ==
    /\ haLock = None
    /\ \E k \in HdrsOf : /\ k \notin hdrs /\ k.num = last + 1 /\ k.txt \in 1..texts
                         /\ Readable' = Readable \cup {k}
    /\ last' = last + 1
    /\ Late' = Late /\ UNCHANGED haLock
Takes ==
    /\ \E h \in Readable, k \in HdrsOf :
         /\ k.num = h.num /\ k.txt = h.txt
         /\ Readable' = Readable \ {h}
         /\ Late' = IF haLock = None THEN Late ELSE Late \cup {k}
    /\ UNCHANGED <<last, haLock>>
Opens == haLock = None /\ haLock' # None /\ Readable' = Readable /\ Late' = Late /\ UNCHANGED last
Sees == \E h \in Late : Late' = Late \ {h} /\ Readable' = Readable /\ UNCHANGED <<last, haLock>>
Closes ==
    /\ haLock # None /\ haLock' = None
    /\ Again(Readable', Readable \cup Late) /\ Late' = {}
    /\ UNCHANGED last

LEMMA SameHdrs == ASSUME UNCHANGED <<hdrs, late, last, haLock>> PROVE Keeps
  BY DEF Keeps, Readable, Late

LEMMA ReadableAdd ==
  ASSUME Kinds, NEW p \in Proc, pc[p] \notin NoTextYet, haLock = None, UNCHANGED <<haLock, late>>,
         hdrs' = hdrs \cup {NewHdr(msg[p])}, last' = last + 1
  PROVE  Adds
  <1>1. msg[p] \in TextsOf /\ msg[p].txt \in 1..texts
    BY DEF Kinds, Known
  <1>2. PICK k : k = NewHdr(msg[p])
    OBVIOUS
  <1>3. k \in HdrsOf /\ k \notin hdrs /\ ~k.marked /\ k.num = last + 1
    BY <1>1, <1>2, NewHdrIs
  <1>4. k.txt = msg[p].txt
    BY <1>2 DEF NewHdr
  <1>5. Readable' = Readable \cup {k}
    BY <1>2, <1>3 DEF Readable
  <1>6. last + 1 \notin late
    <2>1. PICK n \in Nat : n = last
      BY DEF Kinds, Types
    <2>2. n + 1 \notin 0..n
      OBVIOUS
    <2> QED
      BY <2>1, <2>2 DEF Kinds, Numbers
  <1>7. Late' = Late
    BY <1>2, <1>3, <1>6 DEF Late
  <1> QED
    BY <1>1, <1>3, <1>4, <1>5, <1>7 DEF Adds

LEMMA ReadableDrop ==
  ASSUME Kinds, NEW p \in Purgers, pc[p] = "pg_free", hdrs' = Dropped(p), UNCHANGED <<last, late, haLock>>
  PROVE  Keeps
  <1>1. PICK h \in hdrs : ~Spared(h) /\ Dropped(p) = hdrs \ {h}
    BY DroppedOne
  <1>2. h \notin Readable /\ h \notin Late
    BY <1>1 DEF Readable, Late, Spared
  <1> QED
    BY <1>1, <1>2 DEF Keeps, Readable, Late

LEMMA ReadableMark == ASSUME Kinds, Mark PROVE Takes
  <1>1. PICK h \in hdrs, k \in HdrsOf :
          /\ ~h.marked /\ k.marked /\ k.num = h.num /\ k.txt = h.txt
          /\ k \notin hdrs \ {h} /\ hdrs' = (hdrs \ {h}) \cup {k}
          /\ late' = IF haLock = None THEN late ELSE late \cup {h.num}
    BY Marked
  <1>2. h \in Readable /\ Readable' = Readable \ {h}
    BY <1>1 DEF Readable
  <1>3. UNCHANGED <<last, haLock>>
    BY DEF Mark, locks
  <1>4. h.num \notin late /\ \A g \in hdrs : g.num = h.num => g = h
    BY <1>1 DEF Kinds, Numbers
  <1>5. Late' = IF haLock = None THEN Late ELSE Late \cup {k}
    BY <1>1, <1>4 DEF Late
  <1> QED
    BY <1>1, <1>2, <1>3, <1>5 DEF Takes

LEMMA ReadableOpen ==
  ASSUME Kinds, NEW p \in Purgers, PurgeOpen(p)
  PROVE  Opens
  <1>1. haLock = None
    <2>1. haLock \in Purgers \cup {None} /\ \A q \in Purgers : haLock = q => pc[q] \in InPurge /\ daLock = q /\ q # None
      BY Disjoint DEF Kinds, Types, Owned, InPurge
    <2> QED
      BY <2>1 DEF PurgeOpen
  <1>2. haLock' # None /\ UNCHANGED <<hdrs, late, last>>
    BY Disjoint DEF PurgeOpen, base
  <1> QED
    BY <1>1, <1>2 DEF Opens, Readable, Late

LEMMA ReadableSee ==
  ASSUME Kinds, NEW p \in Purgers, PurgeNext(p)
  PROVE  Sees \/ Keeps
  <1>1. PICK h \in hdrs : late' = late \ {h.num}
    BY DEF PurgeNext, Ahead
  <1>2. UNCHANGED <<hdrs, last, haLock>>
    BY DEF PurgeNext, locks
  <1>3. CASE h.num \in late
    <2>1. h \in Late /\ \A g \in hdrs : g.num = h.num => g = h
      BY <1>3 DEF Late, Kinds, Numbers
    <2>2. Late' = Late \ {h} /\ Readable' = Readable
      BY <1>1, <1>2, <2>1 DEF Late, Readable
    <2> QED
      BY <1>2, <2>1, <2>2 DEF Sees
  <1>4. CASE h.num \notin late
    BY <1>1, <1>2, <1>4, SameHdrs
  <1> QED
    BY <1>3, <1>4

LEMMA ReadableClose ==
  ASSUME Kinds, NEW p \in Purgers, PurgeClose(p)
  PROVE  Closes
  <1>1. haLock # None
    BY Disjoint DEF PurgeClose, Kinds, Owned, InPurge
  <1>2. hdrs' = {Rewritten(h) : h \in hdrs} /\ late' = {} /\ haLock' = None /\ UNCHANGED last
    BY DEF PurgeClose, Rewritten
  <1>3. Late' = {}
    BY <1>2 DEF Late
  <1>4. \A h \in hdrs : h \in Readable \cup Late <=> Spared(h)
    BY DEF Readable, Late, Spared
  <1>5. \A h \in hdrs : /\ Rewritten(h).num = h.num /\ Rewritten(h).txt = h.txt
                        /\ (Rewritten(h).marked <=> ~Spared(h))
    BY RewrittenIs
  <1>6. Readable \cup Late \subseteq hdrs /\ Readable' = {k \in hdrs' : ~k.marked}
    BY DEF Readable, Late
  <1>7. Again(Readable', Readable \cup Late)
    <2>1. ASSUME NEW g \in Readable' PROVE \E h \in Readable \cup Late : g.num = h.num /\ g.txt = h.txt
      <3>1. PICK h \in hdrs : g = Rewritten(h) /\ ~g.marked
        BY <1>2, <1>6
      <3> QED
        BY <1>4, <1>5, <3>1
    <2>2. ASSUME NEW h \in Readable \cup Late PROVE \E g \in Readable' : g.num = h.num /\ g.txt = h.txt
      <3>1. h \in hdrs /\ Spared(h)
        BY <1>4, <1>6
      <3>2. Rewritten(h) \in Readable'
        BY <1>2, <1>5, <1>6, <3>1
      <3> QED
        BY <1>5, <3>1, <3>2
    <2> QED
      BY <2>1, <2>2 DEF Again
  <1> QED
    BY <1>1, <1>2, <1>3, <1>7 DEF Closes

LEMMA ReadableNext ==
  ASSUME Kinds, [Next]_vars
  PROVE  Adds \/ Takes \/ Opens \/ Sees \/ Closes \/ Keeps
  <1>2. CASE UNCHANGED vars
    BY <1>2, SameHdrs DEF vars
  <1>3. ASSUME NEW p \in Proc, AddHdr(p) PROVE Adds
    <2>1. pc[p] \notin NoTextYet
      BY <1>3 DEF AddHdr, NoTextYet
    <2> QED
      BY <1>3, <2>1, ReadableAdd DEF AddHdr
  <1>4. ASSUME NEW p \in Proc, AddRcpt(p) PROVE Adds
    <2>1. pc[p] \notin NoTextYet
      BY <1>4 DEF AddRcpt, NoTextYet
    <2> QED
      BY <1>4, <2>1, ReadableAdd DEF AddRcpt, locks
  <1>5. ASSUME NEW p \in Proc, UndoStep(p) PROVE Keeps
    BY <1>5, SameHdrs DEF UndoStep, UndoOpen, UndoOpenTimeout, FreeNothing, FreeField, FreeFieldTimeout, base, locks
  <1>6. ASSUME NEW p \in Proc, AddLock(p) \/ StoreText(p) \/ StoreTextTimeout(p) \/ SkipRcpt(p) PROVE Keeps
    BY <1>6, SameHdrs DEF AddLock, StoreText, StoreTextTimeout, SkipRcpt, base, locks
  <1>7. ASSUME NEW p \in Proc, AddHdrFails(p) \/ IncRefs(p) \/ IncRefsTimeout(p) PROVE Keeps
    BY <1>7, SameHdrs DEF AddHdrFails, IncRefs, IncRefsTimeout, base
  <1>8. ASSUME NEW p \in Proc, Count(p) \/ CountTimeout(p) \/ ListDone(p) \/ IncOpen(p) \/ IncOpenTimeout(p)
        PROVE  Keeps
    BY <1>8, SameHdrs DEF Count, CountTimeout, ListDone, IncOpen, IncOpenTimeout, base, locks
  <1>9. ASSUME NEW p \in Senders, SendStep(p) PROVE Adds \/ Keeps
    BY <1>3, <1>5, <1>6, <1>7, <1>9 DEF SendStep, Proc
  <1>10. ASSUME NEW p \in Mailers, MailStep(p) PROVE Adds \/ Keeps
    BY <1>4, <1>5, <1>6, <1>7, <1>8, <1>10 DEF MailStep, UndoStep, Proc
  <1>11. ASSUME NEW p \in Listers, ListStep(p) PROVE Adds \/ Keeps
    BY <1>4, <1>6, <1>7, <1>8, <1>11 DEF ListStep, Proc
  <1>12. ASSUME NEW p \in Forwarders, ForwardStep(p) PROVE Adds \/ Keeps
    <2>1. CASE Forward(p) \/ ForwardOpen(p) \/ ForwardOpenTimeout(p)
      BY <2>1, SameHdrs DEF Forward, ForwardOpen, ForwardOpenTimeout, base, locks
    <2> QED
      BY <1>3, <1>5, <1>7, <1>12, <2>1 DEF ForwardStep, Proc
  <1>13. ASSUME NEW p \in Purgers, PurgeStep(p) PROVE Opens \/ Sees \/ Closes \/ Keeps
    <2>1. CASE PurgeFree(p)
      <3>1. UNCHANGED <<last, late, haLock>> /\ (UNCHANGED hdrs \/ hdrs' = Dropped(p)) /\ pc[p] = "pg_free"
        BY <2>1 DEF PurgeFree
      <3> QED
        BY <3>1, ReadableDrop, SameHdrs
    <2>2. CASE PurgeFreeTimeout(p)
      BY <2>2, ReadableDrop DEF PurgeFreeTimeout, locks
    <2>3. CASE PurgeLock(p) \/ PurgeReturn(p)
      BY <2>3, SameHdrs DEF PurgeLock, PurgeReturn, base
    <2> QED
      BY <1>13, <2>1, <2>2, <2>3, ReadableOpen, ReadableSee, ReadableClose DEF PurgeStep
  <1>14. ASSUME NEW p \in Proc, CloseBase(p) PROVE Keeps
    BY <1>14, SameHdrs DEF CloseBase, base
  <1> QED
    BY <1>2, <1>9, <1>10, <1>11, <1>12, <1>13, <1>14, ReadableMark DEF Next

LEMMA InitTexts == ASSUME Init PROVE T!Init
  <1>1. Readable = {} /\ Late = {} /\ haLock = None /\ last = 0
    BY DEF Init, Readable, Late
  <1>2. ASSUME NEW R, R = {} PROVE TextsIn(R) = T!Nobody
    <2>1. {h.num : h \in R} = {}
      BY <1>2
    <2> QED
      BY <2>1 DEF TextsIn, T!Nobody
  <1> QED
    BY <1>1, <1>2 DEF T!Init

LEMMA NextTexts ==
  ASSUME Kinds, Kinds', BoxRight, BoxRight', [Next]_vars
  PROVE  [T!Next]_(T!vars)
  <1>0. last \in Nat /\ texts \in Nat /\ texts <= MaxTexts /\ MaxTexts \in Nat /\ Numbers
    BY SmbStoreAssumption DEF Kinds, Types
  <1> DEFINE Alone(H) == \A g, h \in H : g.num = h.num => g = h
  <1>1. Alone(Readable) /\ Alone(Late) /\ Alone(Readable \cup Late)
    BY <1>0 DEF Numbers, Readable, Late
  <1>2. Alone(Readable') /\ Alone(Late')
    <2>1. Alone(hdrs')
      BY DEF Kinds, Numbers
    <2>2. Readable' \subseteq hdrs' /\ Late' \subseteq hdrs'
      BY DEF Readable, Late
    <2> QED
      BY <2>1, <2>2
  <1>3. Box = BoxOf(Readable) /\ Box' = BoxOf(Readable') /\ Unsure = BoxOf(Late) /\ Unsure' = BoxOf(Late')
    BY DEF BoxRight
  <1>4. CASE Keeps
    <2>1. Box' = Box /\ Unsure' = Unsure /\ last' = last /\ haLock' = haLock
      BY <1>3, <1>4 DEF Keeps
    <2> QED
      BY <2>1 DEF Box, Unsure, T!vars
  <1>5. CASE Takes
    <2>1. PICK h \in Readable, k \in HdrsOf :
            /\ k.num = h.num /\ k.txt = h.txt /\ Readable' = Readable \ {h}
            /\ Late' = IF haLock = None THEN Late ELSE Late \cup {k}
      BY <1>5 DEF Takes
    <2>2. UNCHANGED <<last, haLock>>
      BY <1>5 DEF Takes
    <2>3. Box' = T!Without(Box, h.num)
      BY <1>1, <1>3, <2>1, BoxShrinks
    <2>4. h.num \in DOMAIN Box /\ Box[h.num] = h.txt
      BY <1>1, <1>3, BoxAt
    <2>5. Unsure' = IF haLock # None THEN T!With(Unsure, h.num, Box[h.num]) ELSE Unsure
      <3>1. CASE haLock = None
        BY <1>3, <2>1, <3>1
      <3>2. CASE haLock # None
        <4>1. k \notin Late
          <5>1. h.num \notin late
            BY <1>0 DEF Numbers, Readable
          <5> QED
            BY <2>1, <5>1 DEF Late
        <4>2. PICK R, S : R = Late /\ S = Late'
          OBVIOUS
        <4>3. k \in S /\ k \notin R /\ (\A g : g \in S <=> g \in R \/ g = k) /\ Alone(S)
          BY <1>2, <2>1, <3>2, <4>1, <4>2
        <4>4. BoxOf(S) = T!With(BoxOf(R), k.num, k.txt)
          BY <4>3, BoxGrows
        <4> QED
          BY <1>3, <2>1, <2>4, <3>2, <4>2, <4>4
      <3> QED
        BY <3>1, <3>2
    <2>6. \E n \in DOMAIN Box : /\ Box' = T!Without(Box, n)
                                /\ Unsure' = IF haLock # None THEN T!With(Unsure, n, Box[n]) ELSE Unsure
      BY <2>3, <2>4, <2>5
    <2> QED
      BY <2>2, <2>6 DEF Box, Unsure, T!Next, T!Delete
  <1>6. CASE Adds
    <2>1. PICK k \in HdrsOf : /\ k \notin hdrs /\ k.num = last + 1 /\ k.txt \in 1..texts
                              /\ Readable' = Readable \cup {k}
      BY <1>6 DEF Adds
    <2>2. last' = last + 1 /\ haLock = None /\ haLock' = haLock /\ Unsure' = Unsure
      BY <1>3, <1>6 DEF Adds
    <2>3. Box' = T!With(Box, k.num, k.txt)
      <3>1. k \notin Readable
        BY <2>1 DEF Readable
      <3>2. PICK R, S : R = Readable /\ S = Readable'
        OBVIOUS
      <3>3. k \in S /\ k \notin R /\ (\A h : h \in S <=> h \in R \/ h = k) /\ Alone(S)
        BY <1>2, <2>1, <3>1, <3>2
      <3>4. BoxOf(S) = T!With(BoxOf(R), k.num, k.txt)
        BY <3>3, BoxGrows
      <3> QED
        BY <1>3, <3>2, <3>4
    <2>4. k.txt \in 1..MaxTexts
      BY <1>0, <2>1
    <2>5. \E t \in 1..MaxTexts : Box' = T!With(Box, last', t)
      BY <2>1, <2>2, <2>3, <2>4
    <2> QED
      BY <2>2, <2>5 DEF Box, Unsure, T!Next, T!Post
  <1>7. CASE Opens
    <2>1. Box' = Box /\ Unsure' = Unsure /\ last' = last /\ haLock = None /\ haLock' # None
      BY <1>3, <1>7 DEF Opens
    <2> QED
      BY <2>1 DEF Box, Unsure, T!Next, T!BeginCleaning
  <1>8. CASE Sees
    <2>1. PICK h \in Late : Late' = Late \ {h} /\ Readable' = Readable /\ last' = last /\ haLock' = haLock
      BY <1>8 DEF Sees
    <2>2. Unsure' = T!Without(Unsure, h.num)
      BY <1>1, <1>3, <2>1, BoxShrinks
    <2>3. h.num \in DOMAIN Unsure
      BY <1>1, <1>3, BoxAt
    <2>4. (\E n \in DOMAIN Unsure : Unsure' = T!Without(Unsure, n)) /\ Box' = Box
      BY <1>3, <2>1, <2>2, <2>3
    <2> QED
      BY <2>1, <2>4 DEF Box, Unsure, T!Next, T!SeeDeleted
  <1>9. CASE Closes
    <2>1. last' = last /\ haLock # None /\ haLock' = None /\ Again(Readable', Readable \cup Late) /\ Late' = {}
      BY <1>9 DEF Closes
    <2>2. Box' = [n \in DOMAIN Box \cup DOMAIN Unsure |-> IF n \in DOMAIN Box THEN Box[n] ELSE Unsure[n]]
      <3>1. PICK R, L, S : R = Readable /\ L = Late /\ S = Readable'
        OBVIOUS
      <3>2. Again(S, R \cup L) /\ Alone(R \cup L) /\ Alone(S)
        BY <1>1, <1>2, <2>1, <3>1
      <3>3. BoxOf(S) = Joined(BoxOf(R), BoxOf(L))
        BY <3>2, BoxJoins
      <3>4. BoxOf(R) = Box /\ BoxOf(L) = Unsure /\ BoxOf(S) = Box'
        BY <1>3, <3>1
      <3> QED
        BY <3>3, <3>4 DEF Joined
    <2>3. Unsure' = T!Nobody
      <3>1. {h.num : h \in {}} = {}
        OBVIOUS
      <3> QED
        BY <1>3, <2>1, <3>1 DEF BoxOf, T!Nobody
    <2> QED
      BY <2>1, <2>2, <2>3 DEF Box, Unsure, T!Next, T!EndCleaning
  <1> QED
    BY <1>4, <1>5, <1>6, <1>7, <1>8, <1>9, ReadableNext

\* The store of counted blocks, with texts allocated, shared, counted, freed and
\* cut off, is the abstract message base to its readers: what a header points to
\* is what was posted until the message is marked, and a mark is lost to nothing
\* but a purge that had the base open when it was made.
THEOREM TextsRefined ==
  ASSUME QuietBase
  PROVE  Spec /\ []Roomy => ImplementsTexts
  <1>1. Init => T!Init
    BY InitTexts
  <1>2. Kinds /\ StoreInv => BoxRight
    BY BoxIs
  <1>3. Kinds /\ Kinds' /\ BoxRight /\ BoxRight' /\ [Next]_vars => [T!Next]_(T!vars)
    BY NextTexts
  <1>4. Spec => []Kinds
    BY KindsKept
  <1>5. Spec /\ []Roomy => []StoreInv
    BY BlocksSound
  <1> QED
    BY <1>1, <1>2, <1>3, <1>4, <1>5, PTL DEF Spec, ImplementsTexts, T!Spec

=============================================================================
