---------------------------- MODULE Xmodem_proofs ----------------------------
(***************************************************************************)
(* Proofs about Xmodem: type correctness, the file written is the one      *)
(* sent, and the two programs are a stop-and-wait transfer, for files,     *)
(* block numbers and faults without bound.                                 *)
(***************************************************************************)
EXTENDS Xmodem, SequenceTheorems, TLAPS

-----------------------------------------------------------------------------
(* Block numbers modulo BlockMod, and parts of a sequence.                  *)

LEMMA Division ==
  ASSUME NEW n \in Int, NEW m \in Int, m > 0
  PROVE  /\ n = m * (n \div m) + (n % m)
         /\ n \div m \in Int /\ n % m \in Int
  BY Z3

\* Two blocks in a row never have the same number on the line.
LEMMA NextDiffers ==
  ASSUME NEW n \in Nat, NEW m \in Nat, m > 1 PROVE (n + 1) % m # n % m
  <1> DEFINE a == n \div m   b == (n + 1) \div m   r == n % m   s == (n + 1) % m
  <1>1. n = m * a + r /\ a \in Int /\ r \in Int
    BY Division
  <1>2. n + 1 = m * b + s /\ b \in Int /\ s \in Int
    BY Division
  <1> HIDE DEF a, b, r, s
  <1>3. SUFFICES ASSUME s = r PROVE FALSE
    BY DEF r, s
  <1>4. m * b - m * a = 1
    BY <1>1, <1>2, <1>3
  <1>5. m * (b - a) = 1
    BY <1>1, <1>2, <1>4
  <1>6. b - a >= 1
    BY <1>1, <1>2, <1>5
  <1> QED
    BY <1>1, <1>2, <1>5, <1>6

LEMMA NumberType == ASSUME NEW n \in Nat PROVE n % BlockMod \in Nat
  BY XmodemAssumption

\* t is s with some items left out.
Sub(s, t) ==
    \E f \in [1..Len(t) -> 1..Len(s)] :
        /\ \A i, j \in 1..Len(t) : i < j => f[i] < f[j]
        /\ \A i \in 1..Len(t) : t[i] = s[f[i]]

LEMMA SubSame == ASSUME NEW S, NEW s \in Seq(S) PROVE Sub(s, s)
  <1> DEFINE f == [i \in 1..Len(s) |-> i]
  <1>1. f \in [1..Len(s) -> 1..Len(s)]
    OBVIOUS
  <1>2. \A i, j \in 1..Len(s) : i < j => f[i] < f[j]
    OBVIOUS
  <1>3. \A i \in 1..Len(s) : s[i] = s[f[i]]
    OBVIOUS
  <1> QED
    BY <1>1, <1>2, <1>3 DEF Sub

LEMMA SubDrained ==
  ASSUME NEW S, NEW s \in Seq(S), NEW t, Drained(s, t)
  PROVE  t \in Seq(S) /\ Sub(s, t)
  <1>1. PICK k \in 0..Len(s) : t = SubSeq(s, k + 1, Len(s))
    BY DEF Drained
  <1>2. /\ t \in Seq(S) /\ Len(t) = Len(s) - k /\ Len(s) \in Nat
        /\ \A i \in 1..(Len(s) - k) : t[i] = s[k + i] /\ k + i \in 1..Len(s)
    BY <1>1
  <1> DEFINE f == [i \in 1..Len(t) |-> k + i]
  <1>3. f \in [1..Len(t) -> 1..Len(s)]
    BY <1>2
  <1>4. \A i, j \in 1..Len(t) : i < j => f[i] < f[j]
    BY <1>2
  <1>5. \A i \in 1..Len(t) : t[i] = s[f[i]]
    BY <1>2
  <1> HIDE DEF f
  <1> QED
    BY <1>2, <1>3, <1>4, <1>5 DEF Sub

LEMMA DrainedTail ==
  ASSUME NEW S, NEW s \in Seq(S), s # <<>>
  PROVE  Drained(s, Tail(s))
  <1>1. Tail(s) = SubSeq(s, 2, Len(s)) /\ 1 \in 0..Len(s)
    OBVIOUS
  <1> QED
    BY <1>1 DEF Drained

LEMMA SubTail ==
  ASSUME NEW S, NEW s \in Seq(S), s # <<>>
  PROVE  Tail(s) \in Seq(S) /\ Sub(s, Tail(s))
  BY DrainedTail, SubDrained

LEMMA SubTrans ==
  ASSUME NEW s, NEW t, NEW u, Sub(s, t), Sub(t, u),
         Len(s) \in Nat, Len(t) \in Nat, Len(u) \in Nat
  PROVE  Sub(s, u)
  <1>1. PICK f \in [1..Len(t) -> 1..Len(s)] :
            /\ \A i, j \in 1..Len(t) : i < j => f[i] < f[j]
            /\ \A i \in 1..Len(t) : t[i] = s[f[i]]
    BY DEF Sub
  <1>2. PICK g \in [1..Len(u) -> 1..Len(t)] :
            /\ \A i, j \in 1..Len(u) : i < j => g[i] < g[j]
            /\ \A i \in 1..Len(u) : u[i] = t[g[i]]
    BY DEF Sub
  <1> DEFINE h == [i \in 1..Len(u) |-> f[g[i]]]
  <1>3. h \in [1..Len(u) -> 1..Len(s)]
    BY <1>1, <1>2
  <1>4. \A i, j \in 1..Len(u) : i < j => h[i] < h[j]
    BY <1>1, <1>2
  <1>5. \A i \in 1..Len(u) : u[i] = s[h[i]]
    BY <1>1, <1>2
  <1> HIDE DEF h
  <1> QED
    BY <1>3, <1>4, <1>5 DEF Sub

LEMMA SubRemoved ==
  ASSUME NEW S, NEW s \in Seq(S), NEW k \in 1..Len(s)
  PROVE  RemoveAt(s, k) \in Seq(S) /\ Sub(s, RemoveAt(s, k))
  <1> DEFINE a == SubSeq(s, 1, k - 1)
             b == SubSeq(s, k + 1, Len(s))
             t == a \o b
             f == [i \in 1..(Len(s) - 1) |-> IF i < k THEN i ELSE i + 1]
  <1>1. k \in Nat /\ k >= 1 /\ k <= Len(s) /\ Len(s) \in Nat
    OBVIOUS
  <1>2. a \in Seq(S) /\ Len(a) = k - 1 /\ \A i \in 1..(k - 1) : a[i] = s[i]
    BY <1>1
  <1>3. b \in Seq(S) /\ Len(b) = Len(s) - k /\ \A i \in 1..(Len(s) - k) : b[i] = s[k + i]
    BY <1>1
  <1>4. RemoveAt(s, k) = t
    BY DEF RemoveAt
  <1> HIDE DEF a, b
  <1>5. /\ t \in Seq(S) /\ Len(t) = Len(a) + Len(b)
        /\ \A i \in 1..(Len(a) + Len(b)) : t[i] = IF i <= Len(a) THEN a[i] ELSE b[i - Len(a)]
    BY <1>2, <1>3, ConcatProperties
  <1> HIDE DEF t
  <1>6. Len(t) = Len(s) - 1
    BY <1>1, <1>2, <1>3, <1>5
  <1>7. \A i \in 1..Len(t) : t[i] = s[f[i]]
    <2> TAKE i \in 1..Len(t)
    <2>1. CASE i < k
      BY <1>1, <1>2, <1>3, <1>5, <1>6, <2>1
    <2>2. CASE ~(i < k)
      <3>1. i - (k - 1) \in 1..(Len(s) - k) /\ k + (i - (k - 1)) = i + 1
        BY <1>1, <1>6, <2>2
      <3>2. t[i] = b[i - (k - 1)]
        BY <1>1, <1>2, <1>3, <1>5, <1>6, <2>2
      <3>3. f[i] = i + 1
        BY <1>6, <2>2
      <3> QED
        BY <1>3, <3>1, <3>2, <3>3
    <2> QED
      BY <2>1, <2>2
  <1>8. f \in [1..Len(t) -> 1..Len(s)]
    BY <1>1, <1>6
  <1>9. \A i, j \in 1..Len(t) : i < j => f[i] < f[j]
    BY <1>1, <1>6
  <1> HIDE DEF f
  <1> QED
    BY <1>4, <1>5, <1>7, <1>8, <1>9 DEF Sub

LEMMA AppendedAt ==
  ASSUME NEW S, NEW s \in Seq(S), NEW x \in S
  PROVE  /\ Append(s, x) \in Seq(S) /\ Len(Append(s, x)) = Len(s) + 1 /\ Len(s) \in Nat
         /\ \A i \in 1..Len(s) : Append(s, x)[i] = s[i]
         /\ Append(s, x)[Len(s) + 1] = x
  OBVIOUS

-----------------------------------------------------------------------------
(* Types.  The counters of the loops are bounded by where the loops are.    *)

Blocks == [what : {"header", "data", "last"}, n : Nat, from : Nat, len : Nat, crc : BOOLEAN, ok : BOOLEAN]
Controls == [what : {"CAN", "EOT", "junk"}]
Items == Blocks \cup Controls
Answers == {"ACK", "NAK", "C", "CAN", "junk"}

LineKinds ==
    /\ proto \in {"X", "Y"} /\ flen \in Nat /\ faults \in 0..MaxFaults /\ spoilt \in BOOLEAN
    /\ fwd \in Seq(Items) /\ back \in Seq(Answers)

SenderKinds ==
    /\ spc \in Modes /\ sphase \in {"header", "data", "end"} /\ scrc \in BOOLEAN
    /\ size \in {1, BigLen} /\ sent \in 0..flen /\ bnum \in Nat \ {0}
    /\ serr \in 0..MaxErrors /\ stry \in 0..(MaxErrors + AckTries) /\ sok \in BOOLEAN
    /\ spc \in {"idle", "mode", "eot", "eotack"} => stry <= MaxErrors
    /\ spc = "ack" => stry < AckTries
    /\ proto = "X" => sphase = "data"

ReceiverKinds ==
    /\ rpc \in {"idle", "ask", "get", "over", "failed"} /\ rphase \in {"header", "data"}
    /\ rcrc \in BOOLEAN /\ rnum \in Nat \ {0}
    /\ rerr \in 0..(MaxErrors + 1) /\ gerr \in 0..MaxErrors /\ eot \in BOOLEAN
    /\ written \in Seq(Nat) /\ extra \in {0, 1} /\ rok \in BOOLEAN
    /\ rpc \in {"idle", "ask", "get"} => rerr <= MaxErrors
    /\ proto = "X" => rphase = "data"

Kinds == LineKinds /\ SenderKinds /\ ReceiverKinds

LEMMA KindsType == Kinds => TypeOK
  BY XmodemAssumption DEF Kinds, LineKinds, SenderKinds, ReceiverKinds, TypeOK, Modes

LEMMA Counts ==
  ASSUME Kinds
  PROVE  /\ size \in Nat /\ size >= 1 /\ sent \in Nat /\ sent <= flen /\ flen \in Nat
         /\ bnum \in Nat /\ bnum >= 1 /\ rnum \in Nat
  <1>1. BigLen \in Nat /\ BigLen > 1
    BY XmodemAssumption
  <1>2. flen \in Nat
    BY DEF Kinds, LineKinds
  <1>3. size \in {1, BigLen} /\ sent \in 0..flen /\ bnum \in Nat \ {0}
    BY DEF Kinds, SenderKinds
  <1>4. rnum \in Nat
    BY DEF Kinds, ReceiverKinds
  <1> QED
    BY <1>1, <1>2, <1>3, <1>4

LEMMA BlockType ==
  ASSUME NEW w \in {"header", "data", "last"}, NEW n \in Nat, NEW from \in Nat, NEW len \in Nat, Kinds
  PROVE  Block(w, n, from, len) \in Items
  BY NumberType DEF Block, Items, Blocks, Kinds, SenderKinds

LEMMA ControlType == ASSUME NEW c \in {"CAN", "EOT", "junk"} PROVE Control(c) \in Items
  BY DEF Control, Items, Controls

LEMMA TimeoutType ==
  ASSUME Kinds, NEW quiet, Timeout(quiet) PROVE faults' \in 0..MaxFaults
  BY XmodemAssumption DEF Timeout, Kinds, LineKinds

LEMMA SenderFrame ==
  ASSUME Kinds, UNCHANGED <<svars, proto, flen>> PROVE SenderKinds'
  BY DEF Kinds, SenderKinds, svars

LEMMA ReceiverFrame ==
  ASSUME Kinds, UNCHANGED <<rvars, proto, flen>> PROVE ReceiverKinds'
  BY DEF Kinds, ReceiverKinds, rvars

LEMMA InitKinds == ASSUME Init PROVE Kinds
  <1>0. spoilt \in BOOLEAN /\ scrc \in BOOLEAN /\ sok \in BOOLEAN /\ eot \in BOOLEAN /\ rok \in BOOLEAN
    BY Zenon DEF Init
  <1>1. LineKinds
    BY XmodemAssumption, <1>0 DEF Init, LineKinds
  <1>2. SenderKinds
    BY XmodemAssumption, <1>0, <1>1 DEF Init, SenderKinds, LineKinds, Modes
  <1>3. ReceiverKinds
    BY XmodemAssumption, <1>0 DEF Init, ReceiverKinds
  <1> QED
    BY <1>1, <1>2, <1>3 DEF Kinds

(* The routines the sender's actions are made of.                           *)

LEMMA FailKinds ==
  ASSUME Kinds, Fail, UNCHANGED <<proto, flen>>
  PROVE  SenderKinds' /\ fwd' \in Seq(Items)
  <1>1. fwd' \in Seq(Items)
    BY ControlType DEF Fail, Kinds, LineKinds
  <1>2. SenderKinds'
    BY DEF Fail, Kinds, SenderKinds, Modes
  <1> QED
    BY <1>1, <1>2

LEMMA LeaveKinds ==
  ASSUME Kinds, Leave, UNCHANGED <<proto, flen>>
  PROVE  SenderKinds' /\ fwd' \in Seq(Items)
  BY DEF Leave, Kinds, LineKinds, SenderKinds, Modes

LEMMA ModeErrorKinds ==
  ASSUME Kinds, spc = "mode", ModeError, UNCHANGED <<proto, flen>>
  PROVE  SenderKinds' /\ fwd' \in Seq(Items)
  <1>1. CASE stry < MaxErrors
    BY <1>1, XmodemAssumption DEF ModeError, Kinds, LineKinds, SenderKinds, Modes
  <1>2. CASE ~(stry < MaxErrors) /\ sphase = "end"
    BY <1>2, LeaveKinds DEF ModeError
  <1>3. CASE ~(stry < MaxErrors) /\ sphase # "end"
    BY <1>3, FailKinds DEF ModeError
  <1> QED
    BY <1>1, <1>2, <1>3

LEMMA AckedKinds ==
  ASSUME Kinds, spc = "ack", Acked, UNCHANGED <<proto, flen>>
  PROVE  SenderKinds' /\ fwd' \in Seq(Items)
  <1>1. fwd' \in Seq(Items) /\ flen \in Nat
    BY DEF Acked, Kinds, LineKinds
  <1>2. size \in Nat /\ sent \in 0..flen
    BY XmodemAssumption DEF Kinds, SenderKinds
  <1>3. sent' \in 0..flen
    BY <1>1, <1>2 DEF Acked, Smaller
  <1>4. bnum' \in Nat \ {0}
    BY DEF Acked, Kinds, SenderKinds
  <1>5. stry' \in 0..(MaxErrors + AckTries) /\ stry' <= MaxErrors /\ stry' < AckTries
    BY XmodemAssumption DEF Acked
  <1>6. spc' \in Modes /\ sphase' \in {"header", "data", "end"} /\ (proto' = "X" => sphase' = "data")
    BY DEF Acked, Kinds, SenderKinds, Modes
  <1> QED
    BY <1>1, <1>3, <1>4, <1>5, <1>6 DEF Acked, Kinds, SenderKinds

LEMMA NotAckedKinds ==
  ASSUME Kinds, spc = "ack", NotAcked, UNCHANGED <<proto, flen>>
  PROVE  SenderKinds' /\ fwd' \in Seq(Items) /\ spoilt' \in BOOLEAN
  <1>1. CASE sphase = "end"
    BY <1>1, LeaveKinds DEF NotAcked, Kinds, LineKinds
  <1>2. CASE sphase # "end" /\ serr >= MaxErrors
    BY <1>2, FailKinds DEF NotAcked, Kinds, LineKinds
  <1>3. CASE sphase # "end" /\ ~(serr >= MaxErrors)
    <2>1. /\ serr' = serr + 1 /\ spc' = "send" /\ size' = (IF FallsBack THEN 1 ELSE size)
          /\ spoilt' = (spoilt \/ (FallsBack /\ FirstIn))
          /\ UNCHANGED <<sphase, scrc, sent, bnum, stry, sok, fwd>>
      BY <1>3 DEF NotAcked
    <2>2. size' \in {1, BigLen} /\ spoilt' \in BOOLEAN
      BY <2>1 DEF Kinds, SenderKinds
    <2>3. serr' \in 0..MaxErrors
      BY <1>3, <2>1, XmodemAssumption DEF Kinds, SenderKinds
    <2> QED
      BY <2>1, <2>2, <2>3 DEF Kinds, SenderKinds, LineKinds, Modes
  <1> QED
    BY <1>1, <1>2, <1>3

LEMMA EotErrorKinds ==
  ASSUME Kinds, spc = "eotack", EotError, UNCHANGED <<proto, flen>>
  PROVE  SenderKinds' /\ fwd' \in Seq(Items)
  <1>1. CASE stry < MaxErrors
    BY <1>1, XmodemAssumption DEF EotError, Kinds, LineKinds, SenderKinds, Modes
  <1>2. CASE ~(stry < MaxErrors)
    BY <1>2, FailKinds DEF EotError
  <1> QED
    BY <1>1, <1>2

(* The sender's actions.                                                    *)

\* What an action of the sender owes, its own variables apart.
LEMMA SenderActs ==
  ASSUME Kinds, UNCHANGED <<proto, flen, rvars>>, SenderKinds', fwd' \in Seq(Items),
         back' \in Seq(Answers), faults' \in 0..MaxFaults, spoilt' \in BOOLEAN
  PROVE  Kinds'
  BY ReceiverFrame DEF Kinds, LineKinds

LEMMA Heard ==
  ASSUME Kinds, back # <<>> PROVE Tail(back) \in Seq(Answers) /\ Head(back) \in Answers
  BY DEF Kinds, LineKinds

LEMMA SendStartKinds == ASSUME Kinds, SendStart PROVE Kinds'
  <1>1. SenderKinds'
    BY DEF SendStart, Kinds, SenderKinds, Modes, config
  <1> QED
    BY <1>1, SenderActs DEF SendStart, Kinds, LineKinds, config, wire, history

LEMMA ModeGetKinds == ASSUME Kinds, ModeGet PROVE Kinds'
  <1>1. UNCHANGED <<proto, flen>> /\ spc = "mode"
    BY DEF ModeGet, config
  <1>2. SenderKinds' /\ fwd' \in Seq(Items)
    <2>1. CASE /\ Head(back) \in {"C", "NAK"}
               /\ scrc' = (Head(back) = "C")
               /\ spc' = "send" /\ serr' = 0 /\ stry' = 0
               /\ UNCHANGED <<sphase, size, sent, bnum, sok, fwd>>
      BY <1>1, <2>1, XmodemAssumption DEF Kinds, LineKinds, SenderKinds, Modes
    <2>2. CASE Leave
      BY <1>1, <2>2, LeaveKinds
    <2>3. CASE Fail
      BY <1>1, <2>3, FailKinds
    <2>4. CASE ModeError
      BY <1>1, <2>4, ModeErrorKinds
    <2> QED
      BY <2>1, <2>2, <2>3, <2>4 DEF ModeGet
  <1> QED
    BY <1>1, <1>2, SenderActs, Heard DEF ModeGet, Kinds, LineKinds, config, history

LEMMA ModeTimeoutKinds == ASSUME Kinds, ModeTimeout PROVE Kinds'
  <1>1. UNCHANGED <<proto, flen, rvars, back, spoilt>> /\ faults' \in 0..MaxFaults
    BY TimeoutType DEF ModeTimeout, config
  <1>2. SenderKinds' /\ fwd' \in Seq(Items)
    BY <1>1, ModeErrorKinds DEF ModeTimeout
  <1> QED
    BY <1>1, <1>2, SenderActs DEF Kinds, LineKinds

LEMMA SendHeaderKinds == ASSUME Kinds, SendHeader PROVE Kinds'
  <1>1. UNCHANGED <<proto, flen, rvars, faults, spoilt>>
    BY DEF SendHeader, config
  <1>2. back' \in Seq(Answers)
    BY SubDrained DEF SendHeader, Kinds, LineKinds
  <1>3. fwd' \in Seq(Items)
    BY BlockType, AppendedAt DEF SendHeader, Kinds, LineKinds
  <1>4. SenderKinds'
    BY <1>1, XmodemAssumption DEF SendHeader, Kinds, SenderKinds, Modes
  <1> QED
    BY <1>1, <1>2, <1>3, <1>4, SenderActs DEF Kinds, LineKinds

LEMMA SendBlockKinds == ASSUME Kinds, SendBlock PROVE Kinds'
  <1>1. UNCHANGED <<proto, flen, rvars, back, faults, spoilt>>
    BY DEF SendBlock, config, history
  <1>2. size' \in {1, BigLen} /\ size' \in Nat /\ sent \in Nat /\ bnum \in Nat
    BY XmodemAssumption DEF SendBlock, SizeFor, Kinds, SenderKinds, LineKinds
  <1>3. fwd' \in Seq(Items)
    BY <1>2, BlockType, AppendedAt DEF SendBlock, Kinds, LineKinds
  <1>4. SenderKinds'
    BY <1>1, <1>2, XmodemAssumption DEF SendBlock, Kinds, SenderKinds, Modes
  <1> QED
    BY <1>1, <1>3, <1>4, SenderActs DEF Kinds, LineKinds

LEMMA SendsAllKinds == ASSUME Kinds, SendsAll PROVE Kinds'
  <1>1. SenderKinds'
    BY XmodemAssumption DEF SendsAll, Kinds, SenderKinds, Modes, config
  <1> QED
    BY <1>1, SenderActs DEF SendsAll, Kinds, LineKinds, config, wire, history

LEMMA SendLastKinds == ASSUME Kinds, SendLast PROVE Kinds'
  <1>1. UNCHANGED <<proto, flen, rvars, back, faults, spoilt>>
    BY DEF SendLast, config, history
  <1>2. fwd' \in Seq(Items)
    BY BlockType, AppendedAt DEF SendLast, Kinds, LineKinds
  <1>3. SenderKinds'
    BY <1>1, XmodemAssumption DEF SendLast, Kinds, SenderKinds, Modes
  <1> QED
    BY <1>1, <1>2, <1>3, SenderActs DEF Kinds, LineKinds

LEMMA AckGetKinds == ASSUME Kinds, AckGet PROVE Kinds'
  <1>1. UNCHANGED <<proto, flen, rvars, faults>> /\ spc = "ack" /\ back' \in Seq(Answers)
    BY Heard DEF AckGet, config
  <1>2. SenderKinds' /\ fwd' \in Seq(Items) /\ spoilt' \in BOOLEAN
    <2>1. CASE Acked
      BY <1>1, <2>1, AckedKinds DEF Acked, Kinds, LineKinds
    <2>2. CASE Fail /\ UNCHANGED spoilt
      BY <1>1, <2>2, FailKinds DEF Kinds, LineKinds
    <2>3. CASE NotAcked
      BY <1>1, <2>3, NotAckedKinds
    <2> QED
      BY <2>1, <2>2, <2>3 DEF AckGet
  <1> QED
    BY <1>1, <1>2, SenderActs DEF Kinds, LineKinds

LEMMA AckTimeoutKinds == ASSUME Kinds, AckTimeout PROVE Kinds'
  <1>1. UNCHANGED <<proto, flen, rvars, back>> /\ spc = "ack" /\ faults' \in 0..MaxFaults
    BY TimeoutType DEF AckTimeout, config
  <1>2. SenderKinds' /\ fwd' \in Seq(Items) /\ spoilt' \in BOOLEAN
    <2>1. CASE /\ stry + 1 < Tries /\ stry' = stry + 1
               /\ UNCHANGED <<spc, sphase, scrc, size, sent, bnum, serr, sok, fwd, spoilt>>
      <3>1. stry' < AckTries /\ stry' \in 0..(MaxErrors + AckTries)
        BY <2>1, XmodemAssumption DEF Tries, Kinds, SenderKinds
      <3> QED
        BY <1>1, <2>1, <3>1 DEF Kinds, SenderKinds, LineKinds
    <2>2. CASE NotAcked
      BY <1>1, <2>2, NotAckedKinds
    <2> QED
      BY <2>1, <2>2 DEF AckTimeout
  <1> QED
    BY <1>1, <1>2, SenderActs DEF Kinds, LineKinds

LEMMA EotSendKinds == ASSUME Kinds, EotSend PROVE Kinds'
  <1>1. UNCHANGED <<proto, flen, rvars, faults, spoilt>>
    BY DEF EotSend, config
  <1>2. back' \in Seq(Answers)
    BY SubDrained DEF EotSend, Kinds, LineKinds
  <1>3. fwd' \in Seq(Items)
    BY ControlType DEF EotSend, Kinds, LineKinds
  <1>4. SenderKinds'
    BY <1>1 DEF EotSend, Kinds, SenderKinds, Modes
  <1> QED
    BY <1>1, <1>2, <1>3, <1>4, SenderActs DEF Kinds, LineKinds

LEMMA EotGetKinds == ASSUME Kinds, EotGet PROVE Kinds'
  <1>1. UNCHANGED <<proto, flen, rvars, faults, spoilt>> /\ spc = "eotack" /\ back' \in Seq(Answers)
    BY Heard DEF EotGet, config, history
  <1>2. SenderKinds' /\ fwd' \in Seq(Items)
    <2>1. CASE EotAcked
      BY <1>1, <2>1, XmodemAssumption DEF EotAcked, Kinds, LineKinds, SenderKinds, Modes
    <2>2. CASE EotError
      BY <1>1, <2>2, EotErrorKinds
    <2>3. CASE Fail
      BY <1>1, <2>3, FailKinds
    <2> QED
      BY <2>1, <2>2, <2>3 DEF EotGet
  <1> QED
    BY <1>1, <1>2, SenderActs DEF Kinds, LineKinds

LEMMA EotTimeoutKinds == ASSUME Kinds, EotTimeout PROVE Kinds'
  <1>1. UNCHANGED <<proto, flen, rvars, back, spoilt>> /\ spc = "eotack" /\ faults' \in 0..MaxFaults
    BY TimeoutType DEF EotTimeout, config
  <1>2. SenderKinds' /\ fwd' \in Seq(Items)
    BY <1>1, EotErrorKinds DEF EotTimeout
  <1> QED
    BY <1>1, <1>2, SenderActs DEF Kinds, LineKinds

(* The routines the receiver's actions are made of.                         *)

LEMMA RejectKinds ==
  ASSUME Kinds, rpc = "get", NEW out \in Seq(Answers), Reject(out), UNCHANGED <<proto, flen>>
  PROVE  ReceiverKinds' /\ back' \in Seq(Answers)
  <1>1. back' \in Seq(Answers)
    BY DEF Reject, Answers
  <1>2. rerr' \in 0..(MaxErrors + 1) /\ (rpc' # "failed" => rerr' <= MaxErrors)
    BY XmodemAssumption DEF Reject, Kinds, ReceiverKinds
  <1>3. rpc' \in {"ask", "failed"} /\ rcrc' \in BOOLEAN
    BY DEF Reject, Kinds, ReceiverKinds
  <1> QED
    BY <1>1, <1>2, <1>3 DEF Reject, Kinds, ReceiverKinds

LEMMA AgainKinds ==
  ASSUME Kinds, rpc = "get", NEW out \in Seq(Answers), NEW ended \in BOOLEAN, Again(out, ended),
         UNCHANGED <<proto, flen>>
  PROVE  ReceiverKinds' /\ back' \in Seq(Answers)
  <1>1. CASE gerr < MaxErrors
    BY <1>1, XmodemAssumption DEF Again, Kinds, ReceiverKinds
  <1>2. CASE ~(gerr < MaxErrors)
    BY <1>2, RejectKinds DEF Again
  <1> QED
    BY <1>1, <1>2

LEMMA TakeHeaderKinds ==
  ASSUME Kinds, rpc = "get", rphase = "header", NEW b \in Items, TakeHeader(b), UNCHANGED <<proto, flen>>
  PROVE  ReceiverKinds' /\ back' \in Seq(Answers)
  <1>1. back \in Seq(Answers) /\ "ACK" \in Answers /\ "CAN" \in Answers
    BY DEF Kinds, LineKinds, Answers
  <1>2. CASE b.what = "header"
    <2>1. /\ rphase' = "data" /\ rpc' = "ask" /\ rnum' = 1 /\ rerr' = 0
          /\ back' = Append(back, "ACK")
          /\ UNCHANGED <<rcrc, gerr, eot, written, extra, rok>>
      BY <1>2 DEF TakeHeader
    <2> QED
      BY <1>1, <2>1, XmodemAssumption DEF Kinds, ReceiverKinds, LineKinds
  <1>3. CASE b.what = "last"
    <2>1. /\ rpc' = "over" /\ back' = Append(back, "ACK")
          /\ UNCHANGED <<rphase, rcrc, rnum, rerr, gerr, eot, written, extra, rok>>
      BY <1>3 DEF TakeHeader
    <2> QED
      BY <1>1, <2>1 DEF Kinds, ReceiverKinds
  <1>4. CASE b.what \notin {"header", "last"}
    <2>1. back' = back \o <<"ACK", "CAN">> /\ <<"ACK", "CAN">> \in Seq(Answers)
      BY <1>1, <1>4 DEF TakeHeader
    <2>2. back' \in Seq(Answers)
      BY <1>1, <2>1, ConcatProperties
    <2> QED
      BY <1>4, <2>2 DEF TakeHeader, Kinds, ReceiverKinds
  <1> QED
    BY <1>2, <1>3, <1>4

LEMMA ContentsType ==
  ASSUME Kinds, NEW b \in Blocks
  PROVE  Contents(b) \in Seq(Nat) /\ Len(Contents(b)) = b.len
  BY DEF Contents, Blocks, Kinds, LineKinds, Pad

LEMMA FitsType ==
  ASSUME Kinds, NEW s \in Seq(Nat)
  PROVE  /\ Fits(s) \in Seq(Nat)
         /\ Len(Fits(s)) = IF proto = "Y" THEN Smaller(Len(s), flen) ELSE Len(s)
         /\ \A i \in 1..Len(Fits(s)) : Fits(s)[i] = s[i] /\ i \in 1..Len(s)
  <1>1. Smaller(Len(s), flen) \in 0..Len(s) /\ Len(s) \in Nat
    BY DEF Smaller, Kinds, LineKinds
  <1>2. /\ SubSeq(s, 1, Smaller(Len(s), flen)) \in Seq(Nat)
        /\ Len(SubSeq(s, 1, Smaller(Len(s), flen))) = Smaller(Len(s), flen)
        /\ \A i \in 1..Smaller(Len(s), flen) : SubSeq(s, 1, Smaller(Len(s), flen))[i] = s[i]
    BY <1>1
  <1> QED
    BY <1>1, <1>2 DEF Fits

LEMMA TakeDataKinds ==
  ASSUME Kinds, rpc = "get", NEW b \in Blocks, TakeData(b), UNCHANGED <<proto, flen>>
  PROVE  ReceiverKinds' /\ back' \in Seq(Answers)
  <1>1. back' \in Seq(Answers)
    BY DEF TakeData, Kinds, LineKinds, Answers
  <1>2. CASE proto = "Y" /\ Len(written) >= flen
    <2>1. extra' = 1 /\ NextFile /\ UNCHANGED <<rcrc, rnum, gerr, eot, written, rok>>
      BY <1>2 DEF TakeData
    <2> QED
      BY <1>1, <1>2, <2>1, XmodemAssumption DEF NextFile, Kinds, ReceiverKinds
  <1>3. CASE ~(proto = "Y" /\ Len(written) >= flen)
    <2>1. written \in Seq(Nat) /\ Contents(b) \in Seq(Nat)
      BY ContentsType DEF Kinds, ReceiverKinds
    <2>2. written \o Contents(b) \in Seq(Nat)
      BY <2>1, ConcatProperties
    <2>3. written' \in Seq(Nat)
      BY <1>3, <2>2, FitsType DEF TakeData
    <2>4. /\ rnum' = rnum + 1 /\ gerr' = 0 /\ UNCHANGED <<rpc, rphase, rcrc, rerr, extra, rok>>
      BY <1>3 DEF TakeData
    <2>5. eot' \in BOOLEAN
      BY <1>3, Zenon DEF TakeData
    <2> QED
      BY <1>1, <2>3, <2>4, <2>5, XmodemAssumption DEF Kinds, ReceiverKinds
  <1> QED
    BY <1>1, <1>2, <1>3

LEMMA EndOfFileKinds ==
  ASSUME Kinds, rpc = "get", NEW rest \in Seq(Items), EndOfFile(rest), UNCHANGED <<proto, flen>>
  PROVE  ReceiverKinds' /\ back' \in Seq(Answers) /\ fwd' \in Seq(Items)
  <1>1. CASE rphase = "header"
    BY <1>1, RejectKinds DEF EndOfFile, Kinds, LineKinds
  <1>2. CASE rphase # "header"
    <2>1. fwd' \in Seq(Items)
      BY <1>2, SubDrained DEF EndOfFile
    <2>2. back' \in Seq(Answers)
      BY <1>2 DEF EndOfFile, Kinds, LineKinds, Answers
    <2>3. ReceiverKinds'
      BY <1>2, XmodemAssumption DEF EndOfFile, NextFile, Kinds, LineKinds, ReceiverKinds
    <2> QED
      BY <2>1, <2>2, <2>3
  <1> QED
    BY <1>1, <1>2

(* The receiver's actions and the line.                                     *)

\* What an action of the receiver owes, its own variables apart.
LEMMA ReceiverActs ==
  ASSUME Kinds, UNCHANGED <<proto, flen, svars>>, ReceiverKinds', fwd' \in Seq(Items),
         back' \in Seq(Answers), faults' \in 0..MaxFaults, spoilt' \in BOOLEAN
  PROVE  Kinds'
  BY SenderFrame DEF Kinds, LineKinds

LEMMA Received ==
  ASSUME Kinds, fwd # <<>> PROVE Tail(fwd) \in Seq(Items) /\ Head(fwd) \in Items
  BY DEF Kinds, LineKinds

LEMMA RequestType == Request \in Answers
  BY DEF Request, Answers

LEMMA RecvStartKinds == ASSUME Kinds, RecvStart PROVE Kinds'
  <1>1. UNCHANGED <<proto, flen, svars, back, faults, spoilt>>
    BY DEF RecvStart, config, history
  <1>2. fwd' \in Seq(Items)
    BY SubDrained DEF RecvStart, Kinds, LineKinds
  <1>3. ReceiverKinds'
    BY <1>1 DEF RecvStart, Kinds, ReceiverKinds
  <1> QED
    BY <1>1, <1>2, <1>3, ReceiverActs DEF Kinds, LineKinds

LEMMA AskKinds == ASSUME Kinds, Ask PROVE Kinds'
  <1>1. UNCHANGED <<proto, flen, svars, faults, spoilt>>
    BY DEF Ask, config, history
  <1>2. fwd' \in Seq(Items)
    BY SubDrained DEF Ask, Kinds, LineKinds
  <1>3. back' \in Seq(Answers)
    BY RequestType DEF Ask, Kinds, LineKinds
  <1>4. eot' \in BOOLEAN
    BY Zenon DEF Ask
  <1>5. ReceiverKinds'
    BY <1>1, <1>4, XmodemAssumption DEF Ask, Kinds, ReceiverKinds
  <1> QED
    BY <1>1, <1>2, <1>3, <1>5, ReceiverActs DEF Kinds, LineKinds

LEMMA GetBlockKinds == ASSUME Kinds, GetBlock PROVE Kinds'
  <1>1. UNCHANGED <<proto, flen, svars, faults, spoilt>> /\ rpc = "get" /\ fwd # <<>> /\ fwd' = Tail(fwd)
    BY DEF GetBlock, Arrives, config, history
  <1>2. Head(fwd) \in Blocks
    BY <1>1, Received DEF GetBlock, IsBlock, Items, Controls
  <1>3. ReceiverKinds' /\ back' \in Seq(Answers)
    <2>1. CASE rphase = "header"
      BY <1>1, <1>2, <2>1, TakeHeaderKinds DEF GetBlock, Items
    <2>2. CASE rphase # "header"
      BY <1>1, <1>2, <2>2, TakeDataKinds DEF GetBlock
    <2> QED
      BY <2>1, <2>2
  <1> QED
    BY <1>1, <1>3, ReceiverActs, Received DEF Kinds, LineKinds

LEMMA GetRepeatedKinds == ASSUME Kinds, GetRepeated PROVE Kinds'
  <1>1. UNCHANGED <<proto, flen, svars, faults, spoilt>> /\ rpc = "get" /\ fwd # <<>> /\ fwd' = Tail(fwd)
    BY DEF GetRepeated, Arrives, config, history
  <1>2. back \in Seq(Answers) /\ Again(back, FALSE)
    BY DEF GetRepeated, Kinds, LineKinds
  <1>3. ReceiverKinds' /\ back' \in Seq(Answers)
    BY <1>1, <1>2, AgainKinds
  <1> QED
    BY <1>1, <1>3, ReceiverActs, Received DEF Kinds, LineKinds

LEMMA GetBadKinds == ASSUME Kinds, GetBad PROVE Kinds'
  <1>1. UNCHANGED <<proto, flen, svars, faults, spoilt>> /\ rpc = "get" /\ fwd # <<>> /\ fwd' = Tail(fwd)
    BY DEF GetBad, Arrives, config, history
  <1>2. back \in Seq(Answers) /\ Reject(back)
    BY DEF GetBad, Kinds, LineKinds
  <1>3. ReceiverKinds' /\ back' \in Seq(Answers)
    BY <1>1, <1>2, RejectKinds
  <1> QED
    BY <1>1, <1>3, ReceiverActs, Received DEF Kinds, LineKinds

LEMMA GetEotKinds == ASSUME Kinds, GetEot PROVE Kinds'
  <1>1. UNCHANGED <<proto, flen, svars, faults, spoilt>> /\ rpc = "get" /\ fwd # <<>>
    BY DEF GetEot, Arrives, config, history
  <1>2. Tail(fwd) \in Seq(Items)
    BY <1>1, Received
  <1>3. ReceiverKinds' /\ back' \in Seq(Answers) /\ fwd' \in Seq(Items)
    <2>1. CASE eot
      BY <1>1, <1>2, <2>1, EndOfFileKinds DEF GetEot
    <2>2. CASE ~eot
      <3>1. Append(back, Request) \in Seq(Answers)
        BY RequestType DEF Kinds, LineKinds
      <3>2. Again(Append(back, Request), TRUE) /\ Drained(Tail(fwd), fwd')
        BY <2>2 DEF GetEot
      <3>3. fwd' \in Seq(Items)
        BY <1>2, <3>2, SubDrained
      <3> QED
        BY <1>1, <3>1, <3>2, <3>3, AgainKinds
    <2> QED
      BY <2>1, <2>2
  <1> QED
    BY <1>1, <1>3, ReceiverActs DEF Kinds, LineKinds

LEMMA GetCanKinds == ASSUME Kinds, GetCan PROVE Kinds'
  <1>1. UNCHANGED <<proto, flen, svars, faults, spoilt>> /\ rpc = "get" /\ fwd # <<>> /\ fwd' = Tail(fwd)
    BY DEF GetCan, Arrives, config, history
  <1>2. ReceiverKinds' /\ back' \in Seq(Answers)
    <2>1. CASE rphase = "header"
      BY <1>1, <2>1, RejectKinds DEF GetCan, Kinds, LineKinds
    <2>2. CASE rphase # "header"
      BY <1>1, <2>2 DEF GetCan, Kinds, LineKinds, ReceiverKinds
    <2> QED
      BY <2>1, <2>2
  <1> QED
    BY <1>1, <1>2, ReceiverActs, Received DEF Kinds, LineKinds

LEMMA GetTimeoutKinds == ASSUME Kinds, GetTimeout PROVE Kinds'
  <1>1. UNCHANGED <<proto, flen, svars, spoilt>> /\ rpc = "get" /\ faults' \in 0..MaxFaults
    BY TimeoutType DEF GetTimeout, config
  <1>2. ReceiverKinds' /\ back' \in Seq(Answers) /\ fwd' \in Seq(Items)
    <2>1. CASE eot
      BY <1>1, <2>1, EndOfFileKinds DEF GetTimeout, Kinds, LineKinds
    <2>2. CASE ~eot
      BY <1>1, <2>2, RejectKinds DEF GetTimeout, Kinds, LineKinds
    <2> QED
      BY <2>1, <2>2
  <1> QED
    BY <1>1, <1>2, ReceiverActs DEF Kinds, LineKinds

LEMMA FaultType ==
  ASSUME Kinds, Fault PROVE faults' \in 0..MaxFaults
  BY XmodemAssumption DEF Fault, Kinds, LineKinds

LEMMA LoseKinds == ASSUME Kinds, Lose PROVE Kinds'
  <1>1. UNCHANGED <<proto, flen, svars, rvars, spoilt>> /\ faults' \in 0..MaxFaults
    BY FaultType DEF Lose, config
  <1>2. fwd' \in Seq(Items) /\ back' \in Seq(Answers)
    BY SubRemoved DEF Lose, Kinds, LineKinds
  <1> QED
    BY <1>1, <1>2, SenderFrame, ReceiverFrame DEF Kinds, LineKinds

\* What an item becomes on a bad line.
Garbled(x) == IF IsBlock(x) THEN [x EXCEPT !.ok = FALSE] ELSE Control("junk")

LEMMA GarbledType == ASSUME NEW x \in Items PROVE Garbled(x) \in Items
  BY ControlType DEF Garbled, IsBlock, Items, Blocks, Controls

LEMMA GarbleKinds == ASSUME Kinds, Garble PROVE Kinds'
  <1>1. UNCHANGED <<proto, flen, svars, rvars, spoilt>> /\ faults' \in 0..MaxFaults
    BY FaultType DEF Garble, config
  <1>2. fwd' \in Seq(Items) /\ back' \in Seq(Answers)
    <2>1. ASSUME NEW i \in 1..Len(fwd), fwd' = [fwd EXCEPT ![i] = Garbled(fwd[i])], back' = back
          PROVE  fwd' \in Seq(Items) /\ back' \in Seq(Answers)
      <3>1. fwd \in Seq(Items) /\ Garbled(fwd[i]) \in Items
        BY GarbledType DEF Kinds, LineKinds
      <3> QED
        BY <2>1, <3>1 DEF Kinds, LineKinds
    <2>2. ASSUME NEW i \in 1..Len(back), back' = [back EXCEPT ![i] = "junk"], fwd' = fwd
          PROVE  fwd' \in Seq(Items) /\ back' \in Seq(Answers)
      BY <2>2 DEF Kinds, LineKinds, Answers
    <2> QED
      BY <2>1, <2>2 DEF Garble, Garbled
  <1> QED
    BY <1>1, <1>2, SenderFrame, ReceiverFrame DEF Kinds, LineKinds

LEMMA DisconnectKinds == ASSUME Kinds, Disconnect PROVE Kinds'
  <1>1. UNCHANGED <<proto, flen, wire, svars, rvars, spoilt>> /\ faults' \in 0..MaxFaults
    BY FaultType DEF Disconnect
  <1> QED
    BY <1>1, SenderFrame, ReceiverFrame DEF Kinds, LineKinds, wire

LEMMA HangUpKinds == ASSUME Kinds, HangUp PROVE Kinds'
  <1>1. UNCHANGED <<proto, flen, fwd, back, faults, spoilt>>
    BY DEF HangUp, config, wire, history
  <1>2. LineKinds'
    BY <1>1 DEF Kinds, LineKinds
  <1>3. CASE spc' \in {"over", "failed"} /\ UNCHANGED <<sphase, scrc, size, sent, bnum, serr, stry, sok, rvars>>
    BY <1>1, <1>2, <1>3, ReceiverFrame DEF Kinds, SenderKinds, Modes
  <1>4. CASE rpc' = "failed" /\ UNCHANGED <<svars, rphase, rcrc, rnum, rerr, gerr, eot, written, extra, rok>>
    BY <1>1, <1>2, <1>4, SenderFrame DEF Kinds, ReceiverKinds
  <1> QED
    BY <1>3, <1>4 DEF HangUp

LEMMA StutterKinds == ASSUME Kinds, UNCHANGED vars PROVE Kinds'
  BY SenderFrame, ReceiverFrame DEF vars, config, wire, history, Kinds, LineKinds

LEMMA NextKinds == ASSUME Kinds, [Next]_vars PROVE Kinds'
  BY StutterKinds, SendStartKinds, ModeGetKinds, ModeTimeoutKinds, SendHeaderKinds, SendBlockKinds,
     SendsAllKinds, SendLastKinds, AckGetKinds, AckTimeoutKinds, EotSendKinds, EotGetKinds,
     EotTimeoutKinds, RecvStartKinds, AskKinds, GetBlockKinds, GetRepeatedKinds, GetBadKinds,
     GetEotKinds, GetCanKinds, GetTimeoutKinds, LoseKinds, GarbleKinds, DisconnectKinds, HangUpKinds
     DEF Next, SenderStep, ReceiverStep

\* The two ends and the line keep to their types, and no loop counts its errors
\* past its bound: each routine gives up at max_errors.
THEOREM TransferTypes == Spec => []TypeOK
  <1>1. Init => Kinds
    BY InitKinds
  <1>2. Kinds /\ [Next]_vars => Kinds'
    BY NextKinds
  <1> QED
    BY <1>1, <1>2, KindsType, PTL DEF Spec

-----------------------------------------------------------------------------
(* The exchange: what the two ends and the items between them know of each  *)
(* other as long as block 1 keeps its length.                               *)

Early == {"idle", "mode"}
Late == {"eot", "eotack", "over", "failed"}
Active == {"idle", "ask", "get"}

\* Block b is the one the sender sends and the receiver waits for; or the one
\* before that, which the receiver has.
Current(b) == bnum = rnum /\ b.n = rnum % BlockMod
Former(b) == rnum > 1 /\ b.n = (rnum - 1) % BlockMod

\* The block of which the sender waits for the answer keeps its length.
Fit == proto = "X" /\ size > 1 => sent + size <= flen
Sending == Smaller(size, flen - sent)

\* Where the two ends are: the receiver at most one block ahead, the end of
\* the file seen by it first.
Phases ==
    /\ extra = 0 /\ rnum \in {bnum, bnum + 1}
    /\ rphase = "header" /\ ~rok => sphase = "header"
    /\ sphase = "header" => bnum = 1 /\ rnum = 1 /\ sent = 0 /\ proto = "Y"
    /\ sphase = "end" => sok
    /\ sok => rok
    /\ rok => rnum = bnum /\ (rpc \in Active => rphase = "header")
    /\ eot \/ rok => sphase # "header" /\ sent >= flen /\ (spc \in Late \/ sphase = "end")
    /\ spc \in {"eot", "eotack"} \/ sphase = "end" => sphase # "header" /\ sent >= flen
    /\ spc \in Early /\ sphase # "end" => rnum = 1 /\ bnum = 1

\* What has been written of the file, in units of which the sender counts sent.
Contented ==
    /\ \A i \in 1..Len(written) : written[i] = IF i <= flen THEN i ELSE Pad
    /\ rnum = bnum => Len(written) >= sent /\ (sent < flen => Len(written) = sent)
    /\ rnum = bnum + 1 =>
          /\ sent < flen /\ Fit
          /\ Len(written) >= sent + Sending
          /\ sent + Sending < flen => Len(written) = sent + Sending

\* The sender waits for an ACK that is under way, and there is no other.
Answered ==
    /\ \/ sphase = "header" /\ rphase = "data"
       \/ sphase = "data" /\ (rok \/ rnum = bnum + 1)
       \/ sphase = "end"
    /\ spc \in Early => sphase = "end"

Acks ==
    \A i \in 1..Len(back) : back[i] = "ACK" =>
        Answered /\ (rok \/ \A j \in 1..Len(back) : back[j] = "ACK" => j = i)

\* What may be under way to the receiver, and what may follow what.
ItemOK(x) ==
    /\ x.what = "header" => ~eot /\ ~rok /\ rnum = 1 /\ x.n = 0 % BlockMod /\ (spc \in Early => sphase = "data")
    /\ x.what = "data" =>
         /\ ~eot /\ ~rok /\ sphase = "data" /\ spc \notin Early
         /\ \/ Former(x)
            \/ Current(x) /\ sent < flen /\ (x.ok => x.from = sent /\ x.len = size /\ Fit)
    /\ x.what = "EOT" => sphase # "header" /\ sent >= flen /\ (spc \in Late \/ sphase = "end")
    /\ x.what = "last" => sphase = "end"

PairOK(x, y) ==
    /\ x.what = "data" => y.what # "header"
    /\ x.what = "EOT" => y.what \notin {"header", "data"}
    /\ x.what = "data" /\ y.what = "data" /\ Current(x) => Current(y)

Line ==
    /\ \A i \in 1..Len(fwd) : ItemOK(fwd[i])
    /\ \A i, j \in 1..Len(fwd) : i < j => PairOK(fwd[i], fwd[j])

Exchange == Phases /\ Contented /\ Acks /\ Line

\* A step after which what was said of the items under way still holds.
ItemsKept ==
    /\ \A x \in Items : ItemOK(x) => ItemOK(x)'
    /\ \A x, y \in Items : ItemOK(x) /\ ItemOK(y) /\ PairOK(x, y) => PairOK(x, y)'

LEMMA LineSub ==
  ASSUME Kinds, Kinds', Line, ItemsKept, Sub(fwd, fwd') PROVE Line'
  <1>1. /\ fwd \in Seq(Items) /\ fwd' \in Seq(Items)
        /\ \A i \in 1..Len(fwd) : fwd[i] \in Items
    BY DEF Kinds, LineKinds
  <1>2. PICK f \in [1..Len(fwd') -> 1..Len(fwd)] :
            /\ \A i, j \in 1..Len(fwd') : i < j => f[i] < f[j]
            /\ \A i \in 1..Len(fwd') : fwd'[i] = fwd[f[i]]
    BY DEF Sub
  <1>3. ASSUME NEW i \in 1..Len(fwd') PROVE ItemOK(fwd[i])'
    <2>1. PICK x \in Items : x = fwd[f[i]]
      BY <1>1
    <2>2. ItemOK(x)'
      BY <1>1, <1>2, <2>1 DEF Line, ItemsKept
    <2>3. x = fwd'[i]
      BY <1>2, <2>1
    <2> QED
      BY <2>2, <2>3
  <1>4. ASSUME NEW i \in 1..Len(fwd'), NEW j \in 1..Len(fwd'), i < j PROVE PairOK(fwd[i], fwd[j])'
    <2>1. PICK x \in Items : x = fwd[f[i]]
      BY <1>1
    <2>2. PICK y \in Items : y = fwd[f[j]]
      BY <1>1
    <2>3. ItemOK(x) /\ ItemOK(y) /\ PairOK(x, y)
      BY <1>1, <1>2, <1>4, <2>1, <2>2 DEF Line
    <2>4. PairOK(x, y)'
      BY <2>3 DEF ItemsKept
    <2>5. x = fwd'[i] /\ y = fwd'[j]
      BY <1>2, <2>1, <2>2
    <2> QED
      BY <2>4, <2>5
  <1> QED
    BY <1>3, <1>4 DEF Line

LEMMA LineAppend ==
  ASSUME Kinds, Kinds', Line, ItemsKept, NEW b \in Items, fwd' = Append(fwd, b), ItemOK(b)',
         \A x \in Items : ItemOK(x) => PairOK(x, b)'
  PROVE  Line'
  <1>1. /\ Len(fwd) \in Nat /\ Len(fwd') = Len(fwd) + 1 /\ fwd'[Len(fwd) + 1] = b
        /\ \A i \in 1..Len(fwd) : fwd'[i] = fwd[i] /\ fwd[i] \in Items
    BY AppendedAt DEF Kinds, LineKinds
  <1>2. ASSUME NEW i \in 1..Len(fwd') PROVE ItemOK(fwd[i])'
    <2>1. CASE i = Len(fwd) + 1
      <3>1. b = fwd'[i]
        BY <1>1, <2>1
      <3> QED
        BY <3>1
    <2>2. CASE i \in 1..Len(fwd)
      <3>1. PICK x \in Items : x = fwd[i]
        BY <1>1, <2>2
      <3>2. ItemOK(x)'
        BY <2>2, <3>1 DEF Line, ItemsKept
      <3>3. x = fwd'[i]
        BY <1>1, <2>2, <3>1
      <3> QED
        BY <3>2, <3>3
    <2> QED
      BY <1>1, <2>1, <2>2
  <1>3. ASSUME NEW i \in 1..Len(fwd'), NEW j \in 1..Len(fwd'), i < j PROVE PairOK(fwd[i], fwd[j])'
    <2>1. i \in 1..Len(fwd)
      BY <1>1, <1>3
    <2>2. PICK x \in Items : x = fwd[i]
      BY <1>1, <2>1
    <2>3. x = fwd'[i] /\ ItemOK(x)
      BY <1>1, <2>1, <2>2 DEF Line
    <2>4. CASE j = Len(fwd) + 1
      <3>1. PairOK(x, b)' /\ b = fwd'[j]
        BY <1>1, <2>3, <2>4
      <3> QED
        BY <2>3, <3>1
    <2>5. CASE j \in 1..Len(fwd)
      <3>1. PICK y \in Items : y = fwd[j]
        BY <1>1, <2>5
      <3>2. y = fwd'[j] /\ ItemOK(y) /\ PairOK(x, y)
        BY <1>1, <1>3, <2>1, <2>2, <2>5, <3>1 DEF Line
      <3>3. PairOK(x, y)'
        BY <2>3, <3>2 DEF ItemsKept
      <3> QED
        BY <2>3, <3>2, <3>3
    <2> QED
      BY <1>1, <2>4, <2>5
  <1> QED
    BY <1>2, <1>3 DEF Line

LEMMA AcksSub ==
  ASSUME Kinds, Kinds', Acks, Sub(back, back'), Answered => Answered', rok => rok'
  PROVE  Acks'
  <1>1. PICK f \in [1..Len(back') -> 1..Len(back)] :
            /\ \A i, j \in 1..Len(back') : i < j => f[i] < f[j]
            /\ \A i \in 1..Len(back') : back'[i] = back[f[i]]
    BY DEF Sub
  <1>2. Len(back) \in Nat /\ Len(back') \in Nat
    BY DEF Kinds, LineKinds
  <1>3. ASSUME NEW i \in 1..Len(back'), back'[i] = "ACK",
               ~rok', NEW j \in 1..Len(back'), back'[j] = "ACK"
        PROVE  j = i
    <2>1. f[i] = f[j]
      BY <1>1, <1>3 DEF Acks
    <2> QED
      BY <1>1, <1>2, <2>1
  <1>4. ASSUME NEW i \in 1..Len(back'), back'[i] = "ACK" PROVE Answered'
    BY <1>1, <1>4 DEF Acks
  <1> QED
    BY <1>3, <1>4 DEF Acks

\* Every ACK of t is one of s.
Quieter(s, t) == \A i \in 1..Len(t) : t[i] = "ACK" => i \in 1..Len(s) /\ s[i] = "ACK"

LEMMA QuieterAppend ==
  ASSUME NEW r, NEW s \in Seq(Answers), NEW c \in Answers, c # "ACK", Quieter(r, s)
  PROVE  Quieter(r, Append(s, c))
  <1>1. /\ Len(s) \in Nat /\ Len(Append(s, c)) = Len(s) + 1 /\ Append(s, c)[Len(s) + 1] = c
        /\ \A i \in 1..Len(s) : Append(s, c)[i] = s[i]
    BY AppendedAt
  <1>2. \A i \in 1..(Len(s) + 1) : i \in 1..Len(s) \/ i = Len(s) + 1
    BY <1>1
  <1> QED
    BY <1>1, <1>2 DEF Quieter

LEMMA QuieterSame == ASSUME NEW s PROVE Quieter(s, s)
  BY DEF Quieter

LEMMA AcksQuieter ==
  ASSUME Acks, Quieter(back, back'), Answered => Answered', rok => rok'
  PROVE  Acks'
  <1>1. ASSUME NEW i \in 1..Len(back'), back'[i] = "ACK" PROVE Answered'
    BY <1>1 DEF Acks, Quieter
  <1>2. ASSUME NEW i \in 1..Len(back'), back'[i] = "ACK",
               ~rok', NEW j \in 1..Len(back'), back'[j] = "ACK"
        PROVE  j = i
    BY <1>2 DEF Acks, Quieter
  <1> QED
    BY <1>1, <1>2 DEF Acks

\* The ACK of the block taken just now is the only one.
LEMMA AcksFirst ==
  ASSUME Kinds, Kinds', \A i \in 1..Len(back) : back[i] # "ACK", back' = Append(back, "ACK"), Answered'
  PROVE  Acks'
  <1>1. /\ Len(back) \in Nat /\ Len(back') = Len(back) + 1
        /\ \A i \in 1..Len(back) : back'[i] = back[i]
    BY AppendedAt DEF Kinds, LineKinds, Answers
  <1>2. \A i \in 1..Len(back') : back'[i] = "ACK" => i = Len(back) + 1
    BY <1>1
  <1> QED
    BY <1>2 DEF Acks

\* Once the receiver has the file any number of ACKs may be under way.
LEMMA AcksLater ==
  ASSUME Kinds, Kinds', rok', Answered' PROVE Acks'
  BY DEF Acks

\* Steps that change neither the blocks counted nor what is written.
Still ==
    /\ UNCHANGED <<proto, flen, sphase, size, sent, bnum, sok, rphase, rnum, written, extra, rok>>
    /\ spc' \in Early => spc \in Early
    /\ spc \in Late => spc' \in Late
    /\ spc' \in {"eot", "eotack"} => spc \in {"eot", "eotack"} \/ (sphase # "header" /\ sent >= flen)
    /\ rpc' \in Active => rpc \in Active
    /\ eot' => eot

LEMMA StillKeeps ==
  ASSUME Kinds, Exchange, Still
  PROVE  /\ Phases' /\ Contented' /\ ItemsKept
         /\ Answered => Answered'
         /\ rok => rok'
  <1>1. Phases'
    BY DEF Exchange, Phases, Still
  <1>2. Fit' = Fit /\ Sending' = Sending
    BY DEF Still, Fit, Sending, Smaller
  <1>3. Contented'
    BY <1>2 DEF Exchange, Contented, Still
  <1>4. ASSUME NEW x \in Items, ItemOK(x) PROVE ItemOK(x)'
    BY <1>2, <1>4 DEF ItemOK, Current, Former, Still
  <1>5. ASSUME NEW x \in Items, NEW y \in Items, PairOK(x, y) PROVE PairOK(x, y)'
    BY <1>5 DEF PairOK, Current, Still
  <1>6. Answered => Answered'
    BY DEF Answered, Still
  <1> QED
    BY <1>1, <1>3, <1>4, <1>5, <1>6 DEF ItemsKept, Still

LEMMA StillSub ==
  ASSUME Kinds, Kinds', Exchange, Still, Sub(fwd, fwd'), Sub(back, back') PROVE Exchange'
  BY StillKeeps, LineSub, AcksSub DEF Exchange

LEMMA StillQuieter ==
  ASSUME Kinds, Kinds', Exchange, Still, Sub(fwd, fwd'), Quieter(back, back') PROVE Exchange'
  BY StillKeeps, LineSub, AcksQuieter DEF Exchange

LEMMA CanAppended ==
  ASSUME Kinds, Kinds', Exchange, Still, fwd' = Append(fwd, Control("CAN")), Sub(back, back')
  PROVE  Exchange'
  <1> DEFINE b == Control("CAN")
  <1>1. b \in Items /\ b.what = "CAN"
    BY ControlType DEF Control
  <1> HIDE DEF b
  <1>2. ItemOK(b)'
    BY <1>1 DEF ItemOK
  <1>3. \A x \in Items : ItemOK(x) => PairOK(x, b)'
    BY <1>1 DEF PairOK
  <1>4. Line'
    BY <1>1, <1>2, <1>3, StillKeeps, LineAppend DEF Exchange, b
  <1> QED
    BY <1>4, StillKeeps, AcksSub DEF Exchange

(* The sender's actions.                                                    *)

LEMMA SendStartExchange == ASSUME Kinds, Kinds', Exchange, SendStart PROVE Exchange'
  <1>1. Still
    BY DEF Still, SendStart, config, rvars, Early, Late, Active
  <1>2. Sub(fwd, fwd') /\ Sub(back, back')
    BY SubSame DEF SendStart, wire, Kinds, LineKinds
  <1> QED
    BY <1>1, <1>2, StillSub

LEMMA FailExchange ==
  ASSUME Kinds, Kinds', Exchange, Fail, UNCHANGED <<proto, flen, rvars>>, Sub(back, back')
  PROVE  Exchange'
  <1>1. Still
    BY DEF Still, Fail, rvars, Early, Late, Active
  <1> QED
    BY <1>1, CanAppended DEF Fail

LEMMA LeaveExchange ==
  ASSUME Kinds, Kinds', Exchange, Leave, UNCHANGED <<proto, flen, rvars>>, Sub(back, back')
  PROVE  Exchange'
  <1>1. Still
    BY DEF Still, Leave, rvars, Early, Late, Active
  <1>2. Sub(fwd, fwd')
    BY SubSame DEF Leave, Kinds, LineKinds
  <1> QED
    BY <1>1, <1>2, StillSub

LEMMA ModeErrorExchange ==
  ASSUME Kinds, Kinds', Exchange, spc = "mode", ModeError, UNCHANGED <<proto, flen, rvars>>, Sub(back, back')
  PROVE  Exchange'
  <1>1. CASE UNCHANGED <<spc, sphase, scrc, size, sent, bnum, serr, sok, fwd>>
    <2>1. Still
      BY <1>1 DEF Still, rvars
    <2>2. Sub(fwd, fwd')
      BY <1>1, SubSame DEF Kinds, LineKinds
    <2> QED
      BY <2>1, <2>2, StillSub
  <1> QED
    BY <1>1, FailExchange, LeaveExchange DEF ModeError

LEMMA HeardSub ==
  ASSUME Kinds, back # <<>>, back' = Tail(back) PROVE Sub(back, back')
  BY SubTail DEF Kinds, LineKinds

LEMMA ModeGetExchange == ASSUME Kinds, Kinds', Exchange, ModeGet PROVE Exchange'
  <1>1. UNCHANGED <<proto, flen, rvars>> /\ spc = "mode" /\ Sub(back, back')
    BY HeardSub DEF ModeGet, config
  <1>2. CASE spc' = "send" /\ UNCHANGED <<sphase, size, sent, bnum, sok, fwd>>
    <2>1. Still
      BY <1>1, <1>2 DEF Still, rvars, Early, Late
    <2>2. Sub(fwd, fwd')
      BY <1>2, SubSame DEF Kinds, LineKinds
    <2> QED
      BY <1>1, <2>1, <2>2, StillSub
  <1>3. CASE Fail \/ Leave \/ ModeError
    BY <1>1, <1>3, FailExchange, LeaveExchange, ModeErrorExchange
  <1> QED
    BY <1>2, <1>3 DEF ModeGet

LEMMA ModeTimeoutExchange == ASSUME Kinds, Kinds', Exchange, ModeTimeout PROVE Exchange'
  <1>1. UNCHANGED <<proto, flen, rvars>> /\ spc = "mode" /\ Sub(back, back')
    BY SubSame DEF ModeTimeout, config, Kinds, LineKinds
  <1> QED
    BY <1>1, ModeErrorExchange DEF ModeTimeout

LEMMA SendHeaderExchange == ASSUME Kinds, Kinds', Exchange, SendHeader PROVE Exchange'
  <1>1. Still
    BY DEF Still, SendHeader, config, rvars, Early, Late
  <1>2. PICK b \in Items : b = Block("header", 0, 0, 1)
    BY BlockType
  <1>3. b.what = "header" /\ b.n = 0 % BlockMod /\ fwd' = Append(fwd, b)
    BY <1>2 DEF Block, SendHeader
  <1>4. Phases /\ sphase = "header" /\ spc' = "ack"
    BY DEF Exchange, SendHeader
  <1>5. ~eot /\ ~rok /\ rnum = 1 /\ bnum = 1
    BY <1>4 DEF Phases
  <1>6. ItemOK(b)'
    BY <1>1, <1>3, <1>4, <1>5 DEF ItemOK, Still, Early
  <1>7. \A x \in Items : ItemOK(x) => PairOK(x, b)'
    BY <1>3, <1>4 DEF ItemOK, PairOK
  <1>8. Sub(back, back')
    BY SubDrained DEF SendHeader, Kinds, LineKinds
  <1>9. Line'
    BY <1>1, <1>3, <1>6, <1>7, StillKeeps, LineAppend DEF Exchange
  <1> QED
    BY <1>1, <1>8, <1>9, StillKeeps, AcksSub DEF Exchange

LEMMA SendsAllExchange == ASSUME Kinds, Kinds', Exchange, SendsAll PROVE Exchange'
  <1>1. Still
    BY DEF Still, SendsAll, config, rvars, Early, Late
  <1>2. Sub(fwd, fwd') /\ Sub(back, back')
    BY SubSame DEF SendsAll, wire, Kinds, LineKinds
  <1> QED
    BY <1>1, <1>2, StillSub

LEMMA SendLastExchange == ASSUME Kinds, Kinds', Exchange, SendLast PROVE Exchange'
  <1>1. Still
    BY DEF Still, SendLast, config, rvars, Early, Late
  <1>2. PICK b \in Items : b = Block("last", 0, 0, 1)
    BY BlockType
  <1>3. b.what = "last" /\ fwd' = Append(fwd, b)
    BY <1>2 DEF Block, SendLast
  <1>4. ItemOK(b)'
    BY <1>1, <1>3 DEF ItemOK, Still, SendLast
  <1>5. \A x \in Items : ItemOK(x) => PairOK(x, b)'
    BY <1>3 DEF PairOK
  <1>6. Sub(back, back')
    BY SubSame DEF SendLast, Kinds, LineKinds
  <1>7. Line'
    BY <1>1, <1>3, <1>4, <1>5, StillKeeps, LineAppend DEF Exchange
  <1> QED
    BY <1>1, <1>6, <1>7, StillKeeps, AcksSub DEF Exchange

LEMMA EotSendExchange == ASSUME Kinds, Kinds', Exchange, EotSend PROVE Exchange'
  <1>1. Still
    BY DEF Still, EotSend, config, rvars, Early, Late
  <1>2. PICK b \in Items : b = Control("EOT")
    BY ControlType
  <1>3. b.what = "EOT" /\ fwd' = Append(fwd, b)
    BY <1>2 DEF Control, EotSend
  <1>4. Phases /\ spc = "eot" /\ spc' = "eotack"
    BY DEF Exchange, EotSend
  <1>5. ItemOK(b)'
    BY <1>1, <1>3, <1>4 DEF ItemOK, Still, Phases, Late
  <1>6. \A x \in Items : ItemOK(x) => PairOK(x, b)'
    BY <1>3 DEF PairOK
  <1>7. Sub(back, back')
    BY SubDrained DEF EotSend, Kinds, LineKinds
  <1>8. Line'
    BY <1>1, <1>3, <1>5, <1>6, StillKeeps, LineAppend DEF Exchange
  <1> QED
    BY <1>1, <1>7, <1>8, StillKeeps, AcksSub DEF Exchange

LEMMA EotErrorExchange ==
  ASSUME Kinds, Kinds', Exchange, spc = "eotack", EotError, UNCHANGED <<proto, flen, rvars>>, Sub(back, back')
  PROVE  Exchange'
  <1>1. CASE spc' = "eot" /\ UNCHANGED <<sphase, scrc, size, sent, bnum, serr, sok, fwd>>
    <2>1. Still
      BY <1>1 DEF Still, rvars, Early, Late
    <2>2. Sub(fwd, fwd')
      BY <1>1, SubSame DEF Kinds, LineKinds
    <2> QED
      BY <2>1, <2>2, StillSub
  <1> QED
    BY <1>1, FailExchange DEF EotError

LEMMA EotTimeoutExchange == ASSUME Kinds, Kinds', Exchange, EotTimeout PROVE Exchange'
  <1>1. UNCHANGED <<proto, flen, rvars>> /\ spc = "eotack" /\ Sub(back, back')
    BY SubSame DEF EotTimeout, config, Kinds, LineKinds
  <1> QED
    BY <1>1, EotErrorExchange DEF EotTimeout

\* The sender reports the file complete: an ACK that comes now is the answer to
\* the EOT.
LEMMA EotAckMeans ==
  ASSUME Kinds, Exchange, spc = "eotack", back # <<>>, Head(back) = "ACK"
  PROVE  rok
  <1>1. back[1] = "ACK" /\ 1 \in 1..Len(back)
    BY DEF Kinds, LineKinds
  <1>2. Answered /\ Phases /\ Contented
    BY <1>1 DEF Exchange, Acks
  <1>3. sphase # "header" /\ sent >= flen
    BY <1>2 DEF Phases
  <1>4. rnum # bnum + 1
    BY <1>2, <1>3 DEF Contented, Kinds, SenderKinds, LineKinds
  <1> QED
    BY <1>2, <1>3, <1>4 DEF Answered, Phases

LEMMA EotAckedExchange ==
  ASSUME Kinds, Kinds', Exchange, spc = "eotack", EotAcked, rok,
         UNCHANGED <<proto, flen, rvars>>, Sub(back, back')
  PROVE  Exchange'
  <1>1. Phases /\ Contented /\ Acks /\ Line
    BY DEF Exchange
  <1>2. /\ UNCHANGED <<proto, flen, size, sent, bnum, fwd, rphase, rnum, written, extra, rok, eot, rpc>> /\ sok'
        /\ (proto = "X" /\ spc' = "over" /\ sphase' = sphase) \/ (proto = "Y" /\ spc' = "mode" /\ sphase' = "end")
    BY DEF EotAcked, rvars, Kinds, LineKinds
  <1>3. sphase # "header" /\ sent >= flen /\ rnum = bnum
    BY <1>1 DEF Phases
  <1>4. Phases'
    BY <1>1, <1>2, <1>3 DEF Phases, Early, Late
  <1>5. Fit' = Fit /\ Sending' = Sending
    BY <1>2 DEF Fit, Sending, Smaller
  <1>6. Contented'
    BY <1>1, <1>2, <1>5 DEF Contented
  <1>7. ASSUME NEW x \in Items, ItemOK(x) PROVE ItemOK(x)'
    BY <1>2, <1>3, <1>7 DEF ItemOK, Late
  <1>8. ASSUME NEW x \in Items, NEW y \in Items, PairOK(x, y) PROVE PairOK(x, y)'
    BY <1>2, <1>8 DEF PairOK, Current
  <1>9. Answered => Answered'
    BY <1>2, <1>3 DEF Answered, Early
  <1>10. Sub(fwd, fwd')
    BY <1>2, SubSame DEF Kinds, LineKinds
  <1>11. Line'
    BY <1>1, <1>7, <1>8, <1>10, LineSub DEF ItemsKept
  <1>12. Acks'
    BY <1>1, <1>2, <1>9, AcksSub
  <1> QED
    BY <1>4, <1>6, <1>11, <1>12 DEF Exchange

LEMMA EotGetExchange == ASSUME Kinds, Kinds', Exchange, EotGet PROVE Exchange'
  <1>1. UNCHANGED <<proto, flen, rvars>> /\ spc = "eotack" /\ back # <<>> /\ Sub(back, back')
    BY HeardSub DEF EotGet, config
  <1>2. CASE Head(back) = "ACK" /\ EotAcked
    BY <1>1, <1>2, EotAckMeans, EotAckedExchange
  <1>3. CASE EotError \/ Fail
    BY <1>1, <1>3, EotErrorExchange, FailExchange
  <1> QED
    BY <1>2, <1>3 DEF EotGet

\* A block that is settled is sent again in its size.
LEMMA SameSize == ASSUME Kinds, SendBlock, Fit PROVE size' = size
  <1>1. size \in Nat /\ sent \in Nat /\ flen \in Nat
    BY Counts
  <1> QED
    BY <1>1 DEF SendBlock, SizeFor, Fit

LEMMA SendBlockExchange == ASSUME Kinds, Kinds', Exchange, SendBlock PROVE Exchange'
  <1>1. /\ UNCHANGED <<proto, flen, sphase, sent, bnum, sok, rphase, rnum, written, extra, rok, eot, rpc, back>>
        /\ spc = "send" /\ spc' = "ack" /\ sphase = "data" /\ sent < flen
        /\ fwd' = Append(fwd, Block("data", bnum, sent, size'))
    BY DEF SendBlock, config, rvars
  <1>2. Phases /\ Contented /\ Acks /\ Line
    BY DEF Exchange
  <1>0. /\ size \in Nat /\ sent \in Nat /\ flen \in Nat /\ bnum \in Nat /\ bnum >= 1
        /\ rnum \in Nat
    BY Counts
  <1>3. /\ size \in Nat /\ size' \in Nat /\ sent \in Nat /\ flen \in Nat /\ bnum \in Nat /\ bnum >= 1
        /\ rnum \in Nat
    BY <1>0 DEF SendBlock, SizeFor
  <1>4. Fit'
    BY <1>1, <1>3 DEF SendBlock, SizeFor, Fit
  <1>5. Phases'
    BY <1>1, <1>2 DEF Phases, Early, Late
  <1>6. ~eot /\ ~rok
    BY <1>1, <1>2, <1>3 DEF Phases
  <1>7. Contented'
    <2>1. CASE rnum = bnum + 1
      <3>1. size' = size
        BY <1>2, <2>1, SameSize DEF Contented
      <3>2. Sending' = Sending
        BY <1>1, <3>1 DEF Sending
      <3> QED
        BY <1>1, <1>2, <1>3, <1>4, <2>1, <3>2 DEF Contented
    <2>2. CASE rnum = bnum
      BY <1>1, <1>2, <1>3, <2>2 DEF Contented
    <2> QED
      BY <1>2, <2>1, <2>2 DEF Phases
  <1>8. PICK b \in Items : b = Block("data", bnum, sent, size')
    BY <1>3, BlockType
  <1>9. /\ b.what = "data" /\ b.n = bnum % BlockMod /\ b.from = sent /\ b.len = size'
        /\ fwd' = Append(fwd, b)
    BY <1>1, <1>8 DEF Block
  <1>10. ItemOK(b)'
    <2>1. CASE rnum = bnum + 1
      <3>1. Former(b)'
        BY <1>1, <1>3, <1>9, <2>1 DEF Former
      <3> QED
        BY <1>1, <1>6, <1>9, <3>1 DEF ItemOK, Early
    <2>2. CASE rnum = bnum
      <3>1. Current(b)'
        BY <1>1, <1>3, <1>9, <2>2 DEF Current
      <3> QED
        BY <1>1, <1>4, <1>6, <1>9, <3>1 DEF ItemOK, Early
    <2> QED
      BY <1>2, <2>1, <2>2 DEF Phases
  <1>11. ASSUME NEW x \in Items, ItemOK(x) PROVE PairOK(x, b)'
    <2>1. x.what # "EOT"
      BY <1>1, <1>3, <1>11 DEF ItemOK
    <2>2. Current(x)' => Current(b)'
      BY <1>1, <1>9 DEF Current
    <2> QED
      BY <1>9, <2>1, <2>2 DEF PairOK
  <1>12. ASSUME NEW x \in Items, ItemOK(x) PROVE ItemOK(x)'
    <2>1. CASE x.what = "data"
      <3>1. CASE Former(x)
        <4>1. Former(x)'
          BY <1>1, <3>1 DEF Former
        <4> QED
          BY <1>1, <1>6, <2>1, <4>1 DEF ItemOK, Early
      <3>2. CASE Current(x) /\ (x.ok => x.from = sent /\ x.len = size /\ Fit)
        <4>1. Current(x)'
          BY <1>1, <3>2 DEF Current
        <4>2. x.ok => x.from = sent /\ x.len = size'
          BY <3>2, SameSize
        <4> QED
          BY <1>1, <1>4, <1>6, <2>1, <4>1, <4>2 DEF ItemOK, Early
      <3> QED
        BY <1>12, <2>1, <3>1, <3>2 DEF ItemOK
    <2>2. CASE x.what # "data"
      BY <1>1, <1>3, <1>12, <2>2 DEF ItemOK, Early
    <2> QED
      BY <2>1, <2>2
  <1>13. ASSUME NEW x \in Items, NEW y \in Items, PairOK(x, y) PROVE PairOK(x, y)'
    BY <1>1, <1>13 DEF PairOK, Current
  <1>14. Line'
    BY <1>2, <1>9, <1>10, <1>11, <1>12, <1>13, LineAppend DEF ItemsKept
  <1>15. Answered => Answered'
    BY <1>1 DEF Answered, Early
  <1>16. Acks'
    BY <1>1, <1>2, <1>15, AcksSub, SubSame DEF Kinds, LineKinds
  <1> QED
    BY <1>5, <1>7, <1>14, <1>16 DEF Exchange

\* An ACK taken for a block of data is that of the block.
LEMMA AckMeans ==
  ASSUME Kinds, Exchange, spc = "ack", back # <<>>, Head(back) = "ACK"
  PROVE  /\ sphase = "header" => rphase = "data"
         /\ sphase = "data" => rnum = bnum + 1
         /\ sphase # "end" => ~rok /\ \A i \in 1..Len(Tail(back)) : Tail(back)[i] # "ACK"
  <1>1. back[1] = "ACK" /\ 1 \in 1..Len(back) /\ Len(back) \in Nat
    BY DEF Kinds, LineKinds
  <1>2. Answered /\ Phases
    BY <1>1 DEF Exchange, Acks
  <1>3. sphase # "end" => ~rok
    BY <1>2 DEF Phases, Late
  <1>4. ASSUME sphase # "end", NEW i \in 1..Len(Tail(back)) PROVE Tail(back)[i] # "ACK"
    <2>1. i + 1 \in 1..Len(back) /\ Tail(back)[i] = back[i + 1] /\ i + 1 # 1
      BY <1>1 DEF Kinds, LineKinds
    <2> QED
      BY <1>1, <1>3, <1>4, <2>1 DEF Exchange, Acks
  <1> QED
    BY <1>2, <1>3, <1>4 DEF Answered

LEMMA AckedExchange ==
  ASSUME Kinds, Kinds', Exchange, spc = "ack", back # <<>>, Head(back) = "ACK", back' = Tail(back),
         Acked, UNCHANGED <<proto, flen, rvars>>
  PROVE  Exchange'
  <1>1. /\ UNCHANGED <<proto, flen, size, sok, rphase, rnum, written, extra, rok, eot, rpc, fwd>>
    BY DEF Acked, rvars
  <1>2. Phases /\ Contented /\ Acks /\ Line
    BY DEF Exchange
  <1>3. /\ size \in Nat /\ size >= 1 /\ sent \in Nat /\ sent <= flen /\ flen \in Nat
        /\ bnum \in Nat /\ bnum >= 1 /\ rnum \in Nat
    BY Counts
  <1>4. Sub(fwd, fwd')
    BY <1>1, SubSame DEF Kinds, LineKinds
  <1>5. CASE sphase = "end"
    <2>1. spc' = "over" /\ UNCHANGED <<sphase, bnum, sent>>
      BY <1>5 DEF Acked
    <2>2. Still
      BY <1>1, <2>1 DEF Still, Early, Late, Active
    <2> QED
      BY <1>4, <2>2, StillSub, HeardSub
  <1>6. CASE sphase = "header"
    <2>1. spc' = "mode" /\ sphase' = "data" /\ UNCHANGED <<bnum, sent>> /\ rphase = "data"
      BY <1>6, AckMeans DEF Acked
    <2>2. ~rok /\ \A i \in 1..Len(back') : back'[i] # "ACK"
      BY <1>6, AckMeans
    <2>3. ~eot /\ bnum = 1 /\ rnum = 1 /\ sent = 0 /\ proto = "Y" /\ ~sok
      BY <1>2, <1>6, <2>2 DEF Phases
    <2>4. Phases'
      BY <1>1, <1>2, <2>1, <2>2, <2>3 DEF Phases, Early, Late
    <2>5. Contented'
      BY <1>1, <1>2, <1>3, <2>1, <2>3 DEF Contented
    <2>6. Acks'
      BY <2>2 DEF Acks
    <2>7. ASSUME NEW x \in Items, ItemOK(x) PROVE ItemOK(x)'
      BY <1>1, <1>6, <2>1, <2>7 DEF ItemOK
    <2>8. ASSUME NEW x \in Items, NEW y \in Items, PairOK(x, y) PROVE PairOK(x, y)'
      BY <1>1, <2>1, <2>8 DEF PairOK, Current
    <2>9. Line'
      BY <1>2, <1>4, <2>7, <2>8, LineSub DEF ItemsKept
    <2> QED
      BY <2>4, <2>5, <2>6, <2>9 DEF Exchange
  <1>7. CASE sphase = "data"
    <2>1. /\ spc' = "send" /\ sphase' = "data" /\ bnum' = bnum + 1 /\ sent' = sent + Sending
          /\ rnum = bnum + 1
      BY <1>7, AckMeans DEF Acked, Sending
    <2>2. ~rok /\ \A i \in 1..Len(back') : back'[i] # "ACK"
      BY <1>7, AckMeans
    <2>3. sent < flen /\ Len(written) >= sent + Sending /\ (sent + Sending < flen => Len(written) = sent + Sending)
      BY <1>2, <2>1 DEF Contented
    <2>4. ~eot /\ ~sok
      BY <1>2, <1>3, <2>2, <2>3 DEF Phases
    <2>5. Phases'
      BY <1>1, <1>2, <1>3, <2>1, <2>2, <2>4 DEF Phases, Early, Late
    <2>6. Contented'
      BY <1>1, <1>2, <1>3, <2>1, <2>3 DEF Contented
    <2>7. Acks'
      BY <2>2 DEF Acks
    <2>8. ASSUME NEW x \in Items, ItemOK(x) PROVE ItemOK(x)' /\ (x.what = "data" => Former(x))
      <3>1. x.what = "data" => Former(x)
        BY <1>3, <1>7, <2>1, <2>8 DEF ItemOK, Current
      <3>2. Former(x) => Former(x)'
        BY <1>1 DEF Former
      <3>3. x.what # "EOT" /\ x.what # "last"
        BY <1>3, <1>7, <2>3, <2>8 DEF ItemOK
      <3> QED
        BY <1>1, <2>1, <2>8, <3>1, <3>2, <3>3 DEF ItemOK, Early
    <2>9. ASSUME NEW x \in Items, NEW y \in Items, ItemOK(x), PairOK(x, y) PROVE PairOK(x, y)'
      <3>1. x.what = "data" => ~Current(x)'
        <4>1. ASSUME x.what = "data", Current(x)' PROVE FALSE
          <5>1. x.n = (rnum - 1) % BlockMod /\ x.n = rnum % BlockMod
            BY <1>1, <2>8, <2>9, <4>1 DEF Former, Current
          <5>2. rnum - 1 \in Nat /\ (rnum - 1) + 1 = rnum
            BY <1>3, <2>1
          <5>3. rnum % BlockMod # (rnum - 1) % BlockMod
            BY <5>2, NextDiffers, XmodemAssumption
          <5> QED
            BY <5>1, <5>3
        <4> QED
          BY <4>1
      <3> QED
        BY <2>9, <3>1 DEF PairOK
    <2>10. Line'
      BY <1>2, <1>4, <2>8, <2>9, LineSub DEF ItemsKept
    <2> QED
      BY <2>5, <2>6, <2>7, <2>10 DEF Exchange
  <1> QED
    BY <1>5, <1>6, <1>7 DEF Kinds, SenderKinds

\* The sender tries again.  If it shortens block 1 none is in or under way.
LEMMA NotAckedExchange ==
  ASSUME Kinds, Kinds', Exchange, spc = "ack", NotAcked, ~spoilt', UNCHANGED <<proto, flen, rvars>>, Sub(back, back')
  PROVE  Exchange'
  <1>1. CASE Leave \/ Fail
    BY <1>1, LeaveExchange, FailExchange
  <1>2. CASE /\ spc' = "send" /\ size' = (IF FallsBack THEN 1 ELSE size)
             /\ spoilt' = (spoilt \/ (FallsBack /\ FirstIn))
             /\ UNCHANGED <<sphase, scrc, sent, bnum, stry, sok, fwd>>
    <2>1. Sub(fwd, fwd')
      BY <1>2, SubSame DEF Kinds, LineKinds
    <2>2. CASE ~FallsBack
      <3>1. Still
        BY <1>2, <2>2 DEF Still, rvars, Early, Late
      <3> QED
        BY <2>1, <3>1, StillSub
    <2>3. CASE FallsBack
      <3>1. ~FirstIn
        BY <1>2, <2>3
      <3>2. /\ UNCHANGED <<proto, flen, rphase, rnum, written, extra, rok, eot, rpc>>
            /\ rnum = 1 /\ bnum = 1
        BY <2>3, <3>1 DEF rvars, FallsBack, FirstIn, Exchange, Phases, Kinds, ReceiverKinds
      <3>3. Phases'
        BY <1>2, <3>2 DEF Exchange, Phases, Early, Late
      <3>4. Contented'
        BY <1>2, <3>2 DEF Exchange, Contented
      <3>5. Answered => Answered'
        BY <1>2, <3>2 DEF Answered, Early
      <3>6. Acks'
        BY <3>2, <3>5, AcksSub DEF Exchange
      <3>7. ASSUME NEW x \in Items, ItemOK(x), x.what = "data" => ~x.ok PROVE ItemOK(x)'
        <4>1. Former(x)' = Former(x) /\ Current(x)' = Current(x)
          BY <1>2, <3>2 DEF Former, Current
        <4> QED
          BY <1>2, <3>2, <3>7, <4>1 DEF ItemOK, Early, Late
      <3>8. ASSUME NEW x \in Items, NEW y \in Items, PairOK(x, y) PROVE PairOK(x, y)'
        BY <1>2, <3>2, <3>8 DEF PairOK, Current
      <3>9. ASSUME NEW i \in 1..Len(fwd) PROVE ItemOK(fwd[i])'
        <4>1. PICK x \in Items : x = fwd[i]
          BY DEF Kinds, LineKinds
        <4>2. x.what = "data" => ~x.ok
          BY <3>1, <4>1 DEF FirstIn, Kinds, LineKinds
        <4>3. ItemOK(x) /\ x = fwd'[i]
          BY <1>2, <4>1 DEF Exchange, Line
        <4>4. ItemOK(x)'
          BY <3>7, <4>2, <4>3
        <4> QED
          BY <4>3, <4>4
      <3>10. ASSUME NEW i \in 1..Len(fwd), NEW j \in 1..Len(fwd), i < j PROVE PairOK(fwd[i], fwd[j])'
        <4>1. PICK x \in Items : x = fwd[i]
          BY DEF Kinds, LineKinds
        <4>2. PICK y \in Items : y = fwd[j]
          BY DEF Kinds, LineKinds
        <4>3. PairOK(x, y) /\ x = fwd'[i] /\ y = fwd'[j]
          BY <1>2, <3>10, <4>1, <4>2 DEF Exchange, Line
        <4>4. PairOK(x, y)'
          BY <3>8, <4>3
        <4> QED
          BY <4>3, <4>4
      <3>11. Line'
        BY <1>2, <3>9, <3>10 DEF Line
      <3> QED
        BY <3>3, <3>4, <3>6, <3>11 DEF Exchange
    <2> QED
      BY <2>2, <2>3
  <1> QED
    BY <1>1, <1>2 DEF NotAcked

LEMMA AckGetExchange == ASSUME Kinds, Kinds', Exchange, AckGet, ~spoilt' PROVE Exchange'
  <1>1. UNCHANGED <<proto, flen, rvars>> /\ spc = "ack" /\ back # <<>> /\ back' = Tail(back)
    BY DEF AckGet, config
  <1>2. Sub(back, back')
    BY <1>1, HeardSub
  <1>3. CASE Head(back) = "ACK" /\ Acked
    BY <1>1, <1>3, AckedExchange
  <1>4. CASE Fail
    BY <1>1, <1>2, <1>4, FailExchange
  <1>5. CASE NotAcked
    BY <1>1, <1>2, <1>5, NotAckedExchange
  <1> QED
    BY <1>3, <1>4, <1>5 DEF AckGet

LEMMA AckTimeoutExchange == ASSUME Kinds, Kinds', Exchange, AckTimeout, ~spoilt' PROVE Exchange'
  <1>1. UNCHANGED <<proto, flen, rvars, back>> /\ spc = "ack"
    BY DEF AckTimeout, config
  <1>2. Sub(back, back')
    BY <1>1, SubSame DEF Kinds, LineKinds
  <1>3. CASE UNCHANGED <<spc, sphase, scrc, size, sent, bnum, serr, sok, fwd, spoilt>>
    <2>1. Still
      BY <1>1, <1>3 DEF Still, rvars
    <2>2. Sub(fwd, fwd')
      BY <1>3, SubSame DEF Kinds, LineKinds
    <2> QED
      BY <1>2, <2>1, <2>2, StillSub
  <1>4. CASE NotAcked
    BY <1>1, <1>2, <1>4, NotAckedExchange
  <1> QED
    BY <1>3, <1>4 DEF AckTimeout

(* The receiver's actions.                                                  *)

\* What is behind h in the line.
LEMMA LineAfter ==
  ASSUME Kinds, Kinds', Line, fwd # <<>>, NEW h \in Items, h = Head(fwd), Sub(Tail(fwd), fwd'),
         \A x \in Items : ItemOK(x) /\ PairOK(h, x) => ItemOK(x)',
         \A x, y \in Items :
             ItemOK(x) /\ PairOK(h, x) /\ ItemOK(y) /\ PairOK(h, y) /\ PairOK(x, y) => PairOK(x, y)'
  PROVE  Line'
  <1> DEFINE t == Tail(fwd)
  <1>1. /\ t \in Seq(Items) /\ Len(t) \in Nat /\ h = fwd[1] /\ 1 \in 1..Len(fwd) /\ Len(fwd') \in Nat
        /\ \A i \in 1..Len(t) : t[i] = fwd[i + 1] /\ i + 1 \in 1..Len(fwd) /\ 1 < i + 1 /\ t[i] \in Items
    BY DEF Kinds, LineKinds
  <1> HIDE DEF t
  <1>2. PICK f \in [1..Len(fwd') -> 1..Len(t)] :
            /\ \A i, j \in 1..Len(fwd') : i < j => f[i] < f[j]
            /\ \A i \in 1..Len(fwd') : fwd'[i] = t[f[i]]
    BY DEF Sub, t
  <1>3. ASSUME NEW k \in 1..Len(t), NEW x \in Items, x = t[k] PROVE ItemOK(x) /\ PairOK(h, x)
    BY <1>1, <1>3 DEF Line
  <1>4. ASSUME NEW k \in 1..Len(t), NEW l \in 1..Len(t), k < l,
               NEW x \in Items, x = t[k], NEW y \in Items, y = t[l]
        PROVE  PairOK(x, y)
    <2>1. k + 1 < l + 1 /\ x = fwd[k + 1] /\ y = fwd[l + 1] /\ k + 1 \in 1..Len(fwd) /\ l + 1 \in 1..Len(fwd)
      BY <1>1, <1>4
    <2> QED
      BY <2>1 DEF Line
  <1>5. ASSUME NEW i \in 1..Len(fwd') PROVE ItemOK(fwd[i])'
    <2>1. PICK x \in Items : x = t[f[i]]
      BY <1>1
    <2>2. ItemOK(x)'
      BY <1>2, <1>3, <2>1
    <2>3. x = fwd'[i]
      BY <1>2, <2>1
    <2> QED
      BY <2>2, <2>3
  <1>6. ASSUME NEW i \in 1..Len(fwd'), NEW j \in 1..Len(fwd'), i < j PROVE PairOK(fwd[i], fwd[j])'
    <2>1. PICK x \in Items : x = t[f[i]]
      BY <1>1
    <2>2. PICK y \in Items : y = t[f[j]]
      BY <1>1
    <2>3. ItemOK(x) /\ PairOK(h, x) /\ ItemOK(y) /\ PairOK(h, y) /\ PairOK(x, y)
      BY <1>2, <1>3, <1>4, <1>6, <2>1, <2>2
    <2>4. PairOK(x, y)'
      BY <2>3
    <2>5. x = fwd'[i] /\ y = fwd'[j]
      BY <1>2, <2>1, <2>2
    <2> QED
      BY <2>4, <2>5
  <1> QED
    BY <1>5, <1>6 DEF Line

LEMMA ReceivedSub ==
  ASSUME Kinds, fwd # <<>>, fwd' = Tail(fwd) PROVE Sub(fwd, fwd') /\ Sub(Tail(fwd), fwd')
  BY SubTail, SubSame DEF Kinds, LineKinds

LEMMA HeadItem ==
  ASSUME Kinds, Line, fwd # <<>> PROVE \E h \in Items : h = Head(fwd) /\ ItemOK(h)
  <1>1. Head(fwd) = fwd[1] /\ 1 \in 1..Len(fwd) /\ fwd[1] \in Items
    BY DEF Kinds, LineKinds
  <1> QED
    BY <1>1 DEF Line

LEMMA RecvStartExchange == ASSUME Kinds, Kinds', Exchange, RecvStart PROVE Exchange'
  <1>1. Still
    BY DEF Still, RecvStart, config, svars, Active
  <1>2. Sub(fwd, fwd') /\ Sub(back, back')
    BY SubSame, SubDrained DEF RecvStart, Kinds, LineKinds
  <1> QED
    BY <1>1, <1>2, StillSub

LEMMA AskExchange == ASSUME Kinds, Kinds', Exchange, Ask PROVE Exchange'
  <1>1. Still
    BY DEF Still, Ask, config, svars, Active
  <1>2. Sub(fwd, fwd')
    BY SubDrained DEF Ask, Kinds, LineKinds
  <1>3. Quieter(back, back')
    <2>1. back \in Seq(Answers) /\ Request \in Answers /\ Request # "ACK" /\ back' = Append(back, Request)
      BY DEF Ask, Kinds, LineKinds, Request, Answers
    <2> QED
      BY <2>1, QuieterSame, QuieterAppend
  <1> QED
    BY <1>1, <1>2, <1>3, StillQuieter

LEMMA RejectExchange ==
  ASSUME Kinds, Kinds', Exchange, rpc = "get", NEW out \in Seq(Answers), Quieter(back, out), Reject(out),
         UNCHANGED <<proto, flen, svars>>, Sub(fwd, fwd')
  PROVE  Exchange'
  <1>1. Still
    BY DEF Still, Reject, svars, Active
  <1>2. Quieter(back, back')
    BY QuieterAppend DEF Reject, Answers
  <1> QED
    BY <1>1, <1>2, StillQuieter

LEMMA GetRepeatedExchange == ASSUME Kinds, Kinds', Exchange, GetRepeated PROVE Exchange'
  <1>1. /\ UNCHANGED <<proto, flen, svars>> /\ rpc = "get" /\ Sub(fwd, fwd') /\ Again(back, FALSE)
        /\ back \in Seq(Answers) /\ Quieter(back, back)
    BY ReceivedSub, QuieterSame DEF GetRepeated, Arrives, config, Kinds, LineKinds
  <1>2. CASE gerr < MaxErrors
    <2>1. Still /\ back' = back
      BY <1>1, <1>2 DEF Still, Again, svars
    <2> QED
      BY <1>1, <2>1, StillQuieter
  <1>3. CASE ~(gerr < MaxErrors)
    BY <1>1, <1>3, RejectExchange DEF Again
  <1> QED
    BY <1>2, <1>3

LEMMA GetBadExchange == ASSUME Kinds, Kinds', Exchange, GetBad PROVE Exchange'
  <1>1. /\ UNCHANGED <<proto, flen, svars>> /\ rpc = "get" /\ Sub(fwd, fwd') /\ Reject(back)
        /\ back \in Seq(Answers) /\ Quieter(back, back)
    BY ReceivedSub, QuieterSame DEF GetBad, Arrives, config, Kinds, LineKinds
  <1> QED
    BY <1>1, RejectExchange

LEMMA GetCanExchange == ASSUME Kinds, Kinds', Exchange, GetCan PROVE Exchange'
  <1>1. /\ UNCHANGED <<proto, flen, svars>> /\ rpc = "get" /\ Sub(fwd, fwd')
        /\ back \in Seq(Answers) /\ Quieter(back, back)
    BY ReceivedSub, QuieterSame DEF GetCan, Arrives, config, Kinds, LineKinds
  <1>2. CASE rphase = "header"
    BY <1>1, <1>2, RejectExchange DEF GetCan
  <1>3. CASE rphase # "header"
    <2>1. Still /\ back' = back
      BY <1>1, <1>3 DEF Still, GetCan, svars, Active
    <2> QED
      BY <1>1, <2>1, StillQuieter
  <1> QED
    BY <1>2, <1>3

\* The header of the file, or the empty one that ends the batch.
LEMMA TakeHeaderExchange ==
  ASSUME Kinds, Kinds', Exchange, rpc = "get", rphase = "header", NEW b \in Items, ItemOK(b), IsBlock(b),
         TakeHeader(b), UNCHANGED <<proto, flen, svars>>, Sub(fwd, fwd')
  PROVE  Exchange'
  <1>1. Phases /\ Contented /\ Acks /\ Line
    BY DEF Exchange
  <1>2. UNCHANGED <<spc, sphase, size, sent, bnum, sok>>
    BY DEF svars
  <1>3. CASE b.what = "header"
    <2>1. /\ rphase' = "data" /\ rpc' = "ask" /\ rnum' = 1
          /\ back' = Append(back, "ACK")
          /\ UNCHANGED <<eot, written, extra, rok>>
      BY <1>3 DEF TakeHeader
    <2>2. ~eot /\ ~rok /\ rnum = 1 /\ rnum' = rnum /\ (spc \in Early => sphase = "data")
      BY <1>3, <2>1 DEF ItemOK
    <2>3. sphase = "header" /\ spc \notin Early
      BY <1>1, <2>2 DEF Phases
    <2>4. Phases'
      BY <1>1, <1>2, <2>1, <2>2, <2>3 DEF Phases
    <2>5. Fit' = Fit /\ Sending' = Sending
      BY <1>2 DEF Fit, Sending, Smaller
    <2>6. Contented'
      BY <1>1, <1>2, <2>1, <2>2, <2>5 DEF Contented
    <2>7. Answered'
      BY <1>2, <2>1, <2>3 DEF Answered
    <2>8. \A i \in 1..Len(back) : back[i] # "ACK"
      BY <1>1, <2>3 DEF Acks, Answered
    <2>9. Acks'
      BY <2>1, <2>7, <2>8, AcksFirst
    <2>10. ASSUME NEW x \in Items, ItemOK(x) PROVE ItemOK(x)'
      BY <1>2, <2>1, <2>2, <2>5, <2>10 DEF ItemOK, Current, Former
    <2>11. ASSUME NEW x \in Items, NEW y \in Items, PairOK(x, y) PROVE PairOK(x, y)'
      BY <1>2, <2>2, <2>11 DEF PairOK, Current
    <2>12. Line'
      BY <1>1, <2>10, <2>11, LineSub DEF ItemsKept
    <2> QED
      BY <2>4, <2>6, <2>9, <2>12 DEF Exchange
  <1>4. CASE b.what = "last"
    <2>1. /\ rpc' = "over" /\ back' = Append(back, "ACK")
          /\ UNCHANGED <<rphase, rcrc, rnum, rerr, gerr, eot, written, extra, rok>>
      BY <1>4 DEF TakeHeader
    <2>2. sphase = "end" /\ rok
      BY <1>1, <1>4 DEF ItemOK, Phases
    <2>3. Still
      BY <1>2, <2>1 DEF Still, Active
    <2>4. Answered' /\ rok'
      BY <1>2, <2>1, <2>2 DEF Answered
    <2>5. Acks'
      BY <2>4, AcksLater
    <2> QED
      BY <1>1, <2>3, <2>5, StillKeeps, LineSub DEF Exchange
  <1>5. b.what # "data"
    BY <1>1 DEF ItemOK, Phases
  <1> QED
    BY <1>3, <1>4, <1>5 DEF IsBlock

\* The block of data that is taken is the one the sender waits for.
LEMMA TakenIsCurrent ==
  ASSUME Kinds, Exchange, rpc = "get", rphase = "data", NEW b \in Blocks, ItemOK(b), b.n = rnum % BlockMod, b.ok
  PROVE  /\ b.what = "data" /\ Current(b) /\ sent < flen /\ Fit
         /\ b.from = sent /\ b.len = size /\ Len(written) = sent
  <1>1. Phases /\ Contented
    BY DEF Exchange
  <1>2. rnum \in Nat /\ rnum >= 1 /\ rnum - 1 \in Nat /\ (rnum - 1) + 1 = rnum
    BY DEF Kinds, ReceiverKinds
  <1>3. rnum % BlockMod # (rnum - 1) % BlockMod
    BY <1>2, NextDiffers, XmodemAssumption
  <1>4. ~rok
    BY <1>1 DEF Phases, Active
  <1>5. b.what # "last"
    BY <1>1, <1>4 DEF ItemOK, Phases
  <1>6. b.what \in {"header", "data"}
    BY <1>5 DEF Blocks
  <1>7. b.what = "data" => ~Former(b)
    BY <1>3 DEF Former
  <1>8. b.what # "header"
    BY <1>2, <1>3 DEF ItemOK
  <1> QED
    BY <1>1, <1>6, <1>7, <1>8 DEF ItemOK, Contented, Current

\* The file written goes on where it ended.
LEMMA WrittenOn ==
  ASSUME Kinds, Exchange, NEW b \in Blocks, b.from = sent, b.len = size, Len(written) = sent, sent < flen, Fit,
         NEW w, w = Fits(written \o Contents(b))
  PROVE  /\ \A i \in 1..Len(w) : w[i] = IF i <= flen THEN i ELSE Pad
         /\ Len(w) >= sent + Sending
         /\ sent + Sending < flen => Len(w) = sent + Sending
  <1> DEFINE c == Contents(b)   v == written \o c
  <1>1. /\ size \in Nat /\ size >= 1 /\ sent \in Nat /\ flen \in Nat /\ proto \in {"X", "Y"}
        /\ written \in Seq(Nat)
    BY Counts DEF Kinds, LineKinds, ReceiverKinds
  <1>2. /\ c \in Seq(Nat) /\ Len(c) = size
        /\ \A i \in 1..size : c[i] = IF sent + i <= flen THEN sent + i ELSE Pad
    BY ContentsType DEF Contents
  <1> HIDE DEF c
  <1>8. /\ v \in Seq(Nat) /\ Len(v) = Len(written) + Len(c)
        /\ \A i \in 1..(Len(written) + Len(c)) : v[i] = IF i <= Len(written) THEN written[i] ELSE c[i - Len(written)]
    BY <1>1, <1>2, ConcatProperties
  <1>3. /\ v \in Seq(Nat) /\ Len(v) = sent + size
        /\ \A i \in 1..(sent + size) : v[i] = IF i <= sent THEN written[i] ELSE c[i - sent]
    BY <1>2, <1>8
  <1> HIDE DEF v
  <1>4. ASSUME NEW i \in 1..(sent + size) PROVE v[i] = IF i <= flen THEN i ELSE Pad
    <2>1. CASE i <= sent
      BY <1>1, <1>3, <2>1 DEF Exchange, Contented
    <2>2. CASE ~(i <= sent)
      <3>1. i - sent \in 1..size /\ sent + (i - sent) = i
        BY <1>1, <2>2
      <3> QED
        BY <1>2, <1>3, <2>2, <3>1
    <2> QED
      BY <2>1, <2>2
  <1>5. /\ w \in Seq(Nat)
        /\ Len(w) = IF proto = "Y" THEN Smaller(sent + size, flen) ELSE sent + size
        /\ \A i \in 1..Len(w) : w[i] = v[i] /\ i \in 1..(sent + size)
    BY <1>3, FitsType DEF v, c
  <1>6. Len(w) >= sent + Sending
    BY <1>1, <1>5 DEF Sending, Smaller
  <1>7. sent + Sending < flen => Len(w) = sent + Sending
    BY <1>1, <1>5 DEF Sending, Smaller
  <1> QED
    BY <1>4, <1>5, <1>6, <1>7

LEMMA TakeDataExchange ==
  ASSUME Kinds, Kinds', Exchange, rpc = "get", rphase = "data", fwd # <<>>, fwd' = Tail(fwd),
         NEW b \in Blocks, b = Head(fwd), ItemOK(b), b.n = rnum % BlockMod, b.ok,
         TakeData(b), UNCHANGED <<proto, flen, svars>>
  PROVE  Exchange'
  <1>1. Phases /\ Contented /\ Acks /\ Line
    BY DEF Exchange
  <1>2. UNCHANGED <<spc, sphase, size, sent, bnum, sok>>
    BY DEF svars
  <1>3. /\ b.what = "data" /\ Current(b) /\ sent < flen /\ Fit
        /\ b.from = sent /\ b.len = size /\ Len(written) = sent
    BY TakenIsCurrent
  <1>4. flen \in Nat /\ sent \in Nat /\ rnum \in Nat /\ rnum >= 1 /\ bnum = rnum
    BY <1>3 DEF Kinds, LineKinds, SenderKinds, ReceiverKinds, Current
  <1>5. /\ written' = Fits(written \o Contents(b)) /\ rnum' = rnum + 1 /\ ~eot'
        /\ back' = Append(back, "ACK") /\ UNCHANGED <<rpc, rphase, extra, rok>>
    BY <1>3, <1>4 DEF TakeData
  <1>6. ~eot /\ ~rok /\ sphase = "data" /\ spc \notin Early
    BY <1>3 DEF ItemOK
  <1>7. Phases'
    BY <1>1, <1>2, <1>4, <1>5, <1>6 DEF Phases
  <1>8. Fit' /\ Sending' = Sending
    BY <1>2, <1>3 DEF Fit, Sending, Smaller
  <1>9. Contented'
    <2>1. /\ \A i \in 1..Len(written') : written'[i] = IF i <= flen THEN i ELSE Pad
          /\ Len(written') >= sent + Sending
          /\ sent + Sending < flen => Len(written') = sent + Sending
      BY <1>3, <1>5, WrittenOn
    <2> QED
      BY <1>2, <1>3, <1>4, <1>5, <1>8, <2>1 DEF Contented
  <1>10. Answered'
    BY <1>2, <1>4, <1>5, <1>6 DEF Answered
  <1>11. \A i \in 1..Len(back) : back[i] # "ACK"
    BY <1>1, <1>4, <1>6 DEF Acks, Answered
  <1>12. Acks'
    BY <1>5, <1>10, <1>11, AcksFirst
  <1>13. ASSUME NEW x \in Items, ItemOK(x), PairOK(b, x) PROVE ItemOK(x)' /\ x.what # "header"
    <2>1. x.what # "header" /\ (x.what = "data" => Current(x))
      BY <1>3, <1>13 DEF PairOK
    <2>2. Current(x) => Former(x)'
      BY <1>4, <1>5 DEF Current, Former
    <2> QED
      BY <1>2, <1>5, <1>6, <1>13, <2>1, <2>2 DEF ItemOK
  <1>14. ASSUME NEW x \in Items, NEW y \in Items, PairOK(x, y) PROVE PairOK(x, y)'
    <2>1. ~Current(x)'
      BY <1>2, <1>4, <1>5 DEF Current
    <2> QED
      BY <1>14, <2>1 DEF PairOK
  <1>15. Line'
    <2>1. b \in Items /\ Sub(Tail(fwd), fwd')
      BY ReceivedSub DEF Items
    <2> QED
      BY <1>1, <1>13, <1>14, <2>1, LineAfter
  <1> QED
    BY <1>7, <1>9, <1>12, <1>15 DEF Exchange

LEMMA GetBlockExchange == ASSUME Kinds, Kinds', Exchange, GetBlock PROVE Exchange'
  <1>1. /\ UNCHANGED <<proto, flen, svars>> /\ rpc = "get" /\ fwd # <<>> /\ fwd' = Tail(fwd)
        /\ IsBlock(Head(fwd)) /\ Good(Head(fwd)) /\ Head(fwd).n = Expected % BlockMod
    BY DEF GetBlock, Arrives, config
  <1>2. PICK h \in Items : h = Head(fwd) /\ ItemOK(h)
    BY <1>1, HeadItem DEF Exchange
  <1>3. h \in Blocks
    BY <1>1, <1>2 DEF IsBlock, Items, Controls
  <1>4. CASE rphase = "header"
    BY <1>1, <1>2, <1>4, ReceivedSub, TakeHeaderExchange DEF GetBlock
  <1>5. CASE rphase = "data"
    <2>1. TakeData(h) /\ h.n = rnum % BlockMod /\ h.ok
      BY <1>1, <1>2, <1>5 DEF GetBlock, Good, Expected
    <2> QED
      BY <1>1, <1>2, <1>3, <1>5, <2>1, TakeDataExchange
  <1> QED
    BY <1>4, <1>5 DEF Kinds, ReceiverKinds

\* The end of the file is seen only when all of it is in.
LEMMA EndOfFileExchange ==
  ASSUME Kinds, Kinds', Exchange, rpc = "get", eot, NEW rest \in Seq(Items), Sub(fwd, rest), EndOfFile(rest),
         UNCHANGED <<proto, flen, svars>>
  PROVE  Exchange'
  <1>1. Phases /\ Contented /\ Acks /\ Line
    BY DEF Exchange
  <1>2. CASE rphase = "header"
    <2>1. Reject(back) /\ fwd' = rest
      BY <1>2 DEF EndOfFile
    <2>2. back \in Seq(Answers) /\ Quieter(back, back) /\ Sub(fwd, fwd')
      BY <2>1, QuieterSame DEF Kinds, LineKinds
    <2> QED
      BY <2>1, <2>2, RejectExchange
  <1>3. CASE rphase # "header"
    <2>1. /\ rok' /\ Drained(rest, fwd')
          /\ UNCHANGED <<rnum, eot, written, extra>>
          /\ \/ proto = "X" /\ rpc' = "over" /\ rphase' = rphase
             \/ rpc' = "ask" /\ rphase' = "header"
      BY <1>3 DEF EndOfFile, NextFile
    <2>2. UNCHANGED <<spc, sphase, size, sent, bnum, sok>>
      BY DEF svars
    <2>3. /\ sphase # "header" /\ sent >= flen /\ (spc \in Late \/ sphase = "end")
      BY <1>1 DEF Phases
    <2>4. rnum = bnum /\ sphase \in {"data", "end"}
      BY <1>1, <2>3 DEF Phases, Contented, Kinds, LineKinds, SenderKinds
    <2>5. Phases'
      BY <1>1, <2>1, <2>2, <2>3, <2>4 DEF Phases, Active
    <2>6. Fit' = Fit /\ Sending' = Sending
      BY <2>2 DEF Fit, Sending, Smaller
    <2>7. Contented'
      BY <1>1, <2>1, <2>2, <2>6 DEF Contented
    <2>8. Answered'
      BY <2>1, <2>2, <2>3, <2>4 DEF Answered, Early, Late
    <2>9. Acks'
      BY <2>1, <2>8, AcksLater
    <2>10. ASSUME NEW x \in Items, ItemOK(x) PROVE ItemOK(x)'
      BY <2>2, <2>10 DEF ItemOK
    <2>11. ASSUME NEW x \in Items, NEW y \in Items, PairOK(x, y) PROVE PairOK(x, y)'
      BY <2>1, <2>2, <2>11 DEF PairOK, Current
    <2>12. Sub(fwd, fwd')
      <3>1. Sub(rest, fwd') /\ Len(fwd) \in Nat /\ Len(rest) \in Nat /\ Len(fwd') \in Nat
        BY <2>1, SubDrained DEF Kinds, LineKinds
      <3> QED
        BY <3>1, SubTrans
    <2>13. Line'
      BY <1>1, <2>10, <2>11, <2>12, LineSub DEF ItemsKept
    <2> QED
      BY <2>5, <2>7, <2>9, <2>13 DEF Exchange
  <1> QED
    BY <1>2, <1>3

\* After the first EOT no block can come.
LEMMA FirstEotExchange ==
  ASSUME Kinds, Kinds', Exchange, rpc = "get", ~eot, fwd # <<>>, Head(fwd).what = "EOT",
         gerr < MaxErrors, Again(Append(back, Request), TRUE), Drained(Tail(fwd), fwd'),
         UNCHANGED <<proto, flen, svars>>
  PROVE  Exchange'
  <1>1. Phases /\ Contented /\ Acks /\ Line
    BY DEF Exchange
  <1>2. PICK h \in Items : h = Head(fwd) /\ ItemOK(h)
    BY <1>1, HeadItem
  <1>3. /\ UNCHANGED <<spc, sphase, size, sent, bnum, sok>> /\ back' = Append(back, Request)
        /\ UNCHANGED <<rpc, rphase, rnum, written, extra, rok>>
    BY DEF Again, svars
  <1>4. sphase # "header" /\ sent >= flen /\ (spc \in Late \/ sphase = "end")
    BY <1>2 DEF ItemOK
  <1>5. Phases'
    BY <1>1, <1>3, <1>4 DEF Phases
  <1>6. Fit' = Fit /\ Sending' = Sending
    BY <1>3 DEF Fit, Sending, Smaller
  <1>7. Contented'
    BY <1>1, <1>3, <1>6 DEF Contented
  <1>8. Acks'
    <2>1. back \in Seq(Answers) /\ Request \in Answers /\ Request # "ACK"
      BY DEF Kinds, LineKinds, Request, Answers
    <2>2. Quieter(back, back')
      BY <1>3, <2>1, QuieterSame, QuieterAppend
    <2>3. Answered => Answered'
      BY <1>3 DEF Answered
    <2> QED
      BY <1>1, <1>3, <2>2, <2>3, AcksQuieter
  <1>9. ASSUME NEW x \in Items, ItemOK(x), PairOK(h, x) PROVE ItemOK(x)'
    <2>1. x.what \notin {"header", "data"}
      BY <1>2, <1>9 DEF PairOK
    <2> QED
      BY <1>3, <1>9, <2>1 DEF ItemOK
  <1>10. ASSUME NEW x \in Items, NEW y \in Items, PairOK(x, y) PROVE PairOK(x, y)'
    BY <1>3, <1>10 DEF PairOK, Current
  <1>11. Sub(Tail(fwd), fwd')
    BY SubDrained, SubTail DEF Kinds, LineKinds
  <1>12. Line'
    BY <1>1, <1>2, <1>9, <1>10, <1>11, LineAfter
  <1> QED
    BY <1>5, <1>7, <1>8, <1>12 DEF Exchange

LEMMA GetEotExchange == ASSUME Kinds, Kinds', Exchange, GetEot PROVE Exchange'
  <1>1. /\ UNCHANGED <<proto, flen, svars>> /\ rpc = "get" /\ fwd # <<>> /\ Head(fwd).what = "EOT"
    BY DEF GetEot, Arrives, config
  <1>2. Tail(fwd) \in Seq(Items) /\ Sub(fwd, Tail(fwd)) /\ back \in Seq(Answers)
    BY <1>1, SubTail DEF Kinds, LineKinds
  <1>3. CASE eot
    BY <1>1, <1>2, <1>3, EndOfFileExchange DEF GetEot
  <1>4. CASE ~eot
    <2>1. Again(Append(back, Request), TRUE) /\ Drained(Tail(fwd), fwd')
      BY <1>4 DEF GetEot
    <2>2. CASE gerr < MaxErrors
      BY <1>1, <1>4, <2>1, <2>2, FirstEotExchange
    <2>3. CASE ~(gerr < MaxErrors)
      <3>1. Append(back, Request) \in Seq(Answers) /\ Quieter(back, Append(back, Request))
        <4>1. Request \in Answers /\ Request # "ACK"
          BY DEF Request, Answers
        <4> QED
          BY <1>2, <4>1, QuieterSame, QuieterAppend, AppendedAt
      <3>2. Reject(Append(back, Request))
        BY <2>1, <2>3 DEF Again
      <3>3. Sub(Tail(fwd), fwd') /\ fwd \in Seq(Items) /\ fwd' \in Seq(Items)
        BY <1>2, <2>1, SubDrained DEF Kinds, LineKinds
      <3>5. Len(fwd) \in Nat /\ Len(Tail(fwd)) \in Nat /\ Len(fwd') \in Nat
        BY <1>2, <3>3
      <3>4. Sub(fwd, fwd')
        BY <1>2, <3>3, <3>5, SubTrans
      <3> QED
        BY <1>1, <3>1, <3>2, <3>4, RejectExchange
    <2> QED
      BY <2>2, <2>3
  <1> QED
    BY <1>3, <1>4

LEMMA GetTimeoutExchange == ASSUME Kinds, Kinds', Exchange, GetTimeout PROVE Exchange'
  <1>1. /\ UNCHANGED <<proto, flen, svars>> /\ rpc = "get"
        /\ fwd \in Seq(Items) /\ Sub(fwd, fwd) /\ back \in Seq(Answers) /\ Quieter(back, back)
    BY SubSame, QuieterSame DEF GetTimeout, config, Kinds, LineKinds
  <1>2. CASE eot
    BY <1>1, <1>2, EndOfFileExchange DEF GetTimeout
  <1>3. CASE ~eot
    BY <1>1, <1>3, RejectExchange DEF GetTimeout
  <1> QED
    BY <1>2, <1>3

(* The line, and the step.                                                  *)

LEMMA QuietStill ==
  ASSUME Kinds, UNCHANGED <<proto, flen, svars, rvars>> PROVE Still
  BY DEF Still, svars, rvars

LEMMA LoseExchange == ASSUME Kinds, Kinds', Exchange, Lose PROVE Exchange'
  <1>1. Still /\ fwd \in Seq(Items) /\ back \in Seq(Answers)
    BY QuietStill DEF Lose, config, Kinds, LineKinds
  <1>2. Sub(fwd, fwd') /\ Sub(back, back')
    BY <1>1, SubSame, SubRemoved DEF Lose
  <1> QED
    BY <1>1, <1>2, StillSub

LEMMA GarbleExchange == ASSUME Kinds, Kinds', Exchange, Garble PROVE Exchange'
  <1>1. Still /\ fwd \in Seq(Items) /\ back \in Seq(Answers)
    BY QuietStill DEF Garble, config, Kinds, LineKinds
  <1>2. ASSUME NEW i \in 1..Len(back), back' = [back EXCEPT ![i] = "junk"], fwd' = fwd PROVE Exchange'
    <2>1. Quieter(back, back')
      BY <1>1, <1>2 DEF Quieter
    <2> QED
      BY <1>1, <1>2, <2>1, SubSame, StillQuieter
  <1>3. ASSUME NEW i \in 1..Len(fwd), fwd' = [fwd EXCEPT ![i] = Garbled(fwd[i])], back' = back PROVE Exchange'
    <2>1. ItemsKept /\ Line
      BY <1>1, StillKeeps DEF Exchange
    <2>2. ASSUME NEW k \in 1..Len(fwd)
          PROVE  \E x \in Items : x = fwd[k] /\ ItemOK(x) /\ fwd'[k] \in {x, Garbled(x)}
      BY <1>1, <1>3, <2>1, <2>2 DEF Line
    <2>3. ASSUME NEW x \in Items
          PROVE  \/ Garbled(x).what = "junk"
                 \/ /\ Garbled(x).what = x.what /\ Garbled(x).n = x.n /\ ~Garbled(x).ok
      BY DEF Garbled, IsBlock, Items, Blocks, Controls, Control
    <2>4. ASSUME NEW x \in Items, ItemOK(x)', NEW y \in {x, Garbled(x)} PROVE ItemOK(y)'
      BY <2>3, <2>4 DEF ItemOK, Current, Former
    <2>5. ASSUME NEW x \in Items, NEW y \in Items, PairOK(x, y)',
                 NEW u \in {x, Garbled(x)}, NEW v \in {y, Garbled(y)}
          PROVE  PairOK(u, v)'
      BY <2>3, <2>5 DEF PairOK, Current
    <2>6. Len(fwd') = Len(fwd)
      BY <1>1, <1>3
    <2>7. ASSUME NEW k \in 1..Len(fwd) PROVE ItemOK(fwd[k])'
      <3>1. PICK x \in Items : x = fwd[k] /\ ItemOK(x) /\ fwd'[k] \in {x, Garbled(x)}
        BY <2>2
      <3>2. ItemOK(x)'
        BY <2>1, <3>1 DEF ItemsKept
      <3>3. PICK y \in {x, Garbled(x)} : y = fwd'[k]
        BY <3>1
      <3>4. ItemOK(y)'
        BY <2>4, <3>2
      <3> QED
        BY <3>3, <3>4
    <2>8. ASSUME NEW k \in 1..Len(fwd), NEW l \in 1..Len(fwd), k < l PROVE PairOK(fwd[k], fwd[l])'
      <3>1. PICK x \in Items : x = fwd[k] /\ ItemOK(x) /\ fwd'[k] \in {x, Garbled(x)}
        BY <2>2
      <3>2. PICK y \in Items : y = fwd[l] /\ ItemOK(y) /\ fwd'[l] \in {y, Garbled(y)}
        BY <2>2
      <3>3. PairOK(x, y)
        BY <2>1, <2>8, <3>1, <3>2 DEF Line
      <3>4. PairOK(x, y)'
        BY <2>1, <3>1, <3>2, <3>3 DEF ItemsKept
      <3>5. PICK u \in {x, Garbled(x)} : u = fwd'[k]
        BY <3>1
      <3>6. PICK v \in {y, Garbled(y)} : v = fwd'[l]
        BY <3>2
      <3>7. PairOK(u, v)'
        BY <2>5, <3>4
      <3> QED
        BY <3>5, <3>6, <3>7
    <2>9. Line'
      BY <2>6, <2>7, <2>8 DEF Line
    <2>10. Acks'
      BY <1>1, <1>3, StillKeeps, QuieterSame, AcksQuieter DEF Exchange
    <2> QED
      BY <1>1, <2>9, <2>10, StillKeeps DEF Exchange
  <1> QED
    BY <1>2, <1>3 DEF Garble, Garbled

LEMMA DisconnectExchange == ASSUME Kinds, Kinds', Exchange, Disconnect PROVE Exchange'
  <1>1. Still /\ Sub(fwd, fwd') /\ Sub(back, back')
    BY QuietStill, SubSame DEF Disconnect, wire, Kinds, LineKinds
  <1> QED
    BY <1>1, StillSub

LEMMA HangUpExchange == ASSUME Kinds, Kinds', Exchange, HangUp PROVE Exchange'
  <1>1. UNCHANGED <<proto, flen>> /\ Sub(fwd, fwd') /\ Sub(back, back')
    BY SubSame DEF HangUp, config, wire, Kinds, LineKinds
  <1>2. Still
    <2>1. CASE spc' \in {"over", "failed"} /\ UNCHANGED <<sphase, scrc, size, sent, bnum, serr, stry, sok, rvars>>
      BY <1>1, <2>1 DEF Still, rvars, Early, Late
    <2>2. CASE /\ rpc' = "failed"
               /\ UNCHANGED <<svars, rphase, rcrc, rnum, rerr, gerr, eot, written, extra, rok>>
      BY <1>1, <2>2 DEF Still, svars, Active
    <2> QED
      BY <2>1, <2>2 DEF HangUp
  <1> QED
    BY <1>1, <1>2, StillSub

LEMMA StutterExchange == ASSUME Kinds, Kinds', Exchange, UNCHANGED vars PROVE Exchange'
  <1>1. Still /\ Sub(fwd, fwd') /\ Sub(back, back')
    BY QuietStill, SubSame DEF vars, config, wire, Kinds, LineKinds
  <1> QED
    BY <1>1, StillSub

LEMMA InitExchange == ASSUME Init PROVE Exchange
  <1>1. Phases
    BY DEF Init, Phases, Late
  <1>2. Contented
    BY XmodemAssumption DEF Init, Contented
  <1>3. Acks /\ Line
    BY DEF Init, Acks, Line
  <1> QED
    BY <1>1, <1>2, <1>3 DEF Exchange

LEMMA SpoiltStays == ASSUME [Next]_vars, ~spoilt' PROVE ~spoilt
  <1>1. CASE SendStart \/ ModeGet \/ ModeTimeout \/ SendHeader \/ SendBlock \/ SendsAll \/ SendLast
    BY <1>1 DEF SendStart, ModeGet, ModeTimeout, SendHeader, SendBlock, SendsAll, SendLast, history
  <1>2. CASE NotAcked
    BY <1>2 DEF NotAcked
  <1>3. CASE AckGet \/ AckTimeout
    BY <1>2, <1>3 DEF AckGet, AckTimeout, Acked
  <1>4. CASE EotSend \/ EotGet \/ EotTimeout
    BY <1>4 DEF EotSend, EotGet, EotTimeout, history
  <1>5. CASE ReceiverStep
    BY <1>5 DEF ReceiverStep, RecvStart, Ask, GetBlock, GetRepeated, GetBad, GetEot, GetCan, GetTimeout, history
  <1>6. CASE Lose \/ Garble \/ Disconnect \/ HangUp \/ UNCHANGED vars
    BY <1>6 DEF Lose, Garble, Disconnect, HangUp, vars, history
  <1> QED
    BY <1>1, <1>3, <1>4, <1>5, <1>6 DEF Next, SenderStep

\* The inductive invariant.
Inv == Kinds /\ (spoilt \/ Exchange)

LEMMA NextInv == ASSUME Inv, [Next]_vars PROVE Inv'
  <1>1. Kinds /\ Kinds'
    BY NextKinds DEF Inv
  <1>2. ASSUME ~spoilt' PROVE Exchange'
    <2>1. Exchange
      BY <1>1, <1>2, SpoiltStays DEF Inv
    <2> QED
      BY <1>1, <1>2, <2>1, StutterExchange,
         SendStartExchange, ModeGetExchange, ModeTimeoutExchange, SendHeaderExchange, SendBlockExchange,
         SendsAllExchange, SendLastExchange, AckGetExchange, AckTimeoutExchange, EotSendExchange,
         EotGetExchange, EotTimeoutExchange, RecvStartExchange, AskExchange, GetBlockExchange,
         GetRepeatedExchange, GetBadExchange, GetEotExchange, GetCanExchange, GetTimeoutExchange,
         LoseExchange, GarbleExchange, DisconnectExchange, HangUpExchange
         DEF Next, SenderStep, ReceiverStep
  <1> QED
    BY <1>1, <1>2 DEF Inv

LEMMA InvIntact == ASSUME Inv PROVE Intact
  <1>1. SUFFICES ASSUME ~spoilt, Exchange
                 PROVE  /\ \A i \in DOMAIN written : written[i] = IF i <= flen THEN i ELSE Pad
                        /\ rok => Len(written) >= flen
    BY DEF Inv, Intact
  <1>2. Phases /\ Contented
    BY <1>1 DEF Exchange
  <1>3. DOMAIN written = 1..Len(written) /\ Len(written) \in Nat /\ sent \in 0..flen /\ flen \in Nat
    <2>1. Kinds
      BY DEF Inv
    <2>2. written \in Seq(Nat) /\ sent \in 0..flen /\ flen \in Nat
      BY <2>1 DEF Kinds, LineKinds, SenderKinds, ReceiverKinds
    <2> QED
      BY <2>2
  <1>4. ASSUME rok PROVE Len(written) >= flen
    <2>1. rnum = bnum /\ sent >= flen
      BY <1>2, <1>4, Zenon DEF Phases
    <2>2. Len(written) >= sent
      BY <1>2, <2>1, Zenon DEF Contented
    <2> QED
      BY <1>3, <2>1, <2>2
  <1> QED
    BY <1>2, <1>3, <1>4 DEF Contented

\* The file received is the file sent, for files of any length, block numbers
\* that wrap at any modulus above 1, and any number of faults.
THEOREM ArrivesIntact == Spec => []Intact
  <1>1. Init => Inv
    BY InitKinds, InitExchange DEF Inv
  <1>2. Inv /\ [Next]_vars => Inv'
    BY NextInv
  <1> QED
    BY <1>1, <1>2, InvIntact, PTL DEF Spec

-----------------------------------------------------------------------------
(* The refinement: every step is one of a stop-and-wait transfer, or none.  *)

Counted == UNCHANGED <<rnum, extra, bnum, rok, sok>>

LEMMA RoutinesCount ==
  ASSUME Fail \/ Leave \/ ModeError \/ NotAcked \/ EotError PROVE UNCHANGED <<bnum, sok>>
  <1>1. CASE Fail \/ Leave
    BY <1>1 DEF Fail, Leave
  <1>2. CASE ModeError
    BY <1>1, <1>2 DEF ModeError
  <1>3. CASE NotAcked
    BY <1>1, <1>3 DEF NotAcked
  <1>4. CASE EotError
    BY <1>1, <1>4 DEF EotError
  <1> QED
    BY <1>1, <1>2, <1>3, <1>4

LEMMA SenderCounts ==
  ASSUME \/ SendStart \/ ModeGet \/ ModeTimeout \/ SendHeader \/ SendBlock \/ SendsAll \/ SendLast
         \/ AckTimeout \/ EotSend \/ EotTimeout
  PROVE  Counted
  <1>1. UNCHANGED rvars
    BY DEF SendStart, ModeGet, ModeTimeout, SendHeader, SendBlock, SendsAll, SendLast, AckTimeout,
           EotSend, EotTimeout
  <1>2. UNCHANGED <<bnum, sok>>
    <2>1. CASE SendStart \/ SendHeader \/ SendBlock \/ SendsAll \/ SendLast \/ EotSend
      BY <2>1 DEF SendStart, SendHeader, SendBlock, SendsAll, SendLast, EotSend
    <2>2. CASE ModeGet
      BY <2>2, RoutinesCount DEF ModeGet
    <2>3. CASE ModeTimeout \/ AckTimeout \/ EotTimeout
      BY <2>3, RoutinesCount DEF ModeTimeout, AckTimeout, EotTimeout
    <2> QED
      BY <2>1, <2>2, <2>3
  <1> QED
    BY <1>1, <1>2 DEF Counted, rvars

LEMMA AckGetCounts ==
  ASSUME Kinds, Exchange, AckGet
  PROVE  Counted \/ (bnum < rnum /\ bnum' = rnum /\ UNCHANGED <<rnum, extra, rok, sok>>)
  <1>1. UNCHANGED rvars /\ spc = "ack" /\ back # <<>>
    BY DEF AckGet
  <1>2. CASE Fail \/ NotAcked
    BY <1>1, <1>2, RoutinesCount DEF Counted, rvars
  <1>3. CASE Head(back) = "ACK" /\ Acked
    <2>1. CASE sphase = "data"
      <3>1. rnum = bnum + 1 /\ bnum \in Nat
        BY <1>1, <1>3, <2>1, AckMeans DEF Kinds, SenderKinds
      <3> QED
        BY <1>1, <1>3, <2>1, <3>1 DEF Acked, rvars
    <2>2. CASE sphase # "data"
      BY <1>1, <1>3, <2>2 DEF Acked, Counted, rvars
    <2> QED
      BY <2>1, <2>2
  <1> QED
    BY <1>2, <1>3 DEF AckGet

LEMMA EotGetCounts ==
  ASSUME Kinds, Exchange, EotGet
  PROVE  Counted \/ (rok /\ sok' /\ UNCHANGED <<rnum, extra, bnum, rok>>)
  <1>1. UNCHANGED rvars /\ spc = "eotack" /\ back # <<>>
    BY DEF EotGet
  <1>2. CASE Fail \/ EotError
    BY <1>1, <1>2, RoutinesCount DEF Counted, rvars
  <1>3. CASE Head(back) = "ACK" /\ EotAcked
    BY <1>1, <1>3, EotAckMeans DEF EotAcked, rvars
  <1> QED
    BY <1>2, <1>3 DEF EotGet

LEMMA RejectCounts ==
  ASSUME NEW out, NEW e, Reject(out) \/ Again(out, e) PROVE UNCHANGED <<rnum, extra, rok>>
  BY DEF Reject, Again

LEMMA EndOfFileCounts ==
  ASSUME Kinds, Exchange, eot, NEW rest, EndOfFile(rest), UNCHANGED svars
  PROVE  Counted \/ (rnum = bnum /\ rok' /\ UNCHANGED <<rnum, extra, bnum, sok>>)
  <1>1. CASE Reject(back)
    BY <1>1, RejectCounts DEF Counted, svars
  <1>2. CASE rok' /\ UNCHANGED <<rnum, extra>>
    <2>1. rnum = bnum
      BY DEF Exchange, Phases, Contented, Kinds, LineKinds, SenderKinds
    <2> QED
      BY <1>2, <2>1 DEF svars
  <1> QED
    BY <1>1, <1>2 DEF EndOfFile

LEMMA ReceiverCounts ==
  ASSUME Kinds, Exchange, ReceiverStep
  PROVE  \/ Counted
         \/ ~rok /\ rnum = bnum /\ rnum' = rnum + 1 /\ UNCHANGED <<extra, bnum, rok, sok>>
         \/ rnum = bnum /\ rok' /\ UNCHANGED <<rnum, extra, bnum, sok>>
  <1>1. UNCHANGED svars
    BY DEF ReceiverStep, RecvStart, Ask, GetBlock, GetRepeated, GetBad, GetEot, GetCan, GetTimeout
  <1>2. CASE RecvStart \/ Ask
    BY <1>1, <1>2 DEF RecvStart, Ask, Counted, svars
  <1>3. CASE GetRepeated
    BY <1>1, <1>3, RejectCounts DEF GetRepeated, Counted, svars
  <1>4. CASE GetBad
    BY <1>1, <1>4, RejectCounts DEF GetBad, Counted, svars
  <1>5. CASE GetCan
    BY <1>1, <1>5, RejectCounts DEF GetCan, Counted, svars
  <1>6. CASE GetEot
    <2>1. CASE eot
      BY <1>1, <1>6, <2>1, EndOfFileCounts DEF GetEot
    <2>2. CASE ~eot
      BY <1>1, <1>6, <2>2, RejectCounts DEF GetEot, Counted, svars
    <2> QED
      BY <2>1, <2>2
  <1>7. CASE GetTimeout
    <2>1. CASE eot
      BY <1>1, <1>7, <2>1, EndOfFileCounts DEF GetTimeout
    <2>2. CASE ~eot
      BY <1>1, <1>7, <2>2, RejectCounts DEF GetTimeout, Counted, svars
    <2> QED
      BY <2>1, <2>2
  <1>8. CASE GetBlock
    <2>1. /\ rpc = "get" /\ fwd # <<>> /\ IsBlock(Head(fwd)) /\ Good(Head(fwd))
          /\ Head(fwd).n = Expected % BlockMod
      BY <1>8 DEF GetBlock, Arrives
    <2>2. PICK h \in Items : h = Head(fwd) /\ ItemOK(h)
      BY <2>1, HeadItem DEF Exchange
    <2>3. CASE rphase = "header"
      <3>1. h.what = "header" => rnum = 1
        BY <2>2 DEF ItemOK
      <3> QED
        BY <1>1, <1>8, <2>2, <2>3, <3>1 DEF GetBlock, TakeHeader, Counted, svars
    <2>4. CASE rphase = "data"
      <3>1. TakeData(h) /\ h.n = rnum % BlockMod /\ h.ok /\ h \in Blocks
        BY <1>8, <2>1, <2>2, <2>4 DEF GetBlock, Good, Expected, IsBlock, Items, Controls
      <3>2. Current(h) /\ Len(written) = sent /\ sent < flen /\ ~rok
        BY <2>1, <2>2, <2>4, <3>1, TakenIsCurrent DEF ItemOK
      <3>3. ~(Len(written) >= flen)
        BY <3>2 DEF Kinds, LineKinds, SenderKinds
      <3>4. rnum' = rnum + 1 /\ UNCHANGED <<extra, rok>>
        BY <3>1, <3>3 DEF TakeData
      <3> QED
        BY <1>1, <3>2, <3>4 DEF Current, svars
    <2> QED
      BY <2>3, <2>4 DEF Kinds, ReceiverKinds
  <1> QED
    BY <1>2, <1>3, <1>4, <1>5, <1>6, <1>7, <1>8 DEF ReceiverStep

LEMMA OthersCount ==
  ASSUME Lose \/ Garble \/ Disconnect \/ HangUp \/ UNCHANGED vars PROVE Counted
  BY DEF Lose, Garble, Disconnect, HangUp, vars, Counted, rvars, svars

LEMMA InitTransfer == ASSUME Init PROVE FT!Init
  BY DEF Init, FT!Init

LEMMA NextTransfer == ASSUME Inv, [Next]_vars PROVE [FT!Next]_(FT!vars)
  <1>1. Kinds /\ Kinds'
    BY NextKinds DEF Inv
  <1>2. CASE spoilt'
    BY <1>2 DEF FT!Next
  <1>3. CASE ~spoilt'
    <2>1. Exchange /\ UNCHANGED spoilt /\ extra = 0
      BY <1>1, <1>3, SpoiltStays DEF Inv, Kinds, LineKinds, Exchange, Phases
    <2>2. rnum \in Nat /\ bnum \in Nat
      BY <1>1 DEF Kinds, SenderKinds, ReceiverKinds
    <2>3. CASE Counted
      BY <2>1, <2>3 DEF Counted, FT!vars, FT!counts, FT!ends
    <2>4. CASE ~rok /\ rnum = bnum /\ rnum' = rnum + 1 /\ UNCHANGED <<extra, bnum, rok, sok>>
      BY <2>1, <2>2, <2>4 DEF FT!Next, FT!Take, FT!ends
    <2>5. CASE rnum = bnum /\ rok' /\ UNCHANGED <<rnum, extra, bnum, sok>>
      BY <2>1, <2>2, <2>5 DEF FT!Next, FT!Receive, FT!counts
    <2>6. CASE bnum < rnum /\ bnum' = rnum /\ UNCHANGED <<rnum, extra, rok, sok>>
      BY <2>1, <2>2, <2>6 DEF FT!Next, FT!Confirm, FT!ends
    <2>7. CASE rok /\ sok' /\ UNCHANGED <<rnum, extra, bnum, rok>>
      BY <2>1, <2>7 DEF FT!Next, FT!Report, FT!counts
    <2> QED
      BY <1>1, <2>1, <2>3, <2>4, <2>5, <2>6, <2>7, SenderCounts, AckGetCounts, EotGetCounts,
         ReceiverCounts, OthersCount DEF Next, SenderStep
  <1> QED
    BY <1>2, <1>3

\* As long as block 1 keeps its length the two programs are a stop-and-wait
\* transfer: no ACK is taken for that of another block, a block is written once,
\* and the sender reports a file complete only when the receiver has all of it.
THEOREM TransferRefined == Spec => ImplementsTransfer
  <1>1. Init => Inv /\ FT!Init
    BY InitKinds, InitExchange, InitTransfer DEF Inv
  <1>2. Inv /\ [Next]_vars => Inv'
    BY NextInv
  <1>3. Inv /\ [Next]_vars => [FT!Next]_(FT!vars)
    BY NextTransfer
  <1> QED
    BY <1>1, <1>2, <1>3, PTL DEF Spec, ImplementsTransfer, FT!Spec

=============================================================================
