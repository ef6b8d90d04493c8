--------------------------- MODULE SmbBase_proofs ---------------------------
(* Theorems about SmbBase, for every set of processes and every base.      *)
EXTENDS SmbBase, SequenceTheorems, TLAPS

\* The steps of a purge that has the .sha file open
PgHa == {"pg_scan", "pg_freedat", "pg_freehdr", "pg_trunc", "pg_putstatus", "pg_close"}

HaHeld == \A q \in Proc : pc[q] \in PgHa => haLock = q

CutFits == \A q \in Proc : pc[q] = "pg_trunc" => Len(buf[q]) <= Len(sid)

TypeInv == TypeOK /\ HaHeld /\ CutFits

-----------------------------------------------------------------------------
LEMMA PutMsgIdxSeq ==
  ASSUME NEW s \in Seq(IdxRecs), NEW off \in Nat, NEW r \in IdxRecs
  PROVE  /\ PutMsgIdx(s, off, r) \in Seq(IdxRecs)
         /\ Len(PutMsgIdx(s, off, r)) >= Len(s)
  <1>1. CASE off < Len(s)
    <2>1. off + 1 \in 1..Len(s)
      BY <1>1
    <2> QED
      BY <1>1, <2>1, ExceptSeq DEF PutMsgIdx
  <1>2. CASE off = Len(s)
    BY <1>2, AppendProperties DEF PutMsgIdx
  <1>3. CASE off > Len(s)
    BY <1>3 DEF PutMsgIdx
  <1> QED
    BY <1>1, <1>2, <1>3

\* What the updates of one process's message do to all of them
LEMMA MsgNew ==
  ASSUME NEW n \in Nat, NEW s \in Slots \cup {0}, NEW o \in Nat
  PROVE  NewMsg(n, s, o) \in Msgs /\ NewMsg(n, s, o).slot = s
  BY DEF NewMsg, Msgs

LEMMA MsgSlot ==
  ASSUME NEW m \in [Proc -> Msgs], NEW p \in Proc, NEW s \in Slots
  PROVE  /\ [m EXCEPT ![p].slot = s] \in [Proc -> Msgs]
         /\ \A q \in Proc : [m EXCEPT ![p].slot = s][q].slot = IF q = p THEN s ELSE m[q].slot
  BY DEF Msgs

LEMMA InitTypeInv == Init => TypeInv
  <1> SUFFICES ASSUME Init PROVE TypeInv
    OBVIOUS
  <1>0. PICK n \in 0..InitMsgs : \E marked \in [1..n -> {{}, {"delete"}}] :
          /\ status = [last |-> n, total |-> n]
          /\ sid = [i \in 1..n |-> [num |-> i, slot |-> i, attr |-> marked[i]]]
          /\ shd = [s \in Slots |-> IF s \in 1..n THEN [num |-> s, attr |-> marked[s]]
                                                 ELSE NoHdr]
          /\ sha = 1..n /\ shaEnd = n
    BY DEF Init
  <1>1. PICK marked \in [1..n -> {{}, {"delete"}}] :
          /\ status = [last |-> n, total |-> n]
          /\ sid = [i \in 1..n |-> [num |-> i, slot |-> i, attr |-> marked[i]]]
          /\ shd = [s \in Slots |-> IF s \in 1..n THEN [num |-> s, attr |-> marked[s]]
                                                 ELSE NoHdr]
          /\ sha = 1..n /\ shaEnd = n
    BY <1>0
  <1>2. n \in Nat /\ 1..n \subseteq Slots
    BY SmbBaseAssumption DEF SmbBaseAssumption
  <1>3. \A i \in 1..n : marked[i] \in SUBSET Attrs
    BY DEF Attrs
  <1>4. sid \in Seq(IdxRecs)
    <2>1. \A i \in 1..n : [num |-> i, slot |-> i, attr |-> marked[i]] \in IdxRecs
      BY <1>2, <1>3 DEF IdxRecs
    <2>2. sid \in [1..n -> IdxRecs]
      BY <1>1, <2>1
    <2> QED
      BY <1>2, <2>2, SeqDef
  <1>5. shd \in [Slots -> Hdrs]
    BY <1>1, <1>2, <1>3, SmbBaseAssumption DEF NoHdr, Hdrs, SmbBaseAssumption
  <1>6. TypeOK
    BY <1>1, <1>2, <1>4, <1>5 DEF Init, TypeOK, NoStatus, NoMsg, NewMsg, Msgs, Statuses
  <1> QED
    BY <1>6 DEF Init, TypeInv, HaHeld, CutFits, PgHa

LEMMA CommonTypeInv ==
  ASSUME TypeInv, NEW p \in Proc, Unlock(p) \/ CloseBase(p) \/ Crash(p)
  PROVE  TypeInv'
  <1> USE DEF TypeInv, TypeOK, HaHeld, CutFits, PgHa, Goto, Forget, locks, files, local,
              NoStatus, NoMsg, NewMsg, Msgs, Statuses
  <1>1. CASE Unlock(p)
    <2>1. buf' \in [Proc -> Seq(IdxRecs)]
      BY <1>1, EmptySeq DEF Unlock
    <2> QED
      BY <1>1, <2>1 DEF Unlock
  <1>2. CASE CloseBase(p)
    BY <1>2 DEF CloseBase
  <1>3. CASE Crash(p)
    <2>1. buf' \in [Proc -> Seq(IdxRecs)]
      BY <1>3, EmptySeq DEF Crash
    <2> QED
      BY <1>3, <2>1 DEF Crash
  <1> QED
    BY <1>1, <1>2, <1>3

LEMMA PostTypeInv ==
  ASSUME TypeInv, NEW p \in Proc, AddLock(p) \/ HeaderLock(p) \/ PostStep(p)
  PROVE  TypeInv'
  <1>0. /\ status \in Statuses /\ st \in [Proc -> Statuses] /\ msg \in [Proc -> Msgs]
        /\ status.last + 1 \in Nat /\ status.total \in Nat
        /\ st[p].last + 1 \in Nat /\ st[p].total + 1 \in Nat
    <2>1. /\ status \in Statuses /\ st \in [Proc -> Statuses] /\ msg \in [Proc -> Msgs]
      BY DEF TypeInv, TypeOK
    <2> QED
      BY <2>1 DEF Statuses
  <1> USE DEF TypeInv, TypeOK, HaHeld, CutFits, PgHa, Goto, locks, files, local
  <1>1. CASE AddLock(p)
    BY <1>1 DEF AddLock
  <1>2. CASE HeaderLock(p)
    BY <1>2 DEF HeaderLock
  <1>3. CASE AddStatus(p)
    <2>1. NewMsg(status.last + 1, 0, 0) \in Msgs
      BY <1>0, MsgNew
    <2> QED
      BY <1>3, <2>1 DEF AddStatus
  <1>4. CASE AddData(p) \/ AddDataTimeout(p)
    BY <1>4 DEF AddData, AddDataTimeout
  <1>5. CASE AddHdr(p)
    <2>1. NewMsg(status.last + 1, 0, status.total) \in Msgs
      BY <1>0, MsgNew
    <2>2. CASE Len(sid) = status.total
      <3>1. /\ msg' = [msg EXCEPT ![p] = NewMsg(status.last + 1, 0, status.total)]
            /\ st' = [st EXCEPT ![p] = status] /\ pc' = [pc EXCEPT ![p] = "add_alloc"]
            /\ UNCHANGED <<locks, files, buf, pos>> /\ pc[p] = "add_hdr"
        <4> HIDE DEF TypeInv, TypeOK
        <4> QED
          BY <1>5, <2>2 DEF AddHdr
      <3> QED
        BY <2>1, <3>1
    <2>3. CASE Len(sid) # status.total
      BY <1>5, <2>3 DEF AddHdr, AfterFailure
    <2> QED
      BY <2>2, <2>3
  <1>6. CASE AddAlloc(p)
    <2>1. PICK s \in FreeSlots :
            /\ msg' = [msg EXCEPT ![p].slot = s]
            /\ sha' = IF Hyper THEN sha ELSE sha \cup {s}
            /\ shaEnd' = IF Hyper \/ s <= shaEnd THEN shaEnd ELSE s
      BY <1>6 DEF AddAlloc
    <2>2. s \in Slots /\ s \in Nat
      BY <2>1, SmbBaseAssumption DEF FreeSlots, SmbBaseAssumption
    <2>3. msg \in [Proc -> Msgs]
      OBVIOUS
    <2> HIDE DEF TypeInv, TypeOK
    <2>4. /\ msg' \in [Proc -> Msgs]
          /\ \A q \in Proc : msg'[q].slot = IF q = p THEN s ELSE msg[q].slot
      BY <2>1, <2>2, <2>3, MsgSlot
    <2> QED
      BY <1>6, <2>1, <2>2, <2>4 DEF AddAlloc, TypeInv, TypeOK
  <1>7. CASE AddAllocTimeout(p)
    BY <1>7 DEF AddAllocTimeout, AfterFailure
  <1>8. CASE AddPutHdr(p)
    <2>1. shd' \in [Slots -> Hdrs]
      BY <1>8 DEF AddPutHdr, Hdrs, Msgs
    <2> QED
      BY <1>8, <2>1 DEF AddPutHdr
  <1>9. CASE AddPutIdx(p)
    <2>1. IdxRec(msg[p]) \in IdxRecs /\ msg[p].off \in Nat
      BY <1>9 DEF AddPutIdx, IdxRec, IdxRecs, Msgs
    <2>2. sid' \in Seq(IdxRecs) /\ Len(sid') >= Len(sid)
      BY <1>9, <2>1, PutMsgIdxSeq DEF AddPutIdx
    <2>3. Len(sid) \in Nat /\ Len(sid') \in Nat /\ \A q \in Proc : Len(buf[q]) \in Nat
      BY <2>2
    <2>4. pc' = [pc EXCEPT ![p] = "add_putstatus"] \/ pc' = [pc EXCEPT ![p] = "undo_open"]
            \/ pc' = [pc EXCEPT ![p] = "unlock"]
      BY <1>9 DEF AddPutIdx, AfterFailure
    <2>5. /\ hdrLock' \in {hdrLock, None}
          /\ UNCHANGED <<daLock, haLock, msgLock, status, shd, sha, shaEnd, local>>
      BY <1>9 DEF AddPutIdx
    <2>6. TypeOK' /\ HaHeld'
      BY <2>2, <2>4, <2>5
    <2>7. \A q \in Proc : pc'[q] = "pg_trunc" => pc[q] = "pg_trunc" /\ buf'[q] = buf[q]
      BY <2>4, <2>5
    <2>8. \A q \in Proc : pc[q] = "pg_trunc" => Len(buf[q]) <= Len(sid')
      BY <2>2, <2>3
    <2>9. CutFits'
      BY <2>7, <2>8
    <2> QED
      BY <2>6, <2>9
  <1>10. CASE AddPutStatus(p)
    <2>2. [last |-> st[p].last + 1, total |-> st[p].total + 1] \in Statuses
      BY <1>0 DEF Statuses
    <2> QED
      BY <1>10, <2>2 DEF AddPutStatus
  <1>11. CASE UndoOpen(p) \/ UndoOpenTimeout(p) \/ UndoLock(p) \/ UndoLockTimeout(p)
    BY <1>11 DEF UndoOpen, UndoOpenTimeout, UndoLock, UndoLockTimeout
  <1> QED
    BY <1>1, <1>2, <1>3, <1>4, <1>5, <1>6, <1>7, <1>8, <1>9, <1>10, <1>11 DEF PostStep

LEMMA ModifyTypeInv ==
  ASSUME TypeInv, NEW p \in Proc,
         UpdateLock(p) \/ EditBegin(p) \/ SendRead(p) \/ ModifyStep(p)
  PROVE  TypeInv'
  <1>0. /\ msg \in [Proc -> Msgs] /\ status \in Statuses /\ shd \in [Slots -> Hdrs]
        /\ sid \in Seq(IdxRecs) /\ status.last \in Nat
        /\ \A n \in 1..status.last : NewMsg(n, 0, 0) \in Msgs
    <2>1. msg \in [Proc -> Msgs] /\ status \in Statuses /\ shd \in [Slots -> Hdrs] /\ sid \in Seq(IdxRecs)
      BY DEF TypeInv, TypeOK
    <2>2. status.last \in Nat
      BY <2>1 DEF Statuses
    <2>3. \A n \in 1..status.last : n \in Nat
      BY <2>2
    <2> QED
      BY <2>1, <2>2, <2>3, MsgNew
  <1>a. \A k \in 1..Len(sid) : sid[k] \in IdxRecs /\ sid[k].num \in Nat /\ sid[k].slot \in Slots
    <2>1. \A k \in 1..Len(sid) : sid[k] \in IdxRecs
      BY <1>0, ElementOfSeq
    <2> QED
      BY <2>1 DEF IdxRecs
  <1>b. \A s \in Slots : shd[s].num \in Nat /\ shd[s].attr \in SUBSET Attrs
    BY <1>0 DEF Hdrs
  <1> USE DEF TypeInv, TypeOK, HaHeld, CutFits, PgHa, Goto, locks, files, local
  <1>1. CASE UpdateLock(p)
    BY <1>0, <1>1 DEF UpdateLock
  <1>2. CASE EditBegin(p)
    BY <1>0, <1>2 DEF EditBegin
  <1>3. CASE SendRead(p)
    <2>1. msg' \in [Proc -> Msgs]
      <3> HIDE DEF TypeInv, TypeOK
      <3>1. PICK k \in 1..Len(sid), a \in Attrs :
              msg' = [msg EXCEPT ![p] = [num |-> shd[sid[k].slot].num, slot |-> sid[k].slot,
                                         off |-> k - 1,
                                         attr |-> shd[sid[k].slot].attr \cup {a}]]
        BY <1>3 DEF SendRead
      <3>2. [num |-> shd[sid[k].slot].num, slot |-> sid[k].slot, off |-> k - 1,
             attr |-> shd[sid[k].slot].attr \cup {a}] \in Msgs
        BY <1>a, <1>b DEF Msgs
      <3> QED
        BY <1>0, <3>1, <3>2
    <2>2. \A q \in Proc : q # p => msg'[q] = msg[q]
      BY <1>3 DEF SendRead
    <2>3. pc' = [pc EXCEPT ![p] = "send_lock"] /\ UNCHANGED <<locks, files, st, buf, pos>>
      BY <1>3 DEF SendRead
    <2> QED
      BY <2>1, <2>2, <2>3
  <1>4. CASE SendLock(p) \/ SendTimeout(p)
    BY <1>4 DEF SendLock, SendTimeout
  <1>5. CASE GetMsgIdx(p)
    <2>1. pc' \in {[pc EXCEPT ![p] = "lockhdr"], [pc EXCEPT ![p] = "unlock"]}
          /\ UNCHANGED <<locks, files, st, buf, pos>>
      BY <1>5 DEF GetMsgIdx
    <2>2. CASE \E k \in 1..Len(sid) : sid[k].num = msg[p].num
      <3> HIDE DEF TypeInv, TypeOK
      <3>1. PICK k \in 1..Len(sid) : msg' = [msg EXCEPT ![p].slot = sid[k].slot, ![p].off = k - 1]
        BY <1>5, <2>2 DEF GetMsgIdx
      <3>2. k - 1 \in Nat /\ sid[k].slot \in Slots
        BY <1>a
      <3>3. /\ msg' \in [Proc -> Msgs]
            /\ \A q \in Proc : msg'[q].slot = IF q = p THEN sid[k].slot ELSE msg[q].slot
        BY <1>0, <3>1, <3>2 DEF Msgs
      <3> QED
        BY <2>1, <3>2, <3>3 DEF TypeInv, TypeOK
    <2>3. CASE ~(\E k \in 1..Len(sid) : sid[k].num = msg[p].num)
      <3>1. msg' = msg /\ pc' = [pc EXCEPT ![p] = "unlock"]
        <4> HIDE DEF TypeInv, TypeOK
        <4> QED
          BY <1>5, <2>3 DEF GetMsgIdx
      <3> QED
        BY <2>1, <3>1
    <2> QED
      BY <2>2, <2>3
  <1>6. CASE LockMsgHdr(p)
    <2>1. /\ pc[p] = "lockhdr" /\ pc' = [pc EXCEPT ![p] = "puthdr"]
          /\ msgLock' = [msgLock EXCEPT ![msg[p].slot] = p]
          /\ UNCHANGED <<hdrLock, daLock, haLock, files, st, buf, pos>>
      BY <1>6 DEF LockMsgHdr
    <2>2. /\ msg' \in [Proc -> Msgs]
          /\ \A q \in Proc : msg'[q].slot = msg[q].slot
      <3>1. CASE p \in Senders
        BY <1>6, <3>1 DEF LockMsgHdr
      <3>2. CASE p \notin Senders
        <4>1. msg[p].slot \in Slots
          BY <2>1
        <4> HIDE DEF TypeInv, TypeOK
        <4>2. PICK a \in Attrs :
                msg' = [msg EXCEPT ![p].num = shd[msg[p].slot].num,
                                   ![p].attr = shd[msg[p].slot].attr \cup {a}]
          BY <1>6, <3>2 DEF LockMsgHdr
        <4>3. shd[msg[p].slot].num \in Nat /\ shd[msg[p].slot].attr \cup {a} \in SUBSET Attrs
          BY <1>b, <4>1
        <4> QED
          BY <1>0, <4>2, <4>3 DEF Msgs
      <3> QED
        BY <3>1, <3>2
    <2> QED
      BY <2>1, <2>2
  <1>7. CASE LockMsgHdrFails(p)
    BY <1>7 DEF LockMsgHdrFails
  <1>8. CASE PutHdr(p)
    <2>1. shd' \in [Slots -> Hdrs]
      BY <1>8 DEF PutHdr, Hdrs, Msgs
    <2> QED
      BY <1>8, <2>1 DEF PutHdr
  <1>9. CASE PutIdx(p)
    <2>1. IdxRec(msg[p]) \in IdxRecs /\ msg[p].off \in Nat
      BY <1>9 DEF PutIdx, IdxRec, IdxRecs, Msgs
    <2>2. sid' \in Seq(IdxRecs) /\ Len(sid') >= Len(sid)
      BY <1>0, <1>9, <2>1, PutMsgIdxSeq DEF PutIdx
    <2>3. Len(sid) \in Nat /\ Len(sid') \in Nat /\ \A q \in Proc : Len(buf[q]) \in Nat
      BY <2>2
    <2>4. /\ pc' = [pc EXCEPT ![p] = "unlock"]
          /\ msgLock' = [msgLock EXCEPT ![msg[p].slot] = None]
          /\ UNCHANGED <<hdrLock, daLock, haLock, status, shd, sha, shaEnd, local>>
      BY <1>9 DEF PutIdx
    <2>5. TypeOK' /\ HaHeld'
      BY <2>2, <2>4
    <2>6. \A q \in Proc : pc'[q] = "pg_trunc" => pc[q] = "pg_trunc" /\ buf'[q] = buf[q]
      BY <2>4
    <2>7. \A q \in Proc : pc[q] = "pg_trunc" => Len(buf[q]) <= Len(sid')
      BY <2>2, <2>3
    <2>8. CutFits'
      BY <2>6, <2>7
    <2> QED
      BY <2>5, <2>8
  <1> QED
    BY <1>1, <1>2, <1>3, <1>4, <1>5, <1>6, <1>7, <1>8, <1>9 DEF ModifyStep

LEMMA PurgeTypeInv ==
  ASSUME TypeInv, NEW p \in Proc, PurgeLock(p) \/ PurgeStep(p)
  PROVE  TypeInv'
  <1>0. /\ msg \in [Proc -> Msgs] /\ shd \in [Slots -> Hdrs]
        /\ sid \in Seq(IdxRecs) /\ Len(sid) \in Nat /\ shaEnd \in Nat
        /\ buf \in [Proc -> Seq(IdxRecs)] /\ buf[p] \in Seq(IdxRecs) /\ Len(buf[p]) \in Nat
        /\ pos \in [Proc -> Nat] /\ pos[p] \in Nat /\ pos[p] + 1 \in Nat
        /\ st \in [Proc -> Statuses]
    BY DEF TypeInv, TypeOK
  <1>a. \A k \in 1..Len(sid) : sid[k] \in IdxRecs /\ sid[k].slot \in Slots
                               /\ sid[k].attr \in SUBSET Attrs
    <2>1. \A k \in 1..Len(sid) : sid[k] \in IdxRecs
      BY <1>0, ElementOfSeq
    <2> QED
      BY <2>1 DEF IdxRecs
  <1>b. Scanning(p) => pos[p] + 1 \in 1..Len(sid)
    BY <1>0 DEF Scanning
  <1>c. pos' = [pos EXCEPT ![p] = @ + 1] => pos' \in [Proc -> Nat]
    BY <1>0
  <1> USE DEF TypeInv, TypeOK, HaHeld, CutFits, PgHa, Goto, locks, files, local
  <1>1. CASE PurgeLock(p)
    BY <1>1 DEF PurgeLock
  <1>2. CASE PurgeStatus(p)
    BY <1>2 DEF PurgeStatus
  <1>3. CASE PurgeOpenDa(p) \/ PurgeOpenDaTimeout(p)
    BY <1>3 DEF PurgeOpenDa, PurgeOpenDaTimeout
  <1>4. CASE PurgeOpenHa(p)
    <2>1. \A q \in Proc : pc[q] \notin PgHa
      BY <1>4, SmbBaseAssumption DEF PurgeOpenHa, SmbBaseAssumption
    <2> QED
      BY <1>4, <2>1 DEF PurgeOpenHa
  <1>5. CASE PurgeKeep(p)
    <2>1. sid[pos[p] + 1] \in IdxRecs
      BY <1>5, <1>a, <1>b DEF PurgeKeep
    <2>2. buf' \in [Proc -> Seq(IdxRecs)]
      BY <1>5, <2>1, AppendProperties DEF PurgeKeep
    <2>3. \A q \in Proc : pc[q] = "pg_trunc" => buf'[q] = buf[q]
      BY <1>5 DEF PurgeKeep
    <2> QED
      BY <1>5, <1>c, <2>2, <2>3 DEF PurgeKeep
  <1>6. CASE PurgeDrop(p)
    <2>1. /\ sid[pos[p] + 1].slot \in Slots /\ sid[pos[p] + 1].attr \in SUBSET Attrs
          /\ msg' = [msg EXCEPT ![p] = NewMsg(0, sid[pos[p] + 1].slot, 0)]
          /\ shd' = [shd EXCEPT ![sid[pos[p] + 1].slot].attr = sid[pos[p] + 1].attr]
      BY <1>6, <1>a, <1>b DEF PurgeDrop
    <2>2. /\ NewMsg(0, sid[pos[p] + 1].slot, 0) \in Msgs
          /\ NewMsg(0, sid[pos[p] + 1].slot, 0).slot \in Slots
      <3> HIDE DEF TypeInv, TypeOK
      <3> QED
        BY <2>1, MsgNew
    <2>3. /\ pos' \in [Proc -> Nat]
          /\ pc' \in {pc, [pc EXCEPT ![p] = "pg_scan"], [pc EXCEPT ![p] = "pg_freedat"],
                       [pc EXCEPT ![p] = "pg_freehdr"]}
          /\ pc[p] = "pg_scan"
          /\ UNCHANGED <<locks, status, sid, sha, shaEnd, st, buf>>
      BY <1>6, <1>c DEF PurgeDrop
    <2>4. shd' \in [Slots -> Hdrs]
      <3> HIDE DEF TypeInv, TypeOK
      <3> QED
        BY <1>0, <2>1 DEF Hdrs
    <2> QED
      BY <2>1, <2>2, <2>3, <2>4
  <1>7. CASE PurgeDropUnread(p)
    BY <1>7, <1>c DEF PurgeDropUnread
  <1>8. CASE PurgeFreeDat(p) \/ PurgeFreeDatTimeout(p)
    BY <1>8 DEF PurgeFreeDat, PurgeFreeDatTimeout
  <1>9. CASE PurgeFreeHdr(p)
    <2>1. msg[p].slot \in Slots
      BY <1>9 DEF PurgeFreeHdr
    <2>2. msg[p].slot - 1 \in Nat
      <3> HIDE DEF TypeInv, TypeOK
      <3>1. msg[p].slot \in Nat \ {0}
        BY <2>1, SmbBaseAssumption DEF SmbBaseAssumption
      <3> QED
        BY <3>1
    <2>3. NoHdr \in Hdrs
      BY DEF NoHdr, Hdrs
    <2>4. shd' \in [Slots -> Hdrs] /\ shaEnd' \in Nat
      <3> HIDE DEF TypeInv, TypeOK
      <3>1. CASE shaEnd <= msg[p].slot
        BY <1>0, <1>9, <2>2, <2>3, <3>1 DEF PurgeFreeHdr
      <3>2. CASE ~(shaEnd <= msg[p].slot)
        BY <1>0, <1>9, <3>2 DEF PurgeFreeHdr
      <3> QED
        BY <3>1, <3>2
    <2>5. /\ pc' = [pc EXCEPT ![p] = "pg_scan"] /\ pc[p] = "pg_freehdr"
          /\ sha' = sha \ {msg[p].slot}
          /\ UNCHANGED <<locks, status, sid, local>>
      BY <1>9 DEF PurgeFreeHdr
    <2> QED
      BY <2>4, <2>5
  <1>10. CASE PurgeWrite(p)
    <2> DEFINE rest == SubSeq(sid, Len(buf[p]) + 1, Len(sid))
    <2>1. rest \in Seq(IdxRecs) /\ Len(rest) \in Nat
      <3> HIDE DEF TypeInv, TypeOK
      <3>1. \A i \in Len(buf[p]) + 1 .. Len(sid) : sid[i] \in IdxRecs
        BY <1>0, <1>a
      <3>2. rest \in Seq(IdxRecs)
        BY <1>0, <3>1, SubSeqProperties
      <3> QED
        BY <3>2
    <2>2. /\ sid' \in Seq(IdxRecs)
          /\ Len(sid') = Len(buf[p]) + Len(rest)
      BY <1>0, <1>10, <2>1, ConcatProperties DEF PurgeWrite
    <2>3. /\ pc' = [pc EXCEPT ![p] = "pg_trunc"] /\ pc[p] = "pg_scan"
          /\ UNCHANGED <<locks, status, shd, sha, shaEnd, local>>
      BY <1>10 DEF PurgeWrite
    <2>4. \A q \in Proc : pc[q] \in PgHa => q = p
      BY <2>3
    <2>5. \A q \in Proc : pc'[q] = "pg_trunc" => q = p
      BY <2>3, <2>4
    <2>6. Len(buf[p]) <= Len(sid')
      BY <1>0, <2>1, <2>2
    <2>7. TypeOK' /\ HaHeld'
      BY <2>2, <2>3
    <2>8. CutFits'
      BY <2>3, <2>5, <2>6
    <2> QED
      BY <2>7, <2>8
  <1>11. CASE PurgeTruncate(p)
    <2>1. /\ pc' = [pc EXCEPT ![p] = "pg_putstatus"] /\ pc[p] = "pg_trunc"
          /\ sid' = SubSeq(sid, 1, Len(buf[p]))
          /\ UNCHANGED <<locks, status, shd, sha, shaEnd, local>>
      BY <1>11 DEF PurgeTruncate
    <2>2. Len(buf[p]) <= Len(sid)
      BY <2>1
    <2>3. sid' \in Seq(IdxRecs)
      <3> HIDE DEF TypeInv, TypeOK
      <3>1. \A i \in 1 .. Len(buf[p]) : sid[i] \in IdxRecs
        BY <1>0, <1>a, <2>2
      <3> QED
        BY <1>0, <2>1, <3>1, SubSeqProperties
    <2>4. \A q \in Proc : pc'[q] # "pg_trunc"
      BY <2>1
    <2> QED
      BY <2>1, <2>3, <2>4
  <1>12. CASE PurgePutStatus(p)
    <2>1. [last |-> st[p].last, total |-> Len(buf[p])] \in Statuses
      <3> HIDE DEF TypeInv, TypeOK
      <3> QED
        BY <1>0 DEF Statuses
    <2> QED
      BY <1>12, <2>1 DEF PurgePutStatus
  <1>13. CASE PurgeClose(p)
    <2>1. \A q \in Proc : pc[q] \in PgHa => q = p
      BY <1>13 DEF PurgeClose
    <2> QED
      BY <1>13, <2>1 DEF PurgeClose
  <1> QED
    BY <1>1, <1>2, <1>3, <1>4, <1>5, <1>6, <1>7, <1>8, <1>9, <1>10, <1>11, <1>12, <1>13
       DEF PurgeStep

LEMMA StepTypeInv == TypeInv /\ [Next]_vars => TypeInv'
  <1> SUFFICES ASSUME TypeInv, [Next]_vars PROVE TypeInv'
    OBVIOUS
  <1>1. CASE UNCHANGED vars
    BY <1>1 DEF vars, TypeInv, TypeOK, HaHeld, CutFits
  <1>2. CASE Next
    <2>1. PICK p \in Proc : Start(p) \/ Continue(p) \/ Crash(p)
      BY <1>2 DEF Next
    <2> QED
      BY <2>1, CommonTypeInv, PostTypeInv, ModifyTypeInv, PurgeTypeInv DEF Start, Continue
  <1> QED
    BY <1>1, <1>2

\* The type invariant holds for any processes.  On the way: the process that
\* is between opening and closing the .sha file is the only one, and the
\* index is never cut to more records than it has.
THEOREM TypeCorrect == Spec => []TypeOK
  <1>1. TypeInv => TypeOK
    BY DEF TypeInv
  <1> QED
    BY <1>1, InitTypeInv, StepTypeInv, PTL DEF Spec

-----------------------------------------------------------------------------
\* What the type invariant says of the files, for use in other modules
LEMMA FileTypes ==
  ASSUME TypeInv
  PROVE  /\ sid \in Seq(IdxRecs) /\ Len(sid) \in Nat
         /\ status.last \in Nat /\ status.total \in Nat
         /\ \A k \in 1..Len(sid) : sid[k].num \in Nat /\ sid[k].slot \in Slots
  <1>1. sid \in Seq(IdxRecs) /\ status \in Statuses
    BY DEF TypeInv, TypeOK
  <1>2. Len(sid) \in Nat /\ \A k \in 1..Len(sid) : sid[k] \in IdxRecs
    BY <1>1
  <1>3. \A k \in 1..Len(sid) : sid[k].num \in Nat /\ sid[k].slot \in Slots
    BY <1>2 DEF IdxRecs
  <1>4. status.last \in Nat /\ status.total \in Nat
    BY <1>1 DEF Statuses
  <1> QED
    BY <1>1, <1>2, <1>3, <1>4
=============================================================================
