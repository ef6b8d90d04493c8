--------------------------- MODULE SmbMaint_proofs ---------------------------
(***************************************************************************)
(* The locks of a base on which any number of programs run maint(), beside *)
(* all that SmbBase has: who holds what, and that everything is given up.  *)
(* Then a hyper-allocated base: what maint(), delmail and those beside     *)
(* them do to its messages.  Last a base with allocation files: what one   *)
(* maint() leaves of its headers.                                          *)
(***************************************************************************)
EXTENDS SmbMaint, WellFoundedInduction, SequenceTheorems, TLAPS

-----------------------------------------------------------------------------
PgHa == {"pg_scan", "pg_freedat", "pg_freehdr", "pg_trunc", "pg_putstatus", "pg_close"}
MtHa == {"mt_scan", "mt_lockhdr", "mt_puthdr", "mt_putidx", "mt_freedat", "mt_freehdr", "mt_close"}
MtDa == MtHa \cup {"mt_ha"}
InHeader == {"puthdr", "putidx", "mt_puthdr", "mt_putidx", "loaded"}

MsgShape == \E N, S, O, A : msg \in [Proc -> [num : N, slot : S, off : O, attr : A]]

\* All the types the locks need: the index may hold records of no message
\* after a Resize, and TypeOK does not hold of it.
Shapes ==
    /\ pc = [p \in Proc |-> pc[p]]
    /\ msgLock \in [Slots -> Proc \cup {None}]
    /\ MsgShape

\* Where p is in its call tells that it has the allocation files ...
Open(p) ==
    /\ pc[p] \in PgHa \cup {"undo_lock", "pg_ha", "mt_ha"} => daLock = p
    /\ pc[p] \in PgHa => haLock = p

\* ... and what p has tells where it is: at a place from which it will give
\* the thing up.  Only an smb_addmsg that failed may leave the .sda file open.
Holds(p) ==
    /\ haLock = p => daLock = p /\ pc[p] \in PgHa \cup MtHa
    /\ p \in Maintainers /\ daLock = p => pc[p] \in MtDa
    /\ hdrLock = p => pc[p] # "idle" /\ p \notin Readers
    /\ \A s \in Slots : msgLock[s] = p => pc[p] \in InHeader /\ msg[p].slot = s

LockInv ==
    /\ Shapes
    /\ haLock \in Proc \cup {None}
    /\ \A p \in Proc : Open(p) /\ Holds(p)

\* The place of every process but p, and what it has, stay.
OthersKeep(p) ==
    /\ haLock' \in {haLock, p, None}
    /\ \A q \in Proc \ {p} :
        /\ pc'[q] = pc[q] /\ msg'[q] = msg[q]
        /\ hdrLock' = q => hdrLock = q
        /\ daLock' = q <=> daLock = q
        /\ haLock' = q <=> haLock = q
        /\ \A s \in Slots : msgLock'[s] = q => msgLock[s] = q

LEMMA LockStep ==
  ASSUME LockInv, NEW p \in Proc, OthersKeep(p), Shapes', Open(p)', Holds(p)'
  PROVE  LockInv'
  <1>1. ASSUME NEW q \in Proc, q # p PROVE Open(q)' /\ Holds(q)'
    BY <1>1 DEF OthersKeep, LockInv, Open, Holds
  <1>2. haLock' \in Proc \cup {None}
    BY DEF OthersKeep, LockInv
  <1> QED
    BY <1>1, <1>2 DEF LockInv

LEMMA InitLocks == ASSUME Init PROVE LockInv
  <1>1. None \notin Proc
    BY SmbBaseAssumption
  <1>2. pc = [p \in Proc |-> pc[p]] /\ msgLock \in [Slots -> Proc \cup {None}]
    BY DEF Init
  <1>3. msg = [p \in Proc |-> [num |-> 0, slot |-> 0, off |-> 0, attr |-> {}]]
    BY DEF Init, NoMsg, NewMsg
  <1>4. Shapes
    <2>1. msg \in [Proc -> [num : {0}, slot : {0}, off : {0}, attr : {{}}]]
      BY <1>3
    <2> QED
      BY <1>2, <2>1 DEF Shapes, MsgShape
  <1> QED
    BY <1>1, <1>4 DEF Init, LockInv, Open, Holds, PgHa

-----------------------------------------------------------------------------
(* What the steps do to the shape of a message.                             *)

LEMMA MsgPut ==
  ASSUME MsgShape, NEW p \in Proc, NEW n, NEW s, NEW o, NEW a,
         \/ msg' = [msg EXCEPT ![p] = [num |-> n, slot |-> s, off |-> o, attr |-> a]]
         \/ msg' = [msg EXCEPT ![p].slot = s]
         \/ msg' = [msg EXCEPT ![p].slot = s, ![p].off = o]
  PROVE  MsgShape' /\ msg'[p].slot = s /\ \A q \in Proc \ {p} : msg'[q] = msg[q]
  <1>1. PICK N, S, O, A : msg \in [Proc -> [num : N, slot : S, off : O, attr : A]]
    BY DEF MsgShape
  <1> DEFINE Shaped == [num : N \cup {n}, slot : S \cup {s}, off : O \cup {o}, attr : A \cup {a}]
  <1>2. /\ msg' \in [Proc -> Shaped]
        /\ msg'[p].slot = s /\ \A q \in Proc \ {p} : msg'[q] = msg[q]
    <2>1. CASE msg' = [msg EXCEPT ![p] = [num |-> n, slot |-> s, off |-> o, attr |-> a]]
      BY <1>1, <2>1
    <2>2. CASE msg' = [msg EXCEPT ![p].slot = s]
      BY <1>1, <2>2
    <2>3. CASE msg' = [msg EXCEPT ![p].slot = s, ![p].off = o]
      BY <1>1, <2>3
    <2> QED
      BY <2>1, <2>2, <2>3
  <1> QED
    BY <1>2 DEF MsgShape

\* The header is read again: the message keeps its slot.
LEMMA MsgRead ==
  ASSUME MsgShape, NEW p \in Proc, NEW n, NEW a, msg' = [msg EXCEPT ![p].num = n, ![p].attr = a]
  PROVE  MsgShape' /\ msg'[p].slot = msg[p].slot /\ \A q \in Proc \ {p} : msg'[q] = msg[q]
  <1>1. PICK N, S, O, A : msg \in [Proc -> [num : N, slot : S, off : O, attr : A]]
    BY DEF MsgShape
  <1>2. /\ msg' \in [Proc -> [num : N \cup {n}, slot : S, off : O, attr : A \cup {a}]]
        /\ msg'[p].slot = msg[p].slot /\ \A q \in Proc \ {p} : msg'[q] = msg[q]
    BY <1>1
  <1> QED
    BY <1>2 DEF MsgShape

\* Maintainers and readers have these roles alone.
LEMMA Disjoint ==
  /\ None \notin Proc
  /\ \A p \in Maintainers : p \in Purgers /\ p \in Proc /\ p \notin Readers
  /\ \A p \in Readers : p \in Modifiers /\ p \in Proc /\ p \notin Posters
  BY SmbBaseAssumption, SmbMaintAssumption DEF Modifiers, Posters, Proc

-----------------------------------------------------------------------------
(* Posters.                                                                 *)

LEMMA PostShapes ==
  ASSUME Shapes, NEW p \in Proc, AddLock(p) \/ HeaderLock(p) \/ PostStep(p)
  PROVE  Shapes' /\ \A q \in Proc \ {p} : pc'[q] = pc[q] /\ msg'[q] = msg[q]
  <1>1. pc' = [q \in Proc |-> pc'[q]] /\ \A q \in Proc \ {p} : pc'[q] = pc[q]
    BY DEF Shapes, Goto, AddLock, HeaderLock, PostStep, AddStatus, AddData, AddDataTimeout, AddHdr, AddAlloc,
           AddAllocTimeout, AddPutHdr, AddPutIdx, AddPutStatus, UndoOpen, UndoOpenTimeout, UndoLock,
           UndoLockTimeout, AfterFailure
  <1>2. msgLock' = msgLock
    BY DEF locks, AddLock, HeaderLock, PostStep, AddStatus, AddData, AddDataTimeout, AddHdr, AddAlloc,
           AddAllocTimeout, AddPutHdr, AddPutIdx, AddPutStatus, UndoOpen, UndoOpenTimeout, UndoLock,
           UndoLockTimeout, AfterFailure
  <1>3. CASE AddStatus(p) \/ (AddHdr(p) /\ ~UNCHANGED msg)
    <2>1. PICK n, o : msg' = [msg EXCEPT ![p] = [num |-> n, slot |-> 0, off |-> o, attr |-> {}]]
      <3>1. CASE AddStatus(p)
        <4>1. msg' = [msg EXCEPT ![p] = NewMsg(status.last + 1, 0, 0)]
          BY <3>1 DEF AddStatus
        <4> QED
          BY <4>1, Zenon DEF NewMsg
      <3>2. CASE AddHdr(p) /\ ~UNCHANGED msg
        <4>1. msg' = [msg EXCEPT ![p] = NewMsg(status.last + 1, 0, status.total)]
          BY <3>2 DEF AddHdr
        <4> QED
          BY <4>1, Zenon DEF NewMsg
      <3> QED
        BY <1>3, <3>1, <3>2
    <2> QED
      BY <1>1, <1>2, <2>1, MsgPut DEF Shapes
  <1>4. CASE AddAlloc(p)
    <2>1. PICK s : msg' = [msg EXCEPT ![p].slot = s]
      BY <1>4 DEF AddAlloc
    <2> QED
      BY <1>1, <1>2, <2>1, MsgPut DEF Shapes
  <1>5. CASE UNCHANGED msg
    BY <1>1, <1>2, <1>5 DEF Shapes, MsgShape
  <1> QED
    BY <1>3, <1>4, <1>5 DEF local, AddLock, HeaderLock, PostStep, AddStatus, AddData, AddDataTimeout, AddHdr, AddAlloc,
           AddAllocTimeout, AddPutHdr, AddPutIdx, AddPutStatus, UndoOpen, UndoOpenTimeout, UndoLock,
           UndoLockTimeout, AfterFailure

LEMMA PostLocks ==
  ASSUME LockInv, NEW p \in Posters, AddLock(p) \/ HeaderLock(p) \/ PostStep(p)
  PROVE  LockInv'
  <1>1. p \in Proc /\ None \notin Proc /\ p \notin Maintainers /\ p \notin Readers
    BY Disjoint, SmbBaseAssumption DEF Posters, Modifiers, Proc
  <1>2. Shapes' /\ \A q \in Proc \ {p} : pc'[q] = pc[q] /\ msg'[q] = msg[q]
    BY <1>1, PostShapes DEF LockInv
  <1>3. haLock' = haLock /\ msgLock' = msgLock
    BY DEF locks, AddLock, HeaderLock, PostStep, AddStatus, AddData, AddDataTimeout, AddHdr, AddAlloc,
           AddAllocTimeout, AddPutHdr, AddPutIdx, AddPutStatus, UndoOpen, UndoOpenTimeout, UndoLock,
           UndoLockTimeout, AfterFailure
  <1>4. /\ pc[p] \notin PgHa \cup MtHa \cup InHeader
        /\ pc'[p] \notin PgHa \cup {"idle", "pg_ha", "mt_ha"}
    BY <1>1 DEF LockInv, Shapes, Goto, PgHa, MtHa, InHeader, AddLock, HeaderLock, PostStep, AddStatus, AddData, AddDataTimeout, AddHdr, AddAlloc,
           AddAllocTimeout, AddPutHdr, AddPutIdx, AddPutStatus, UndoOpen, UndoOpenTimeout, UndoLock,
           UndoLockTimeout, AfterFailure
  <1>5. haLock # p /\ \A s \in Slots : msgLock[s] # p
    BY <1>1, <1>4 DEF LockInv, Holds
  <1>6. \A q \in Proc \ {p} : hdrLock' = q => hdrLock = q
    BY <1>1 DEF locks, AddLock, HeaderLock, PostStep, AddStatus, AddData, AddDataTimeout, AddHdr, AddAlloc,
           AddAllocTimeout, AddPutHdr, AddPutIdx, AddPutStatus, UndoOpen, UndoOpenTimeout, UndoLock,
           UndoLockTimeout, AfterFailure
  <1>7. (pc[p] = "undo_lock" => daLock = p) /\ (pc'[p] = "undo_lock" => daLock' = p)
    <2>1. pc[p] = "undo_lock" => daLock = p
      BY <1>1 DEF LockInv, Open
    <2>2. pc'[p] = "undo_lock" => UndoOpen(p)
      BY <1>1 DEF LockInv, Shapes, Goto, AddLock, HeaderLock, PostStep, AddStatus, AddData, AddDataTimeout, AddHdr, AddAlloc,
           AddAllocTimeout, AddPutHdr, AddPutIdx, AddPutStatus, UndoOpen, UndoOpenTimeout, UndoLock,
           UndoLockTimeout, AfterFailure
    <2> QED
      BY <2>1, <2>2 DEF UndoOpen
  <1>8. \A q \in Proc \ {p} : daLock' = q <=> daLock = q
    BY <1>1, <1>7 DEF locks, AddLock, HeaderLock, PostStep, AddStatus, AddData, AddDataTimeout, AddHdr, AddAlloc,
           AddAllocTimeout, AddPutHdr, AddPutIdx, AddPutStatus, UndoOpen, UndoOpenTimeout, UndoLock,
           UndoLockTimeout, AfterFailure
  <1>9. OthersKeep(p)
    BY <1>2, <1>3, <1>6, <1>8 DEF OthersKeep
  <1>10. Open(p)' /\ Holds(p)'
    BY <1>1, <1>3, <1>4, <1>5, <1>7 DEF Open, Holds
  <1> QED
    BY <1>1, <1>2, <1>9, <1>10, LockStep

-----------------------------------------------------------------------------
(* Programs that rewrite a header.                                          *)

LEMMA ModifyShapes ==
  ASSUME Shapes, NEW p \in Proc, UpdateLock(p) \/ EditBegin(p) \/ SendRead(p) \/ ModifyStep(p)
  PROVE  /\ MsgShape' /\ pc' = [q \in Proc |-> pc'[q]]
         /\ \A q \in Proc \ {p} : pc'[q] = pc[q] /\ msg'[q] = msg[q]
         /\ pc[p] \in InHeader \cup {"lockhdr"} => msg'[p].slot = msg[p].slot
  <1>1. pc' = [q \in Proc |-> pc'[q]] /\ \A q \in Proc \ {p} : pc'[q] = pc[q]
    BY DEF Shapes, Goto, UpdateLock, EditBegin, SendRead, ModifyStep, SendLock, SendTimeout, GetMsgIdx,
           LockMsgHdr, LockMsgHdrFails, PutHdr, PutIdx
  <1>2. CASE UpdateLock(p) \/ EditBegin(p) \/ SendRead(p)
    <2>1. PICK n, s, o, a : msg' = [msg EXCEPT ![p] = [num |-> n, slot |-> s, off |-> o, attr |-> a]]
      <3>1. CASE UpdateLock(p) \/ EditBegin(p)
        <4>1. PICK m \in 1..status.last : msg' = [msg EXCEPT ![p] = NewMsg(m, 0, 0)]
          BY <3>1 DEF UpdateLock, EditBegin
        <4> QED
          BY <4>1, Zenon DEF NewMsg
      <3>2. CASE SendRead(p)
        <4>1. PICK k \in 1..Len(sid), a \in Attrs :
                msg' = [msg EXCEPT ![p] = [num |-> shd[sid[k].slot].num, slot |-> sid[k].slot,
                                           off |-> k - 1,
                                           attr |-> shd[sid[k].slot].attr \cup {a}]]
          BY <3>2 DEF SendRead
        <4> QED
          BY <4>1, Zenon
      <3> QED
        BY <1>2, <3>1, <3>2
    <2>2. pc[p] = "idle"
      BY <1>2 DEF UpdateLock, EditBegin, SendRead
    <2> QED
      BY <1>1, <2>1, <2>2, MsgPut DEF Shapes, InHeader
  <1>3. CASE GetMsgIdx(p) /\ ~UNCHANGED msg
    <2>1. PICK s, k : msg' = [msg EXCEPT ![p].slot = s, ![p].off = k]
      BY <1>3 DEF GetMsgIdx
    <2>2. pc[p] = "getidx"
      BY <1>3 DEF GetMsgIdx
    <2> QED
      BY <1>1, <2>1, <2>2, MsgPut DEF Shapes, InHeader
  <1>4. CASE LockMsgHdr(p) /\ ~UNCHANGED msg
    <2>1. PICK n, a : msg' = [msg EXCEPT ![p].num = n, ![p].attr = a]
      BY <1>4 DEF LockMsgHdr
    <2> QED
      BY <1>1, <2>1, MsgRead DEF Shapes
  <1>5. CASE UNCHANGED msg
    BY <1>1, <1>5 DEF Shapes, MsgShape
  <1> QED
    BY <1>2, <1>3, <1>4, <1>5 DEF local, UpdateLock, EditBegin, SendRead, ModifyStep, SendLock, SendTimeout, GetMsgIdx,
           LockMsgHdr, LockMsgHdrFails, PutHdr, PutIdx

LEMMA ModifyLocks ==
  ASSUME LockInv, NEW p \in Modifiers \ Readers,
         UpdateLock(p) \/ EditBegin(p) \/ SendRead(p) \/ ModifyStep(p)
  PROVE  LockInv'
  <1>1. p \in Proc /\ None \notin Proc /\ p \notin Maintainers
    BY Disjoint, SmbBaseAssumption DEF Proc
  <1>2. /\ MsgShape' /\ pc' = [q \in Proc |-> pc'[q]]
        /\ \A q \in Proc \ {p} : pc'[q] = pc[q] /\ msg'[q] = msg[q]
        /\ pc[p] \in InHeader \cup {"lockhdr"} => msg'[p].slot = msg[p].slot
    BY <1>1, ModifyShapes DEF LockInv
  <1>3. haLock' = haLock /\ daLock' = daLock
    BY DEF locks, UpdateLock, EditBegin, SendRead, ModifyStep, SendLock, SendTimeout, GetMsgIdx,
           LockMsgHdr, LockMsgHdrFails, PutHdr, PutIdx
  <1>4. /\ pc[p] \notin PgHa \cup MtHa \cup {"pg_ha", "mt_ha"}
        /\ pc'[p] \notin PgHa \cup {"idle", "pg_ha", "mt_ha", "undo_lock"}
    BY <1>1 DEF LockInv, Shapes, Goto, PgHa, MtHa, UpdateLock, EditBegin, SendRead, ModifyStep, SendLock, SendTimeout, GetMsgIdx,
           LockMsgHdr, LockMsgHdrFails, PutHdr, PutIdx
  <1>5. haLock # p
    BY <1>1, <1>4 DEF LockInv, Holds
  <1>6. \A q \in Proc \ {p} : hdrLock' = q => hdrLock = q
    BY <1>1 DEF locks, UpdateLock, EditBegin, SendRead, ModifyStep, SendLock, SendTimeout, GetMsgIdx,
           LockMsgHdr, LockMsgHdrFails, PutHdr, PutIdx
  <1>7. /\ msgLock' \in [Slots -> Proc \cup {None}]
        /\ \A q \in Proc \ {p}, s \in Slots : msgLock'[s] = q => msgLock[s] = q
        /\ \A s \in Slots : msgLock'[s] = p => pc'[p] \in InHeader /\ msg'[p].slot = s
    <2>0. msgLock \in [Slots -> Proc \cup {None}]
      BY DEF LockInv, Shapes
    <2>1. CASE LockMsgHdr(p)
      <3>1. msgLock' = [msgLock EXCEPT ![msg[p].slot] = p] /\ pc[p] = "lockhdr" /\ pc'[p] = "puthdr"
        BY <1>1, <2>1 DEF LockMsgHdr, Goto, LockInv, Shapes
      <3>2. \A s \in Slots : msgLock[s] # p
        BY <1>1, <3>1 DEF LockInv, Holds, InHeader
      <3>3. msg'[p].slot = msg[p].slot
        BY <1>2, <3>1
      <3> QED
        BY <1>1, <2>0, <3>1, <3>2, <3>3 DEF InHeader
    <2>2. CASE PutIdx(p)
      <3>1. msgLock' = [msgLock EXCEPT ![msg[p].slot] = None]
        BY <2>2 DEF PutIdx
      <3>2. \A s \in Slots : msgLock[s] = p => s = msg[p].slot
        BY <1>1 DEF LockInv, Holds
      <3> QED
        BY <1>1, <2>0, <3>1, <3>2
    <2>3. CASE PutHdr(p)
      <3>1. msgLock' = msgLock /\ pc[p] = "puthdr" /\ pc'[p] = "putidx"
        BY <1>1, <2>3 DEF PutHdr, locks, Goto, LockInv, Shapes
      <3>2. msg'[p].slot = msg[p].slot
        BY <1>2, <3>1 DEF InHeader
      <3> QED
        BY <1>1, <2>0, <3>1, <3>2 DEF InHeader, LockInv, Holds
    <2>4. CASE ~(LockMsgHdr(p) \/ PutIdx(p) \/ PutHdr(p))
      <3>1. msgLock' = msgLock /\ pc[p] \notin InHeader
        BY <2>4 DEF InHeader, locks, UpdateLock, EditBegin, SendRead, ModifyStep, SendLock, SendTimeout, GetMsgIdx,
                    LockMsgHdrFails
      <3>2. \A s \in Slots : msgLock[s] # p
        BY <1>1, <3>1 DEF LockInv, Holds
      <3> QED
        BY <2>0, <3>1, <3>2
    <2> QED
      BY <2>1, <2>2, <2>3, <2>4
  <1>8. OthersKeep(p)
    BY <1>2, <1>3, <1>6, <1>7 DEF OthersKeep
  <1>9. Open(p)' /\ Holds(p)'
    BY <1>1, <1>3, <1>4, <1>5, <1>7 DEF Open, Holds
  <1>10. Shapes'
    BY <1>2, <1>7 DEF Shapes
  <1> QED
    BY <1>1, <1>8, <1>9, <1>10, LockStep

-----------------------------------------------------------------------------
(* delmail.                                                                 *)

LEMMA PurgeShapes ==
  ASSUME Shapes, NEW p \in Proc, PurgeLock(p) \/ PurgeStep(p)
  PROVE  Shapes' /\ \A q \in Proc \ {p} : pc'[q] = pc[q] /\ msg'[q] = msg[q]
  <1>1. pc' = [q \in Proc |-> pc'[q]] /\ \A q \in Proc \ {p} : pc'[q] = pc[q]
    BY DEF Shapes, Goto, PurgeLock, PurgeStep, PurgeStatus, PurgeOpenDa, PurgeOpenDaTimeout, PurgeOpenHa, PurgeKeep,
           PurgeDrop, PurgeDropUnread, PurgeFreeDat, PurgeFreeDatTimeout, PurgeFreeHdr,
           PurgeWrite, PurgeTruncate, PurgePutStatus, PurgeClose
  <1>2. msgLock' = msgLock
    BY DEF locks, PurgeLock, PurgeStep, PurgeStatus, PurgeOpenDa, PurgeOpenDaTimeout, PurgeOpenHa, PurgeKeep,
           PurgeDrop, PurgeDropUnread, PurgeFreeDat, PurgeFreeDatTimeout, PurgeFreeHdr,
           PurgeWrite, PurgeTruncate, PurgePutStatus, PurgeClose
  <1>3. CASE PurgeDrop(p)
    <2>1. PICK s : msg' = [msg EXCEPT ![p] = [num |-> 0, slot |-> s, off |-> 0, attr |-> {}]]
      BY <1>3 DEF PurgeDrop, NewMsg
    <2> QED
      BY <1>1, <1>2, <2>1, MsgPut DEF Shapes
  <1>4. CASE UNCHANGED msg
    BY <1>1, <1>2, <1>4 DEF Shapes, MsgShape
  <1> QED
    BY <1>3, <1>4 DEF local, PurgeLock, PurgeStep, PurgeStatus, PurgeOpenDa, PurgeOpenDaTimeout, PurgeOpenHa, PurgeKeep,
           PurgeDrop, PurgeDropUnread, PurgeFreeDat, PurgeFreeDatTimeout, PurgeFreeHdr,
           PurgeWrite, PurgeTruncate, PurgePutStatus, PurgeClose

LEMMA PurgeLocks ==
  ASSUME LockInv, NEW p \in Purgers \ Maintainers, PurgeLock(p) \/ PurgeStep(p)
  PROVE  LockInv'
  <1>1. p \in Proc /\ None \notin Proc /\ p \notin Readers
    BY Disjoint, SmbBaseAssumption DEF Proc
  <1>2. Shapes' /\ \A q \in Proc \ {p} : pc'[q] = pc[q] /\ msg'[q] = msg[q]
    BY <1>1, PurgeShapes DEF LockInv
  <1>3. msgLock' = msgLock /\ pc'[p] # "idle" /\ pc[p] \notin InHeader
    BY <1>1 DEF LockInv, Shapes, Goto, InHeader, locks, PurgeLock, PurgeStep, PurgeStatus, PurgeOpenDa, PurgeOpenDaTimeout, PurgeOpenHa, PurgeKeep,
           PurgeDrop, PurgeDropUnread, PurgeFreeDat, PurgeFreeDatTimeout, PurgeFreeHdr,
           PurgeWrite, PurgeTruncate, PurgePutStatus, PurgeClose
  <1>4. \A s \in Slots : msgLock'[s] # p
    BY <1>1, <1>3 DEF LockInv, Holds
  <1>5. \A q \in Proc \ {p} : hdrLock' = q => hdrLock = q
    BY <1>1 DEF locks, PurgeLock, PurgeStep, PurgeStatus, PurgeOpenDa, PurgeOpenDaTimeout, PurgeOpenHa, PurgeKeep,
           PurgeDrop, PurgeDropUnread, PurgeFreeDat, PurgeFreeDatTimeout, PurgeFreeHdr,
           PurgeWrite, PurgeTruncate, PurgePutStatus, PurgeClose
  <1>6. /\ haLock' \in {haLock, p, None}
        /\ \A q \in Proc \ {p} : (daLock' = q <=> daLock = q) /\ (haLock' = q <=> haLock = q)
        /\ pc'[p] \in PgHa \cup {"undo_lock", "pg_ha", "mt_ha"} => daLock' = p
        /\ pc'[p] \in PgHa => haLock' = p
        /\ haLock' = p => daLock' = p /\ pc'[p] \in PgHa
    <2>1. /\ pc[p] \in PgHa \cup {"pg_ha"} => daLock = p
          /\ pc[p] \in PgHa => haLock = p
          /\ haLock = p => daLock = p /\ pc[p] \in PgHa \cup MtHa
      BY <1>1 DEF LockInv, Open, Holds
    <2>2. pc = [q \in Proc |-> pc[q]]
      BY DEF LockInv, Shapes
    <2>3. CASE PurgeOpenDa(p)
      BY <1>1, <2>1, <2>2, <2>3 DEF PurgeOpenDa, Goto, PgHa, MtHa
    <2>4. CASE PurgeOpenHa(p)
      BY <1>1, <2>1, <2>2, <2>4 DEF PurgeOpenHa, Goto, PgHa, MtHa
    <2>5. CASE PurgeClose(p)
      BY <1>1, <2>1, <2>2, <2>5 DEF PurgeClose, Goto, PgHa, MtHa
    <2>6. CASE PurgeLock(p) \/ PurgeStatus(p) \/ PurgeOpenDaTimeout(p)
      BY <1>1, <2>1, <2>2, <2>6 DEF PurgeLock, PurgeStatus, PurgeOpenDaTimeout, locks, Goto, PgHa, MtHa
    <2>7. CASE ~(PurgeOpenDa(p) \/ PurgeOpenHa(p) \/ PurgeClose(p) \/ PurgeLock(p) \/ PurgeStatus(p)
                 \/ PurgeOpenDaTimeout(p))
      <3>1. daLock' = daLock /\ haLock' = haLock /\ pc[p] \in PgHa /\ pc'[p] \in PgHa
        BY <1>1, <2>2, <2>7 DEF locks, Goto, PgHa, PurgeStep, PurgeKeep, PurgeDrop, PurgeDropUnread, PurgeFreeDat,
           PurgeFreeDatTimeout, PurgeFreeHdr, PurgeWrite, PurgeTruncate, PurgePutStatus
      <3> QED
        BY <2>1, <3>1
    <2> QED
      BY <2>3, <2>4, <2>5, <2>6, <2>7
  <1>7. OthersKeep(p)
    BY <1>2, <1>3, <1>5, <1>6 DEF OthersKeep
  <1>8. Open(p)' /\ Holds(p)'
    BY <1>1, <1>3, <1>4, <1>6 DEF Open, Holds
  <1> QED
    BY <1>1, <1>2, <1>7, <1>8, LockStep

-----------------------------------------------------------------------------
(* maint().                                                                 *)

LEMMA MaintShapes ==
  ASSUME Shapes, NEW p \in Proc, MaintLock(p) \/ MaintStep(p)
  PROVE  /\ MsgShape' /\ pc' = [q \in Proc |-> pc'[q]]
         /\ \A q \in Proc \ {p} : pc'[q] = pc[q] /\ msg'[q] = msg[q]
         /\ pc[p] \in InHeader \cup {"mt_lockhdr"} => msg'[p].slot = msg[p].slot
  <1>1. pc' = [q \in Proc |-> pc'[q]] /\ \A q \in Proc \ {p} : pc'[q] = pc[q]
    BY DEF Shapes, Goto, MaintLock, MaintStep, MaintLoad, MaintOpenDa, MaintOpenDaTimeout, MaintOpenHa, MaintFind, MaintLockHdr,
           MaintLockHdrFails, MaintPutHdr, MaintPutIdx, MaintFreeDat, MaintFreeDatTimeout, MaintFreeHdr,
           MaintScanEnd, MaintClose, MaintWrite, MaintTruncate, MaintPutStatus
  <1>2. CASE MaintFind(p) /\ ~UNCHANGED msg
    <2>0. PICK j \in 1..Len(sid) : msg' = [msg EXCEPT ![p] = NewMsg(sid[j].num, sid[j].slot, j - 1)]
      BY <1>2 DEF MaintFind
    <2>1. PICK n, s, o : msg' = [msg EXCEPT ![p] = [num |-> n, slot |-> s, off |-> o, attr |-> {}]]
      BY <2>0, Zenon DEF NewMsg
    <2>2. pc[p] = "mt_scan"
      BY <1>2 DEF MaintFind
    <2> QED
      BY <1>1, <2>1, <2>2, MsgPut DEF Shapes, InHeader
  <1>3. CASE MaintLockHdr(p)
    <2>1. PICK n, a : msg' = [msg EXCEPT ![p].num = n, ![p].attr = a]
      BY <1>3 DEF MaintLockHdr
    <2> QED
      BY <1>1, <2>1, MsgRead DEF Shapes
  <1>4. CASE UNCHANGED msg
    BY <1>1, <1>4 DEF Shapes, MsgShape
  <1> QED
    BY <1>2, <1>3, <1>4 DEF local, MaintLock, MaintStep, MaintLoad, MaintOpenDa, MaintOpenDaTimeout, MaintOpenHa, MaintFind, MaintLockHdr,
           MaintLockHdrFails, MaintPutHdr, MaintPutIdx, MaintFreeDat, MaintFreeDatTimeout, MaintFreeHdr,
           MaintScanEnd, MaintClose, MaintWrite, MaintTruncate, MaintPutStatus

LEMMA MaintLocks ==
  ASSUME LockInv, NEW p \in Maintainers, MaintLock(p) \/ MaintStep(p)
  PROVE  LockInv'
  <1>1. p \in Proc /\ None \notin Proc /\ p \notin Readers
    BY Disjoint
  <1>2. /\ MsgShape' /\ pc' = [q \in Proc |-> pc'[q]]
        /\ \A q \in Proc \ {p} : pc'[q] = pc[q] /\ msg'[q] = msg[q]
        /\ pc[p] \in InHeader \cup {"mt_lockhdr"} => msg'[p].slot = msg[p].slot
    BY <1>1, MaintShapes DEF LockInv
  <1>3. pc = [q \in Proc |-> pc[q]]
    BY DEF LockInv, Shapes
  <1>4. pc'[p] \notin PgHa \cup {"idle", "undo_lock", "pg_ha"}
    BY <1>1, <1>3 DEF Goto, PgHa, MaintLock, MaintStep, MaintLoad, MaintOpenDa, MaintOpenDaTimeout, MaintOpenHa, MaintFind, MaintLockHdr,
           MaintLockHdrFails, MaintPutHdr, MaintPutIdx, MaintFreeDat, MaintFreeDatTimeout, MaintFreeHdr,
           MaintScanEnd, MaintClose, MaintWrite, MaintTruncate, MaintPutStatus
  <1>5. \A q \in Proc \ {p} : hdrLock' = q => hdrLock = q
    BY <1>1 DEF locks, MaintLock, MaintStep, MaintLoad, MaintOpenDa, MaintOpenDaTimeout, MaintOpenHa, MaintFind, MaintLockHdr,
           MaintLockHdrFails, MaintPutHdr, MaintPutIdx, MaintFreeDat, MaintFreeDatTimeout, MaintFreeHdr,
           MaintScanEnd, MaintClose, MaintWrite, MaintTruncate, MaintPutStatus
  <1>6. /\ haLock' \in {haLock, p, None}
        /\ \A q \in Proc \ {p} : (daLock' = q <=> daLock = q) /\ (haLock' = q <=> haLock = q)
        /\ pc'[p] = "mt_ha" => daLock' = p
        /\ haLock' = p => daLock' = p /\ pc'[p] \in MtHa
        /\ daLock' = p => pc'[p] \in MtDa
    <2>1. /\ haLock = p => daLock = p
          /\ daLock = p => pc[p] \in MtDa
          /\ pc[p] = "mt_ha" => daLock = p
      BY <1>1 DEF LockInv, Open, Holds
    <2>2. CASE MaintOpenDa(p)
      BY <1>1, <1>3, <2>1, <2>2 DEF MaintOpenDa, Goto, MtHa, MtDa
    <2>3. CASE MaintOpenHa(p)
      BY <1>1, <1>3, <2>1, <2>3 DEF MaintOpenHa, Goto, MtHa, MtDa
    <2>4. CASE MaintClose(p)
      BY <1>1, <1>3, <2>1, <2>4 DEF MaintClose, Goto, MtHa, MtDa
    <2>5. CASE MaintLock(p) \/ MaintLoad(p) \/ MaintOpenDaTimeout(p) \/ MaintWrite(p) \/ MaintTruncate(p)
               \/ MaintPutStatus(p)
      <3>1. /\ daLock' = daLock /\ haLock' = haLock /\ pc[p] \notin MtDa /\ pc'[p] # "mt_ha"
        BY <1>1, <1>3, <2>5 DEF locks, Goto, MtHa, MtDa, MaintLock, MaintLoad, MaintOpenDaTimeout, MaintWrite,
           MaintTruncate, MaintPutStatus
      <3> QED
        BY <2>1, <3>1
    <2>6. CASE \/ MaintFind(p) \/ MaintLockHdr(p) \/ MaintLockHdrFails(p) \/ MaintPutHdr(p) \/ MaintPutIdx(p)
               \/ MaintFreeDat(p) \/ MaintFreeDatTimeout(p) \/ MaintFreeHdr(p) \/ MaintScanEnd(p)
      <3>1. daLock' = daLock /\ haLock' = haLock /\ pc'[p] \in MtHa
        BY <1>1, <1>3, <2>6 DEF locks, Goto, MtHa, MaintFind, MaintLockHdr, MaintLockHdrFails, MaintPutHdr,
           MaintPutIdx, MaintFreeDat, MaintFreeDatTimeout, MaintFreeHdr, MaintScanEnd
      <3> QED
        BY <2>1, <3>1 DEF MtDa, MtHa
    <2> QED
      BY <2>2, <2>3, <2>4, <2>5, <2>6 DEF MaintStep
  <1>7. /\ msgLock' \in [Slots -> Proc \cup {None}]
        /\ \A q \in Proc \ {p}, s \in Slots : msgLock'[s] = q => msgLock[s] = q
        /\ \A s \in Slots : msgLock'[s] = p => pc'[p] \in InHeader /\ msg'[p].slot = s
    <2>0. msgLock \in [Slots -> Proc \cup {None}]
      BY DEF LockInv, Shapes
    <2>1. CASE MaintLockHdr(p)
      <3>1. msgLock' = [msgLock EXCEPT ![msg[p].slot] = p] /\ pc[p] = "mt_lockhdr" /\ pc'[p] = "mt_puthdr"
        BY <1>1, <1>3, <2>1 DEF MaintLockHdr, Goto
      <3>2. \A s \in Slots : msgLock[s] # p
        BY <1>1, <3>1 DEF LockInv, Holds, InHeader
      <3>3. msg'[p].slot = msg[p].slot
        BY <1>2, <3>1
      <3> QED
        BY <1>1, <2>0, <3>1, <3>2, <3>3 DEF InHeader
    <2>2. CASE MaintPutIdx(p)
      <3>1. msgLock' = [msgLock EXCEPT ![msg[p].slot] = None]
        BY <2>2 DEF MaintPutIdx
      <3>2. \A s \in Slots : msgLock[s] = p => s = msg[p].slot
        BY <1>1 DEF LockInv, Holds
      <3> QED
        BY <1>1, <2>0, <3>1, <3>2
    <2>3. CASE MaintPutHdr(p)
      <3>1. msgLock' = msgLock /\ pc[p] = "mt_puthdr" /\ pc'[p] = "mt_putidx"
        BY <1>1, <1>3, <2>3 DEF MaintPutHdr, locks, Goto
      <3>2. msg'[p].slot = msg[p].slot
        BY <1>2, <3>1 DEF InHeader
      <3> QED
        BY <1>1, <2>0, <3>1, <3>2 DEF InHeader, LockInv, Holds
    <2>4. CASE ~(MaintLockHdr(p) \/ MaintPutIdx(p) \/ MaintPutHdr(p))
      <3>1. msgLock' = msgLock /\ pc[p] \notin InHeader
        BY <2>4 DEF InHeader, locks, MaintLock, MaintStep, MaintLoad, MaintOpenDa, MaintOpenDaTimeout, MaintOpenHa, MaintFind, MaintLockHdr,
           MaintLockHdrFails, MaintPutHdr, MaintPutIdx, MaintFreeDat, MaintFreeDatTimeout, MaintFreeHdr,
           MaintScanEnd, MaintClose, MaintWrite, MaintTruncate, MaintPutStatus
      <3>2. \A s \in Slots : msgLock[s] # p
        BY <1>1, <3>1 DEF LockInv, Holds
      <3> QED
        BY <2>0, <3>1, <3>2
    <2> QED
      BY <2>1, <2>2, <2>3, <2>4
  <1>8. OthersKeep(p)
    BY <1>2, <1>5, <1>6, <1>7 DEF OthersKeep
  <1>9. Open(p)' /\ Holds(p)'
    BY <1>1, <1>4, <1>6, <1>7 DEF Open, Holds
  <1>10. Shapes'
    BY <1>2, <1>7 DEF Shapes
  <1> QED
    BY <1>1, <1>8, <1>9, <1>10, LockStep

-----------------------------------------------------------------------------
(* Readers, and what all have in common.                                    *)

LEMMA ReaderLocks ==
  ASSUME LockInv, NEW p \in Readers, LoadMsg(p) \/ UnlockMsgHdr(p)
  PROVE  LockInv'
  <1>1. p \in Proc /\ None \notin Proc /\ p \notin Maintainers
    BY Disjoint
  <1>2. Shapes
    BY DEF LockInv
  <1>3. PICK n, s, o : msg' = [msg EXCEPT ![p] = [num |-> n, slot |-> s, off |-> o, attr |-> {}]]
    <2>1. CASE LoadMsg(p)
      <3>1. PICK k \in 1..Len(sid) :
              msg' = [msg EXCEPT ![p] = NewMsg(sid[k].num, sid[k].slot, k - 1)]
        BY <2>1 DEF LoadMsg
      <3> QED
        BY <3>1, Zenon DEF NewMsg
    <2>2. CASE UnlockMsgHdr(p)
      BY <2>2 DEF UnlockMsgHdr, Forget, NewMsg, NoMsg
    <2> QED
      BY <2>1, <2>2
  <1>4. MsgShape' /\ msg'[p].slot = s /\ \A q \in Proc \ {p} : msg'[q] = msg[q]
    BY <1>1, <1>2, <1>3, MsgPut DEF Shapes
  <1>5. pc' = [q \in Proc |-> pc'[q]] /\ \A q \in Proc \ {p} : pc'[q] = pc[q]
    BY <1>2 DEF Shapes, Goto, LoadMsg, UnlockMsgHdr
  <1>6. hdrLock' = hdrLock /\ daLock' = daLock /\ haLock' = haLock
    BY DEF LoadMsg, UnlockMsgHdr
  <1>7. /\ pc[p] \notin PgHa \cup MtHa
        /\ pc'[p] \notin PgHa \cup {"undo_lock", "pg_ha", "mt_ha"}
    BY <1>1, <1>2 DEF Shapes, Goto, LoadMsg, UnlockMsgHdr, PgHa, MtHa
  <1>8. hdrLock # p /\ haLock # p
    BY <1>1, <1>7 DEF LockInv, Holds
  <1>9. /\ msgLock' \in [Slots -> Proc \cup {None}]
        /\ \A q \in Proc \ {p}, t \in Slots : msgLock'[t] = q => msgLock[t] = q
        /\ \A t \in Slots : msgLock'[t] = p => pc'[p] \in InHeader /\ msg'[p].slot = t
    <2>1. CASE LoadMsg(p)
      <3>1. PICK k \in 1..Len(sid) :
              /\ msgLock' = [msgLock EXCEPT ![sid[k].slot] = p]
              /\ msg' = [msg EXCEPT ![p] = NewMsg(sid[k].num, sid[k].slot, k - 1)]
        BY <2>1 DEF LoadMsg
      <3>2. msg'[p].slot = sid[k].slot
        <4>1. PICK m, t, d : m = sid[k].num /\ t = sid[k].slot /\ d = k - 1
          OBVIOUS
        <4>2. msg' = [msg EXCEPT ![p] = [num |-> m, slot |-> t, off |-> d, attr |-> {}]]
          BY <3>1, <4>1 DEF NewMsg
        <4>3. DOMAIN msg = Proc
          BY <1>2 DEF Shapes, MsgShape
        <4>4. msg'[p] = [num |-> m, slot |-> t, off |-> d, attr |-> {}]
          BY <1>1, <4>2, <4>3
        <4>5. msg'[p].slot = t
          BY <4>4
        <4> QED
          BY <4>1, <4>5
      <3>3. pc[p] = "idle" /\ pc'[p] = "loaded"
        BY <1>1, <1>2, <2>1 DEF Shapes, LoadMsg, Goto
      <3>4. \A t \in Slots : msgLock[t] # p
        BY <1>1, <3>3 DEF LockInv, Holds, InHeader
      <3> QED
        BY <1>1, <1>2, <3>1, <3>2, <3>3, <3>4 DEF Shapes, InHeader
    <2>2. CASE UnlockMsgHdr(p)
      <3>1. msgLock' = [msgLock EXCEPT ![msg[p].slot] = None]
        BY <2>2 DEF UnlockMsgHdr
      <3>2. \A t \in Slots : msgLock[t] = p => t = msg[p].slot
        BY <1>1 DEF LockInv, Holds
      <3> QED
        BY <1>1, <1>2, <3>1, <3>2 DEF Shapes
    <2> QED
      BY <2>1, <2>2
  <1>10. OthersKeep(p)
    BY <1>4, <1>5, <1>6, <1>9 DEF OthersKeep
  <1>11. Open(p)' /\ Holds(p)'
    BY <1>1, <1>6, <1>7, <1>8, <1>9 DEF Open, Holds
  <1>12. Shapes'
    BY <1>4, <1>5, <1>9 DEF Shapes
  <1> QED
    BY <1>1, <1>10, <1>11, <1>12, LockStep

LEMMA CommonLocks ==
  ASSUME LockInv, NEW p \in Proc, Unlock(p) \/ Crash(p)
  PROVE  LockInv'
  <1>1. None \notin Proc
    BY Disjoint
  <1>2. Shapes
    BY DEF LockInv
  <1>3. MsgShape' /\ \A q \in Proc \ {p} : msg'[q] = msg[q]
    <2>1. msg' = [msg EXCEPT ![p] = [num |-> 0, slot |-> 0, off |-> 0, attr |-> {}]]
      BY DEF Unlock, Crash, Forget, NoMsg, NewMsg
    <2> QED
      BY <1>2, <2>1, MsgPut DEF Shapes
  <1>4. pc' = [q \in Proc |-> pc'[q]] /\ pc'[p] = "idle" /\ \A q \in Proc \ {p} : pc'[q] = pc[q]
    BY <1>2 DEF Shapes, Goto, Unlock, Crash
  <1>5. CASE Unlock(p)
    <2>1. /\ hdrLock' = IF hdrLock = p THEN None ELSE hdrLock
          /\ daLock' = daLock /\ haLock' = haLock /\ msgLock' = msgLock /\ pc[p] = "unlock"
      BY <1>5 DEF Unlock
    <2>2. haLock # p /\ (p \in Maintainers => daLock # p) /\ \A s \in Slots : msgLock[s] # p
      BY <2>1 DEF LockInv, Holds, PgHa, MtHa, MtDa, InHeader
    <2>3. Shapes'
      BY <1>2, <1>3, <1>4, <2>1 DEF Shapes
    <2>4. OthersKeep(p)
      BY <1>1, <1>3, <1>4, <2>1 DEF OthersKeep
    <2>5. Open(p)' /\ Holds(p)'
      BY <1>1, <1>4, <2>1, <2>2 DEF Open, Holds, PgHa
    <2> QED
      BY <2>3, <2>4, <2>5, LockStep
  <1>6. CASE Crash(p)
    <2>1. /\ hdrLock' = IF hdrLock = p THEN None ELSE hdrLock
          /\ daLock' = IF daLock = p THEN None ELSE daLock
          /\ haLock' = IF haLock = p THEN None ELSE haLock
          /\ msgLock' = [s \in Slots |-> IF msgLock[s] = p THEN None ELSE msgLock[s]]
      BY <1>6 DEF Crash
    <2>2. hdrLock' # p /\ daLock' # p /\ haLock' # p /\ \A s \in Slots : msgLock'[s] # p
      BY <1>1, <2>1
    <2>3. Shapes'
      <3>1. msgLock' \in [Slots -> Proc \cup {None}]
        BY <1>2, <2>1 DEF Shapes
      <3> QED
        BY <1>3, <1>4, <3>1 DEF Shapes
    <2>4. OthersKeep(p)
      BY <1>1, <1>3, <1>4, <2>1 DEF OthersKeep
    <2>5. Open(p)' /\ Holds(p)'
      BY <1>4, <2>2 DEF Open, Holds, PgHa
    <2> QED
      BY <2>3, <2>4, <2>5, LockStep
  <1> QED
    BY <1>5, <1>6

LEMMA CloseLocks ==
  ASSUME LockInv, NEW p \in Proc, CloseBase(p)
  PROVE  LockInv'
  <1>1. /\ pc[p] = "idle" /\ daLock = p /\ daLock' = None
        /\ UNCHANGED <<hdrLock, haLock, msgLock, pc, msg>>
    BY DEF CloseBase, local
  <1>2. None \notin Proc
    BY Disjoint
  <1>3. \A q \in Proc : Open(q)' /\ Holds(q)'
    BY <1>1, <1>2 DEF LockInv, Open, Holds, PgHa, MtHa
  <1> QED
    BY <1>1, <1>3 DEF LockInv, Shapes, MsgShape

LEMMA NextLocks == ASSUME LockInv, [MaintNext]_vars PROVE LockInv'
  <1>1. ASSUME NEW p \in Maintainers, MaintLock(p) \/ MaintStep(p) \/ Unlock(p) \/ Crash(p)
        PROVE  LockInv'
    BY <1>1, MaintLocks, CommonLocks, Disjoint
  <1>2. ASSUME NEW p \in Readers, LoadMsg(p) \/ UnlockMsgHdr(p) \/ Crash(p)
        PROVE  LockInv'
    BY <1>2, ReaderLocks, CommonLocks, Disjoint
  <1>3. ASSUME NEW p \in Proc \ (Maintainers \cup Readers), Start(p) \/ Continue(p) \/ Crash(p)
        PROVE  LockInv'
    BY <1>3, PostLocks, ModifyLocks, PurgeLocks, CommonLocks, CloseLocks
       DEF Start, Continue, Posters, Modifiers
  <1>4. CASE UNCHANGED vars
    BY <1>4 DEF vars, LockInv, Shapes, MsgShape, Open, Holds
  <1> QED
    BY <1>1, <1>2, <1>3, <1>4 DEF MaintNext

\* However many programs run maint() and delmail, post and die: no two have an
\* allocation file open, and maint() has none open except while it frees.
THEOREM TablesInOne == MaintSpec => []OneInTables
  <1>1. LockInv => OneInTables
    <2> SUFFICES ASSUME LockInv PROVE OneInTables
      OBVIOUS
    <2> QED
      BY Disjoint DEF LockInv, Holds, OneInTables, MtDa, MtHa
  <1> QED
    BY <1>1, InitLocks, NextLocks, PTL DEF MaintSpec

\* Whatever the programs do, fail to get, or die of, beside any number of
\* maint(): one between two calls holds no lock on the base or a header.
THEOREM MaintLocksReturned == MaintSpec => []IdleHoldsNoLock
  <1>1. LockInv => IdleHoldsNoLock
    BY DEF LockInv, Holds, IdleHoldsNoLock, PgHa, MtHa, InHeader
  <1> QED
    BY <1>1, InitLocks, NextLocks, PTL DEF MaintSpec

-----------------------------------------------------------------------------
(* Induction: a set of numbers that has 0 and with each its successor has   *)
(* all of them, because a set of numbers that is not empty has a least one. *)

\* A set of numbers that is not empty has a least one.
LEMMA LeastNat ==
  ASSUME NEW S \in SUBSET Nat, S # {}
  PROVE  \E n \in S : \A m \in S : n <= m
  <1> DEFINE Less == {ss \in Nat \X Nat : ss[1] < ss[2]}
  <1>1. IsWellFoundedOn(Less, Nat)
    BY NatLessThanWellFounded DEF OpToRel
  <1>2. PICK n \in S : \A m \in S : <<m, n>> \notin Less
    <2> HIDE DEF Less
    <2> QED
      BY <1>1, WFMin
  <1>3. ASSUME NEW m \in S PROVE n <= m
    <2>1. n \in Nat /\ m \in Nat
      OBVIOUS
    <2>2. ~(m < n)
      BY <1>2, <2>1
    <2> QED
      BY <2>1, <2>2
  <1> QED
    BY <1>3

\* A set that has 0, and with each number the next, has all numbers.
LEMMA Induction ==
  ASSUME NEW S, 0 \in S, \A n \in Nat : n \in S => n + 1 \in S
  PROVE  Nat \subseteq S
  <1> DEFINE Out == {n \in Nat : n \notin S}
  <1> SUFFICES ASSUME Out # {} PROVE FALSE
    OBVIOUS
  <1>1. PICK n \in Out : \A m \in Out : n <= m
    <2>1. Out \in SUBSET Nat
      OBVIOUS
    <2> HIDE DEF Out
    <2> QED
      BY <2>1, LeastNat
  <1>2. n \in Nat /\ n # 0 /\ n \notin S
    OBVIOUS
  <1>3. n - 1 \in Nat /\ (n - 1) + 1 = n
    BY <1>2
  <1>4. n - 1 \in S
    BY <1>1, <1>3
  <1> QED
    BY <1>2, <1>3, <1>4

-----------------------------------------------------------------------------
(* What the loop that leaves out the marked records keeps of an index.      *)

\* b is what a purge keeps of index s
Keeps(b, s) ==
    /\ Len(b) <= Len(s) /\ Increasing(b)
    /\ \A i \in 1..Len(b) : ~Marked(b[i]) /\ \E k \in 1..Len(s) : b[i] = s[k]
    /\ \A k \in 1..Len(s) : ~Marked(s[k]) => \E i \in 1..Len(b) : b[i] = s[k]

\* b is what it keeps of the first n records of s
KeepsTo(b, s, n) ==
    /\ b \in Seq(IdxRecs) /\ Len(b) <= n
    /\ \A i \in 1..Len(b) : ~Marked(b[i]) /\ \E k \in 1..n : b[i] = s[k]
    /\ \A k \in 1..n : ~Marked(s[k]) => \E i \in 1..Len(b) : b[i] = s[k]
    /\ Increasing(s) => Increasing(b)
    /\ Len(b) = n => \A k \in 1..n : b[k] = s[k]

\* One turn of the loop: record n + 1 is looked at.
LEMMA KeepsNext ==
  ASSUME NEW s \in Seq(IdxRecs), NEW n \in Nat, n + 1 <= Len(s), NEW b, KeepsTo(b, s, n)
  PROVE  KeepsTo(IF Marked(s[n + 1]) THEN b ELSE Append(b, s[n + 1]), s, n + 1)
  <1>1. /\ b \in Seq(IdxRecs) /\ Len(b) \in Nat /\ Len(s) \in Nat /\ n + 1 \in 1..Len(s)
        /\ s[n + 1] \in IdxRecs
    BY DEF KeepsTo
  <1>2. CASE Marked(s[n + 1])
    <2>1. KeepsTo(b, s, n + 1)
      <3>1. Len(b) <= n + 1 /\ \A i \in 1..Len(b) : ~Marked(b[i]) /\ \E k \in 1..n + 1 : b[i] = s[k]
        BY <1>1 DEF KeepsTo
      <3>2. ASSUME NEW k \in 1..n + 1, ~Marked(s[k]) PROVE \E i \in 1..Len(b) : b[i] = s[k]
        BY <1>2, <3>2 DEF KeepsTo
      <3>3. Len(b) # n + 1
        BY <1>1 DEF KeepsTo
      <3> QED
        BY <1>1, <3>1, <3>2, <3>3 DEF KeepsTo
    <2> QED
      BY <1>2, <2>1
  <1>3. CASE ~Marked(s[n + 1])
    <2> DEFINE c == Append(b, s[n + 1])
    <2>1. /\ c \in Seq(IdxRecs) /\ Len(c) = Len(b) + 1
          /\ \A i \in 1..Len(b) : c[i] = b[i]
          /\ c[Len(b) + 1] = s[n + 1]
      BY <1>1, AppendProperties
    <2> HIDE DEF c
    <2>2. \A i \in 1..Len(c) : i \in 1..Len(b) \/ i = Len(b) + 1
      BY <1>1, <2>1
    <2>3. ASSUME NEW i \in 1..Len(c)
          PROVE  ~Marked(c[i]) /\ \E k \in 1..n + 1 : c[i] = s[k]
      <3>1. CASE i \in 1..Len(b)
        <4>1. PICK k \in 1..n : b[i] = s[k]
          BY <3>1 DEF KeepsTo
        <4>2. ~Marked(b[i]) /\ c[i] = b[i] /\ k \in 1..n + 1
          BY <2>1, <3>1 DEF KeepsTo
        <4> QED
          BY <4>1, <4>2
      <3>2. CASE i = Len(b) + 1
        <4>1. c[i] = s[n + 1] /\ n + 1 \in 1..n + 1
          BY <2>1, <3>2
        <4> QED
          BY <1>3, <4>1
      <3> QED
        BY <2>2, <3>1, <3>2
    <2>4. ASSUME NEW k \in 1..n + 1, ~Marked(s[k]) PROVE \E i \in 1..Len(c) : c[i] = s[k]
      <3>1. CASE k = n + 1
        <4>1. Len(b) + 1 \in 1..Len(c)
          BY <1>1, <2>1
        <4> QED
          BY <2>1, <3>1, <4>1
      <3>2. CASE k # n + 1
        <4>1. PICK i \in 1..Len(b) : b[i] = s[k]
          BY <2>4, <3>2 DEF KeepsTo
        <4>2. i \in 1..Len(c)
          BY <1>1, <2>1
        <4> QED
          BY <2>1, <4>1, <4>2
      <3> QED
        BY <3>1, <3>2
    <2>5. ASSUME Increasing(s) PROVE Increasing(c)
      <3>1. SUFFICES ASSUME NEW i \in 1..Len(c), NEW j \in 1..Len(c), i < j
                     PROVE  c[i].num < c[j].num
        BY DEF Increasing
      <3>2. i \in 1..Len(b) /\ c[i] = b[i]
        BY <1>1, <2>1, <2>2, <3>1
      <3>3. CASE j \in 1..Len(b)
        BY <2>1, <2>5, <3>1, <3>2, <3>3 DEF KeepsTo, Increasing
      <3>4. CASE j = Len(b) + 1
        <4>1. PICK k \in 1..n : b[i] = s[k]
          BY <3>2 DEF KeepsTo
        <4>2. s[k].num < s[n + 1].num
          BY <1>1, <2>5 DEF Increasing
        <4> QED
          BY <2>1, <3>2, <3>4, <4>1, <4>2
      <3> QED
        BY <2>2, <3>3, <3>4
    <2>6. ASSUME Len(c) = n + 1, NEW k \in 1..n + 1 PROVE c[k] = s[k]
      <3>1. Len(b) = n
        BY <1>1, <2>1, <2>6
      <3>2. CASE k = n + 1
        BY <2>1, <3>1, <3>2
      <3>3. CASE k # n + 1
        <4>1. k \in 1..n
          BY <3>3
        <4> QED
          BY <2>1, <3>1, <4>1 DEF KeepsTo
      <3> QED
        BY <3>2, <3>3
    <2>7. KeepsTo(c, s, n + 1)
      BY <1>1, <2>1, <2>3, <2>4, <2>5, <2>6 DEF KeepsTo
    <2> QED
      BY <1>3, <2>7 DEF c
  <1> QED
    BY <1>2, <1>3

\* A function on 0..m is the loop if each value is made from the one before.
IsLoop(f, s, m) ==
    /\ f = [n \in 0..m |-> f[n]]
    /\ f[0] = <<>>
    /\ \A n \in 0..m : n # 0 => f[n] = IF Marked(s[n]) THEN f[n - 1] ELSE Append(f[n - 1], s[n])

\* The recursive function that stands for the loop exists.
LEMMA LoopExists ==
  ASSUME NEW s
  PROVE  \A m \in Nat : \E f : IsLoop(f, s, m)
  <1> DEFINE good == {m \in Nat : \E f : IsLoop(f, s, m)}
  <1>1. 0 \in good
    <2> DEFINE f == [n \in 0..0 |-> <<>>]
    <2>1. f = [n \in 0..0 |-> f[n]] /\ f[0] = <<>>
      OBVIOUS
    <2>2. \A n \in 0..0 : n = 0
      OBVIOUS
    <2> HIDE DEF f
    <2>3. IsLoop(f, s, 0)
      BY <2>1, <2>2 DEF IsLoop
    <2> QED
      BY <2>3
  <1>2. ASSUME NEW m \in Nat, m \in good PROVE m + 1 \in good
    <2>1. PICK f : IsLoop(f, s, m)
      BY <1>2
    <2> DEFINE last == IF Marked(s[m + 1]) THEN f[m] ELSE Append(f[m], s[m + 1])
               g == [n \in 0..m + 1 |-> IF n = m + 1 THEN last ELSE f[n]]
    <2>2. /\ \A n \in 0..m : n \in 0..m + 1 /\ n # m + 1
          /\ \A n \in 0..m + 1 : n # m + 1 => n \in 0..m
          /\ m + 1 \in 0..m + 1 /\ (m + 1) - 1 = m /\ m \in 0..m /\ 0 \in 0..m
          /\ \A n \in 0..m : n # 0 => n - 1 \in 0..m
      OBVIOUS
    <2> HIDE DEF last
    <2>3. /\ g = [n \in 0..m + 1 |-> g[n]]
          /\ g[m + 1] = last
          /\ \A n \in 0..m : g[n] = f[n]
      BY <2>2
    <2> HIDE DEF g
    <2>4. g[0] = <<>>
      BY <2>1, <2>2, <2>3 DEF IsLoop
    <2>5. ASSUME NEW n \in 0..m + 1, n # 0
          PROVE  g[n] = IF Marked(s[n]) THEN g[n - 1] ELSE Append(g[n - 1], s[n])
      <3>1. CASE n = m + 1
        <4>1. g[n - 1] = f[m] /\ g[n] = last /\ s[n] = s[m + 1]
          BY <2>2, <2>3, <3>1
        <4> QED
          BY <4>1 DEF last
      <3>2. CASE n # m + 1
        <4>1. n \in 0..m /\ n - 1 \in 0..m
          BY <2>2, <2>5, <3>2
        <4>2. g[n] = f[n] /\ g[n - 1] = f[n - 1]
          BY <2>3, <4>1
        <4> QED
          BY <2>1, <2>5, <4>1, <4>2 DEF IsLoop
      <3> QED
        BY <3>1, <3>2
    <2>6. IsLoop(g, s, m + 1)
      BY <2>3, <2>4, <2>5 DEF IsLoop
    <2> QED
      BY <2>6
  <1> HIDE DEF good
  <1>3. Nat \subseteq good
    BY <1>1, <1>2, Induction
  <1> QED
    BY <1>3 DEF good

\* What the recursive function in the definition of Kept comes to.
LEMMA KeptTo ==
  ASSUME NEW s \in Seq(IdxRecs)
  PROVE  KeepsTo(Kept(s), s, Len(s))
  <1> DEFINE step(f, n) == IF n = 0 THEN <<>>
                           ELSE IF Marked(s[n]) THEN f[n - 1] ELSE Append(f[n - 1], s[n])
             isLoop(f) == f = [n \in 0..Len(s) |-> step(f, n)]
             loop == CHOOSE f : isLoop(f)
  <1>0. Len(s) \in Nat
    OBVIOUS
  <1>1. \E f : isLoop(f)
    <2>1. PICK f : IsLoop(f, s, Len(s))
      BY <1>0, LoopExists
    <2>2. \A n \in 0..Len(s) : f[n] = step(f, n)
      BY <2>1 DEF IsLoop
    <2>3. f = [n \in 0..Len(s) |-> f[n]]
      BY <2>1 DEF IsLoop
    <2> HIDE DEF step
    <2>4. isLoop(f)
      BY <2>2, <2>3
    <2> QED
      BY <2>4
  <1>2. isLoop(loop)
    <2> HIDE DEF isLoop
    <2> QED
      BY <1>1
  <1>3. Kept(s) = loop[Len(s)]
    BY DEF Kept
  <1> HIDE DEF loop
  <1>4. \A n \in 0..Len(s) : loop[n] = step(loop, n)
    <2> HIDE DEF step
    <2> QED
      BY <1>2
  <1>5. \A n \in Nat : n + 1 <= Len(s) =>
            /\ n \in 0..Len(s) /\ n + 1 \in 0..Len(s) /\ n + 1 # 0 /\ (n + 1) - 1 = n
    BY <1>0
  <1>6. loop[0] = <<>>
    <2>1. 0 \in 0..Len(s)
      BY <1>0
    <2>2. loop[0] = step(loop, 0)
      BY <1>4, <2>1
    <2> QED
      BY <2>2
  <1>7. ASSUME NEW n \in Nat, n + 1 <= Len(s)
        PROVE  loop[n + 1] = IF Marked(s[n + 1]) THEN loop[n] ELSE Append(loop[n], s[n + 1])
    <2>1. loop[n + 1] = step(loop, n + 1)
      BY <1>4, <1>5, <1>7
    <2> QED
      BY <1>5, <1>7, <2>1
  <1> HIDE DEF isLoop, step
  <1> DEFINE kept == {n \in Nat : n <= Len(s) => KeepsTo(loop[n], s, n)}
  <1>8. 0 \in kept
    <2>1. loop[0] \in Seq(IdxRecs) /\ Len(loop[0]) = 0
      BY <1>6
    <2>2. 1..Len(loop[0]) = {} /\ 1..0 = {}
      BY <2>1
    <2>3. KeepsTo(loop[0], s, 0)
      BY <2>1, <2>2 DEF KeepsTo, Increasing
    <2> QED
      BY <2>3
  <1>9. ASSUME NEW n \in Nat, n \in kept PROVE n + 1 \in kept
    <2>1. CASE n + 1 <= Len(s)
      <3>1. KeepsTo(loop[n], s, n)
        BY <1>0, <1>9, <2>1
      <3>2. KeepsTo(loop[n + 1], s, n + 1)
        <4>1. PICK b : b = loop[n]
          OBVIOUS
        <4>2. KeepsTo(IF Marked(s[n + 1]) THEN b ELSE Append(b, s[n + 1]), s, n + 1)
          BY <2>1, <3>1, <4>1, KeepsNext
        <4> QED
          BY <1>7, <2>1, <4>1, <4>2
      <3> QED
        BY <3>2
    <2>2. CASE ~(n + 1 <= Len(s))
      BY <2>2
    <2> QED
      BY <2>1, <2>2
  <1>10. Len(s) \in kept
    <2> HIDE DEF kept
    <2> QED
      BY <1>0, <1>8, <1>9, Induction
  <1> QED
    BY <1>0, <1>3, <1>10

\* What the loop keeps of a sorted index: all its unmarked records, in order.
LEMMA KeptKeeps ==
  ASSUME NEW s \in Seq(IdxRecs), Increasing(s)
  PROVE  Kept(s) \in Seq(IdxRecs) /\ Keeps(Kept(s), s)
  BY KeptTo DEF KeepsTo, Keeps

-----------------------------------------------------------------------------
(* A hyper-allocated base: its blocks are never freed, and a purge keeps    *)
(* the lock on the base from its first step to its last.                    *)

HyperBase == Hyper /\ Editors = {} /\ Crashers \subseteq Updaters \cup Senders

\* Where a process may be without the lock on the base
Free == {"idle", "unlock", "send_lock", "loaded"}

\* Between the first of several writes that belong together and the last
Halfway == {"add_putstatus", "pg_trunc", "pg_putstatus", "mt_trunc", "mt_putstatus"}

\* Where no call comes in such a base
NotHere == {"add_data", "undo_open", "undo_lock", "pg_freedat", "pg_freehdr",
            "mt_da", "mt_ha", "mt_freedat", "mt_freehdr"}

Modifying == {"send_lock", "getidx", "lockhdr", "puthdr", "putidx", "loaded"}
Cutting == {"pg_trunc", "mt_trunc"}
Maintaining == {"mt_scan", "mt_lockhdr", "mt_puthdr", "mt_putidx", "mt_close", "mt_write"}

HyTypes ==
    /\ pc = [p \in Proc |-> pc[p]]
    /\ status \in Statuses /\ sid \in Seq(IdxRecs) /\ shd \in [Slots -> Hdrs]
    /\ st \in [Proc -> Statuses] /\ msg \in [Proc -> Msgs]
    /\ buf \in [Proc -> Seq(IdxRecs)] /\ pos \in [Proc -> Nat]

PlaceOf(p) ==
    /\ pc[p] \notin NotHere
    /\ pc[p] \notin Free => hdrLock = p
    /\ p \in Modifiers => pc[p] \in Modifying \cup {"idle", "unlock"}
    /\ pc[p] \in Cutting => p \in Purgers
    /\ pc[p] \in {"idle", "pg_status", "pg_da", "pg_ha"} => buf[p] = <<>> /\ pos[p] = 0

\* Every record has its own header
Own == \A k \in 1..Len(sid) : sid[k].num >= 1 /\ shd[sid[k].slot].num = sid[k].num

Below(n) == \A k \in 1..Len(sid) : sid[k].num <= n

Orderly == Increasing(sid) /\ status.total = Len(sid) /\ Below(status.last)

\* c was read from index s, some of whose records may have been marked since
Snapshot(c, s) ==
    /\ Len(c) = Len(s)
    /\ \A k \in 1..Len(s) :
          c[k].num = s[k].num /\ (IF Marked(c[k]) THEN Marked(s[k]) ELSE c[k] = s[k])

\* index s begins with b; of what follows, b has what is not marked and no more
Rewritten(b, s) ==
    /\ Len(b) <= Len(s) /\ Increasing(b)
    /\ \A i \in 1..Len(b) : s[i] = b[i] /\ ~Marked(b[i])
    /\ \A k \in 1..Len(s) : Marked(s[k]) <=> \A i \in 1..Len(b) : b[i].num # s[k].num

\* What a process knows of the files while it has the base locked ...
KnowsAdd(p) ==
    /\ pc[p] \in {"add_alloc", "add_puthdr", "add_putidx"} =>
         /\ st[p] = status /\ msg[p].off = Len(sid)
         /\ msg[p].num = status.last + 1 /\ msg[p].attr = {}
    /\ pc[p] = "add_puthdr" => msg[p].slot \in Slots /\ shd[msg[p].slot] = NoHdr
    /\ pc[p] = "add_putidx" => msg[p].slot \in Slots /\ shd[msg[p].slot].num = msg[p].num
    /\ pc[p] = "add_putstatus" =>
         st[p] = status /\ Increasing(sid) /\ Len(sid) = status.total + 1 /\ Below(status.last + 1)

\* ... of the message it has looked up ...
KnowsMsg(p) ==
    pc[p] \in {"lockhdr", "puthdr", "putidx", "mt_lockhdr", "mt_puthdr", "mt_putidx"} =>
        /\ msg[p].slot \in Slots /\ msg[p].off < Len(sid)
        /\ sid[msg[p].off + 1].num = msg[p].num /\ sid[msg[p].off + 1].slot = msg[p].slot

\* ... and of the records that delmail ...
KnowsPurge(p) ==
    /\ pc[p] \in {"pg_da", "pg_ha"} => st[p] = status
    /\ pc[p] = "pg_scan" =>
         st[p] = status /\ pos[p] <= Len(sid) /\ KeepsTo(buf[p], sid, pos[p])
    /\ pc[p] = "pg_trunc" =>
         st[p].last = status.last /\ Below(status.last) /\ Rewritten(buf[p], sid)
    /\ pc[p] = "pg_putstatus" =>
         st[p].last = status.last /\ Below(status.last) /\ Increasing(sid) /\ Len(sid) = Len(buf[p])

\* ... or maint() keeps
KnowsMaint(p) ==
    /\ pc[p] \in Maintaining => st[p] = status /\ Snapshot(buf[p], sid)
    /\ pc[p] \in {"mt_lockhdr", "mt_puthdr", "mt_putidx"} => Marked(buf[p][msg[p].off + 1])
    /\ pc[p] \in {"mt_puthdr", "mt_putidx"} => "delete" \in msg[p].attr
    /\ pc[p] \in {"mt_trunc", "mt_putstatus"} =>
         st[p].last = status.last /\ st[p].total = Len(buf[p]) /\ Below(status.last)
    /\ pc[p] = "mt_trunc" => Rewritten(Kept(buf[p]), sid)
    /\ pc[p] = "mt_putstatus" => Increasing(sid) /\ Len(sid) = Len(Kept(buf[p]))

Knows(p) == KnowsAdd(p) /\ KnowsMsg(p) /\ KnowsPurge(p) /\ KnowsMaint(p)

HyperInv ==
    /\ HyTypes /\ Own
    /\ (\A p \in Proc : pc[p] \notin Halfway) => Orderly
    /\ \A p \in Proc : PlaceOf(p) /\ Knows(p)

\* What the step does to the index and the status is sound.
Sound ==
    /\ sid' # sid => hdrLock # None /\ pc'[hdrLock] # pc[hdrLock]
    /\ \A k \in 1..Len(sid) : ~Marked(sid[k]) => \E j \in 1..Len(sid') : sid'[j].num = sid[k].num
    /\ status'.last >= status.last
    /\ \A j \in 1..Len(sid') :
          (\A k \in 1..Len(sid) : sid[k].num # sid'[j].num) => sid'[j].num > status.last

\* The local state of every process but p stays.
Others(p) ==
    \A q \in Proc \ {p} :
        pc'[q] = pc[q] /\ st'[q] = st[q] /\ msg'[q] = msg[q] /\ buf'[q] = buf[q] /\ pos'[q] = pos[q]

\* No process but p needs the lock where it is.
Alone(p) == \A q \in Proc \ {p} : pc[q] \in Free

-----------------------------------------------------------------------------
\* When nobody has the base locked, or p is at work, nobody else is at work.
LEMMA KnownAlone ==
  ASSUME HyperInv, NEW p \in Proc, hdrLock = None \/ pc[p] \notin Free
  PROVE  Alone(p)
  <1>1. None \notin Proc
    BY SmbBaseAssumption
  <1>2. hdrLock \in {None, p}
    BY DEF HyperInv, PlaceOf
  <1> QED
    BY <1>1, <1>2 DEF HyperInv, PlaceOf, Alone

\* What a process knows where it has no lock needs no file to stay as it is.
LEMMA AtEase ==
  ASSUME NEW p, pc[p] \in Free
  PROVE  Knows(p)
  BY DEF Free, Knows, KnowsAdd, KnowsMsg, KnowsPurge, KnowsMaint, Maintaining

\* At work alone, a process finds the index in order unless it is itself
\* halfway through.
LEMMA FindsOrder ==
  ASSUME HyperInv, NEW p \in Proc, Alone(p), pc[p] \notin Halfway
  PROVE  Orderly
  <1>1. Free \cap Halfway = {}
    BY DEF Free, Halfway
  <1> QED
    BY <1>1 DEF HyperInv, Alone

\* A step of p alone keeps the invariant when p then knows what it must.
LEMMA HyStep ==
  ASSUME HyperInv, NEW p \in Proc, Alone(p), Others(p), HyTypes', Own',
         PlaceOf(p)', Knows(p)', pc'[p] \notin Halfway => Orderly'
  PROVE  HyperInv'
  <1>1. ASSUME NEW q \in Proc, q # p PROVE PlaceOf(q)' /\ Knows(q)'
    <2>1. pc'[q] \in Free /\ pc'[q] = pc[q] /\ buf'[q] = buf[q] /\ pos'[q] = pos[q]
      BY <1>1 DEF Alone, Others
    <2>2. Knows(q)'
      <3>1. (pc[q] \in Free)'
        BY <2>1 DEF Free
      <3> QED
        BY <3>1 DEF Free, Knows, KnowsAdd, KnowsMsg, KnowsPurge, KnowsMaint, Maintaining
    <2> QED
      BY <1>1, <2>1, <2>2 DEF HyperInv, PlaceOf, Free
  <1>2. (\A q \in Proc : pc'[q] \notin Halfway) => Orderly'
    OBVIOUS
  <1>3. \A q \in Proc : PlaceOf(q)' /\ Knows(q)'
    BY <1>1
  <1> QED
    BY <1>2, <1>3 DEF HyperInv

\* A step that leaves index and status alone is sound.
LEMMA SameSound ==
  ASSUME HyTypes, UNCHANGED <<sid, status>>
  PROVE  Sound
  <1>1. status.last \in Nat
    BY DEF HyTypes, Statuses
  <1>2. \A k \in 1..Len(sid) : sid'[k].num = sid[k].num
    OBVIOUS
  <1> QED
    BY <1>1, <1>2 DEF Sound

\* A step that leaves the files alone
LEMMA HyLocal ==
  ASSUME HyperInv, NEW p \in Proc, Alone(p), Others(p), HyTypes', UNCHANGED <<sid, status, shd>>,
         PlaceOf(p)', Knows(p)', pc[p] \notin Halfway
  PROVE  HyperInv' /\ Sound
  <1>1. Own'
    BY DEF HyperInv, Own
  <1>2. Orderly'
    BY FindsOrder DEF Orderly, Increasing, Below
  <1>3. Sound
    BY SameSound DEF HyperInv
  <1> QED
    BY <1>1, <1>2, <1>3, HyStep

\* A step of a process that does not need the lock, or gives it up
LEMMA HyQuiet ==
  ASSUME HyperInv, NEW p \in Proc, Others(p), HyTypes', UNCHANGED <<sid, status, shd>>,
         PlaceOf(p)', pc'[p] \in Free, pc[p] \notin Halfway,
         \A q \in Proc \ {p} : hdrLock = q => hdrLock' = q
  PROVE  HyperInv' /\ Sound
  <1>1. Own'
    BY DEF HyperInv, Own
  <1>2. (\A q \in Proc : pc'[q] \notin Halfway) => Orderly'
    BY DEF HyperInv, Others, Orderly, Increasing, Below
  <1>3. ASSUME NEW q \in Proc, q # p PROVE PlaceOf(q)'
    BY <1>3 DEF HyperInv, Others, PlaceOf
  <1>4. ASSUME NEW q \in Proc, q # p PROVE Knows(q)'
    <2>1. pc'[q] = pc[q] /\ st'[q] = st[q] /\ msg'[q] = msg[q] /\ buf'[q] = buf[q] /\ pos'[q] = pos[q]
      BY <1>4 DEF Others
    <2>2. Knows(q)
      BY DEF HyperInv
    <2>3. KnowsAdd(q)' /\ KnowsMsg(q)'
      BY <2>1, <2>2 DEF Knows, KnowsAdd, KnowsMsg, Increasing, Below
    <2>4. KnowsPurge(q)'
      BY <2>1, <2>2 DEF Knows, KnowsPurge, Increasing, Below
    <2>5. KnowsMaint(q)'
      BY <2>1, <2>2 DEF Knows, KnowsMaint, Increasing, Below
    <2> QED
      BY <2>3, <2>4, <2>5 DEF Knows
  <1>5. Knows(p)'
    BY DEF Free, Knows, KnowsAdd, KnowsMsg, KnowsPurge, KnowsMaint, Maintaining
  <1>6. Sound
    BY SameSound DEF HyperInv
  <1> QED
    BY <1>1, <1>2, <1>3, <1>4, <1>5, <1>6 DEF HyperInv

\* The invariant holds of a base that nobody uses yet.
LEMMA InitHyper == ASSUME Init PROVE HyperInv
  <1>1. PICK n \in 0..InitMsgs : \E marked \in [1..n -> {{}, {"delete"}}] :
        /\ status = [last |-> n, total |-> n]
        /\ sid = [i \in 1..n |-> [num |-> i, slot |-> i, attr |-> marked[i]]]
        /\ shd = [s \in Slots |-> IF s \in 1..n THEN [num |-> s, attr |-> marked[s]] ELSE NoHdr]
    BY DEF Init
  <1>2. PICK marked \in [1..n -> {{}, {"delete"}}] :
        /\ status = [last |-> n, total |-> n]
        /\ sid = [i \in 1..n |-> [num |-> i, slot |-> i, attr |-> marked[i]]]
        /\ shd = [s \in Slots |-> IF s \in 1..n THEN [num |-> s, attr |-> marked[s]] ELSE NoHdr]
    BY <1>1
  <1>3. n \in Nat /\ 1..n \subseteq Slots /\ \A i \in 1..n : marked[i] \in SUBSET Attrs
    <2>1. n <= InitMsgs /\ InitMsgs \in Nat /\ n \in Nat /\ 1..InitMsgs \subseteq Slots
      BY SmbBaseAssumption
    <2>2. {{}, {"delete"}} \subseteq SUBSET Attrs
      BY DEF Attrs
    <2> QED
      BY <2>1, <2>2
  <1>4. Len(sid) = n /\ \A i \in 1..n : sid[i].num = i /\ sid[i].slot = i
    BY <1>2, <1>3
  <1>5. HyTypes
    <2>1. sid \in Seq(IdxRecs)
      <3>1. \A i \in 1..n : [num |-> i, slot |-> i, attr |-> marked[i]] \in IdxRecs
        BY <1>3 DEF IdxRecs
      <3> QED
        BY <1>2, <1>3, <3>1
    <2>2. shd \in [Slots -> Hdrs]
      <3>1. NoHdr \in Hdrs /\ \A i \in 1..n : [num |-> i, attr |-> marked[i]] \in Hdrs
        BY <1>3 DEF Hdrs, NoHdr
      <3> QED
        BY <1>2, <3>1
    <2>3. status \in Statuses /\ st \in [Proc -> Statuses] /\ msg \in [Proc -> Msgs]
      BY <1>2, <1>3 DEF Init, Statuses, NoStatus, Msgs, NoMsg, NewMsg
    <2>4. pc = [p \in Proc |-> pc[p]]
      BY DEF Init
    <2>5. buf \in [Proc -> Seq(IdxRecs)] /\ pos \in [Proc -> Nat]
      BY DEF Init
    <2> QED
      BY <2>1, <2>2, <2>3, <2>4, <2>5 DEF HyTypes
  <1>6. Own
    BY <1>2, <1>3, <1>4 DEF Own
  <1>7. Orderly
    BY <1>2, <1>3, <1>4 DEF Orderly, Increasing, Below
  <1>8. \A p \in Proc : pc[p] = "idle" /\ buf[p] = <<>> /\ pos[p] = 0
    BY DEF Init
  <1>9. ASSUME NEW p \in Proc PROVE PlaceOf(p)
    BY <1>8 DEF PlaceOf, NotHere, Free, Cutting
  <1>10. ASSUME NEW p \in Proc PROVE Knows(p)
    BY <1>8, AtEase DEF Free
  <1> QED
    BY <1>5, <1>6, <1>7, <1>9, <1>10 DEF HyperInv

-----------------------------------------------------------------------------
(* The rewriting of an index, from either program's point of view.          *)

\* What is kept of a snapshot is what is to be kept of the index itself.
LEMMA KeptOfSnapshot ==
  ASSUME NEW s \in Seq(IdxRecs), NEW c \in Seq(IdxRecs), Increasing(s), Snapshot(c, s)
  PROVE  Kept(c) \in Seq(IdxRecs) /\ Keeps(Kept(c), s)
  <1>1. Increasing(c)
    BY DEF Increasing, Snapshot
  <1> DEFINE b == Kept(c)
  <1>2. b \in Seq(IdxRecs) /\ Keeps(b, c)
    BY <1>1, KeptKeeps
  <1> HIDE DEF b
  <1>3. ASSUME NEW i \in 1..Len(b) PROVE ~Marked(b[i]) /\ \E k \in 1..Len(s) : b[i] = s[k]
    BY <1>2 DEF Keeps, Snapshot
  <1>4. ASSUME NEW k \in 1..Len(s), ~Marked(s[k]) PROVE \E i \in 1..Len(b) : b[i] = s[k]
    <2>1. ~Marked(c[k]) /\ c[k] = s[k] /\ k \in 1..Len(c)
      BY <1>4 DEF Snapshot
    <2> QED
      BY <1>2, <2>1 DEF Keeps
  <1>5. Keeps(b, s)
    BY <1>2, <1>3, <1>4 DEF Keeps, Snapshot
  <1> QED
    BY <1>2, <1>5 DEF b

\* The kept records are written from the start of the index.
Over(b, s) == b \o SubSeq(s, Len(b) + 1, Len(s))

\* The kept records written over the start of the index.
LEMMA WrittenOver ==
  ASSUME NEW s \in Seq(IdxRecs), NEW b \in Seq(IdxRecs), Increasing(s), Keeps(b, s)
  PROVE  /\ Over(b, s) \in Seq(IdxRecs) /\ Len(Over(b, s)) = Len(s) /\ Rewritten(b, Over(b, s))
         /\ \A j \in 1..Len(s) : \E k \in 1..Len(s) : Over(b, s)[j] = s[k]
         /\ \A k \in 1..Len(s) : ~Marked(s[k]) => \E j \in 1..Len(s) : Over(b, s)[j] = s[k]
  <1>0. PICK t : t = Over(b, s)
    OBVIOUS
  <1>1. Len(b) \in Nat /\ Len(s) \in Nat /\ Len(b) <= Len(s)
    BY DEF Keeps
  <1> DEFINE r == SubSeq(s, Len(b) + 1, Len(s))
  <1>2. /\ r \in Seq(IdxRecs) /\ Len(r) = Len(s) - Len(b)
        /\ \A i \in 1..Len(r) : r[i] = s[Len(b) + i]
    <2>1. /\ Len(b) + 1 \in 1..Len(s) + 1 /\ Len(s) \in Len(b)..Len(s)
          /\ \A i \in 1..Len(s) - Len(b) : Len(b) + 1 + i - 1 = Len(b) + i
      BY <1>1
    <2> QED
      BY <1>1, <2>1
  <1> HIDE DEF r
  <1>3. /\ t \in Seq(IdxRecs) /\ Len(t) = Len(s)
        /\ \A i \in 1..Len(b) : t[i] = b[i]
        /\ \A k \in Len(b) + 1..Len(s) : t[k] = s[k]
    <2>1. t = b \o r
      BY <1>0 DEF r, Over
    <2>2. t \in Seq(IdxRecs) /\ Len(t) = Len(b) + Len(r)
      BY <1>2, <2>1, ConcatProperties
    <2>3. \A i \in 1..Len(t) : t[i] = IF i <= Len(b) THEN b[i] ELSE r[i - Len(b)]
      BY <1>2, <2>1, ConcatProperties
    <2>4. \A i \in 1..Len(b) : t[i] = b[i]
      BY <1>1, <1>2, <2>2, <2>3
    <2>5. ASSUME NEW k \in Len(b) + 1..Len(s) PROVE t[k] = s[k]
      <3>1. k \in 1..Len(t) /\ ~(k <= Len(b)) /\ k - Len(b) \in 1..Len(r) /\ Len(b) + (k - Len(b)) = k
        BY <1>1, <1>2, <2>2
      <3> QED
        BY <1>2, <2>3, <3>1
    <2> QED
      BY <1>1, <1>2, <2>2, <2>4, <2>5
  <1>4. \A k \in 1..Len(s) : k \in 1..Len(b) \/ k \in Len(b) + 1..Len(s)
    BY <1>1
  <1>5. \A i \in 1..Len(b) : i \in 1..Len(t)
    BY <1>1, <1>3
  <1>6. ASSUME NEW k \in 1..Len(t), ~Marked(t[k]) PROVE \E i \in 1..Len(b) : b[i].num = t[k].num
    BY <1>3, <1>4, <1>6 DEF Keeps
  <1>a. ASSUME NEW k \in 1..Len(t), Marked(t[k]), NEW i \in 1..Len(b), b[i].num = t[k].num
        PROVE  FALSE
    <2>1. k \in Len(b) + 1..Len(s) /\ t[k] = s[k] /\ k \in 1..Len(s)
      BY <1>3, <1>4, <1>a DEF Keeps
    <2>2. ~Marked(b[i]) /\ \E m \in 1..Len(s) : b[i] = s[m]
      BY DEF Keeps
    <2>3. PICK m \in 1..Len(s) : b[i] = s[m]
      BY <2>2
    <2>4. m # k /\ s[m].num = s[k].num
      BY <1>a, <2>1, <2>2, <2>3
    <2>5. s[m] \in IdxRecs /\ s[k] \in IdxRecs /\ m \in Nat /\ k \in Nat
      BY <2>1
    <2>6. s[m].num \in Nat
      BY <2>5 DEF IdxRecs
    <2>7. ~(m < k) /\ ~(k < m)
      BY <2>1, <2>4, <2>6 DEF Increasing
    <2> QED
      BY <2>4, <2>5, <2>7
  <1>7. Rewritten(b, t)
    <2>1. \A k \in 1..Len(t) : Marked(t[k]) <=> \A i \in 1..Len(b) : b[i].num # t[k].num
      BY <1>6, <1>a
    <2> QED
      BY <1>1, <1>3, <2>1 DEF Rewritten, Keeps
  <1>8. \A j \in 1..Len(t) : \E k \in 1..Len(s) : t[j] = s[k]
    BY <1>3, <1>4 DEF Keeps
  <1>9. ASSUME NEW k \in 1..Len(s), ~Marked(s[k]) PROVE \E j \in 1..Len(t) : t[j] = s[k]
    <2>1. PICK i \in 1..Len(b) : b[i] = s[k]
      BY <1>9 DEF Keeps
    <2> QED
      BY <1>3, <1>5, <2>1
  <1> QED
    BY <1>0, <1>3, <1>7, <1>8, <1>9

\* The index is cut to the kept records.
LEMMA CutDown ==
  ASSUME NEW s \in Seq(IdxRecs), NEW b, Len(b) \in Nat, Rewritten(b, s), NEW t,
         t = SubSeq(s, 1, Len(b)) \/ t = Resize(s, Len(b))
  PROVE  /\ t \in Seq(IdxRecs) /\ Len(t) = Len(b) /\ Increasing(t)
         /\ \A j \in 1..Len(t) : j \in 1..Len(s) /\ t[j] = s[j]
         /\ \A k \in 1..Len(s) : Marked(s[k]) <=> \A j \in 1..Len(t) : t[j].num # s[k].num
  <1>1. Len(s) \in Nat /\ Len(b) <= Len(s) /\ \A j \in 1..Len(b) : j \in 1..Len(s) /\ s[j] \in IdxRecs
    BY DEF Rewritten
  <1>2. t \in Seq(IdxRecs) /\ Len(t) = Len(b) /\ \A j \in 1..Len(b) : t[j] = s[j]
    <2>1. CASE t = SubSeq(s, 1, Len(b))
      BY <1>1, <2>1
    <2>2. CASE t = Resize(s, Len(b))
      <3>1. t = [i \in 1..Len(b) |-> s[i]]
        BY <1>1, <2>2 DEF Resize
      <3> QED
        BY <1>1, <3>1
    <2> QED
      BY <2>1, <2>2
  <1>3. \A j \in 1..Len(b) : t[j] = b[j]
    BY <1>2 DEF Rewritten
  <1>4. Increasing(t)
    BY <1>2, <1>3 DEF Rewritten, Increasing
  <1>5. ASSUME NEW k \in 1..Len(s) PROVE Marked(s[k]) <=> \A j \in 1..Len(t) : t[j].num # s[k].num
    BY <1>2, <1>3 DEF Rewritten
  <1> QED
    BY <1>1, <1>2, <1>4, <1>5

\* A record is replaced by one of the same message at the same place.
LEMMA RecordPut ==
  ASSUME NEW s \in Seq(IdxRecs), NEW o \in Nat, o < Len(s), NEW r \in IdxRecs,
         r.num = s[o + 1].num, r.slot = s[o + 1].slot
  PROVE  /\ PutMsgIdx(s, o, r) \in Seq(IdxRecs) /\ Len(PutMsgIdx(s, o, r)) = Len(s)
         /\ PutMsgIdx(s, o, r)[o + 1] = r
         /\ \A k \in 1..Len(s) : PutMsgIdx(s, o, r)[k].num = s[k].num /\ PutMsgIdx(s, o, r)[k].slot = s[k].slot
         /\ \A k \in 1..Len(s) : k # o + 1 => PutMsgIdx(s, o, r)[k] = s[k]
  BY DEF PutMsgIdx

-----------------------------------------------------------------------------
(* Steps that leave the files alone.                                        *)

\* Which roles a process has.
LEMMA Roles ==
  /\ None \notin Proc
  /\ \A p \in Posters : p \in Proc /\ p \notin Modifiers /\ p \notin Purgers
  /\ \A p \in Purgers : p \in Proc /\ p \notin Modifiers
  /\ \A p \in Modifiers : p \in Proc
  /\ \A p \in Maintainers : p \in Purgers
  /\ \A p \in Readers : p \in Modifiers
  BY SmbBaseAssumption, SmbMaintAssumption DEF Modifiers, Posters, Proc

\* What is read from the status or the index fits the message at hand.
LEMMA NewMsgs ==
  ASSUME HyTypes, NEW p \in Proc, NEW n \in Nat, NEW s \in Slots \cup {0}, NEW o \in Nat,
         msg' = [msg EXCEPT ![p] = NewMsg(n, s, o)]
  PROVE  /\ msg' \in [Proc -> Msgs] /\ \A q \in Proc \ {p} : msg'[q] = msg[q]
         /\ msg'[p] = NewMsg(n, s, o)
         /\ msg'[p].num = n /\ msg'[p].slot = s /\ msg'[p].off = o /\ msg'[p].attr = {}
  <1>1. NewMsg(n, s, o) \in Msgs
    BY DEF NewMsg, Msgs
  <1>2. msg' \in [Proc -> Msgs] /\ msg'[p] = NewMsg(n, s, o) /\ \A q \in Proc \ {p} : msg'[q] = msg[q]
    BY <1>1 DEF HyTypes
  <1> QED
    BY <1>2 DEF NewMsg

\* The base is locked.
LEMMA LockHyper ==
  ASSUME HyperInv, NEW p \in Proc,
         \/ p \in Posters /\ (AddLock(p) \/ HeaderLock(p))
         \/ UpdateLock(p) \/ SendLock(p)
         \/ p \in Purgers /\ (PurgeLock(p) \/ MaintLock(p))
  PROVE  HyperInv' /\ Sound
  <1> DEFINE Begun == {"add_status", "add_hdr", "getidx", "pg_status", "mt_load"}
  <1>1. /\ hdrLock = None /\ hdrLock' = p /\ pc[p] \in {"idle", "send_lock"}
        /\ UNCHANGED <<status, sid, shd, st, buf, pos>>
    BY DEF AddLock, HeaderLock, UpdateLock, SendLock, PurgeLock, MaintLock, files, local
  <1>2. pc' = [q \in Proc |-> pc'[q]] /\ pc'[p] \in Begun /\ \A q \in Proc \ {p} : pc'[q] = pc[q]
    BY DEF HyperInv, HyTypes, Goto, AddLock, HeaderLock, UpdateLock, SendLock, PurgeLock, MaintLock
  <1>3. msg' \in [Proc -> Msgs] /\ \A q \in Proc \ {p} : msg'[q] = msg[q]
    <2>1. CASE UpdateLock(p)
      <3>1. PICK n \in 1..status.last : msg' = [msg EXCEPT ![p] = NewMsg(n, 0, 0)]
        BY <2>1 DEF UpdateLock
      <3>2. n \in Nat /\ 0 \in Nat /\ 0 \in Slots \cup {0}
        BY DEF HyperInv, HyTypes, Statuses
      <3> QED
        BY <3>1, <3>2, NewMsgs DEF HyperInv
    <2>2. CASE msg' = msg
      BY <2>2 DEF HyperInv, HyTypes
    <2> QED
      BY <2>1, <2>2 DEF AddLock, HeaderLock, UpdateLock, SendLock, PurgeLock, MaintLock, local
  <1>4. HyTypes' /\ Others(p) /\ Alone(p)
    BY <1>1, <1>2, <1>3, KnownAlone DEF HyperInv, HyTypes, Others
  <1>5. pc'[p] = "pg_status" => pc[p] = "idle"
    BY DEF HyperInv, HyTypes, Goto, AddLock, HeaderLock, UpdateLock, SendLock, PurgeLock, MaintLock
  <1>6. p \in Modifiers => pc'[p] = "getidx"
    BY Roles DEF HyperInv, HyTypes, Goto, AddLock, HeaderLock, UpdateLock, SendLock, PurgeLock, MaintLock
  <1>7. PlaceOf(p)'
    BY <1>1, <1>2, <1>5, <1>6 DEF HyperInv, PlaceOf, NotHere, Free, Cutting, Modifying
  <1>8. Knows(p)'
    BY <1>2 DEF Knows, KnowsAdd, KnowsMsg, KnowsPurge, KnowsMaint, Maintaining
  <1> QED
    BY <1>1, <1>4, <1>7, <1>8, HyLocal DEF Halfway

\* A header is read without the lock on the base.
LEMMA ReadHyper ==
  ASSUME HyperInv, NEW p \in Modifiers, SendRead(p) \/ LoadMsg(p)
  PROVE  HyperInv' /\ Sound
  <1>0. p \in Proc
    BY Roles
  <1>1. hdrLock' = hdrLock /\ UNCHANGED <<status, sid, shd, st, buf, pos>> /\ pc[p] = "idle"
    BY DEF SendRead, LoadMsg, files, locks
  <1>2. /\ pc' = [q \in Proc |-> pc'[q]] /\ pc'[p] \in {"send_lock", "loaded"}
        /\ \A q \in Proc \ {p} : pc'[q] = pc[q]
    BY <1>0 DEF HyperInv, HyTypes, Goto, SendRead, LoadMsg
  <1>3. PICK m \in Msgs : msg' = [msg EXCEPT ![p] = m]
    <2>1. CASE SendRead(p)
      <3>1. PICK k \in 1..Len(sid), a \in Attrs : sid[k].slot \in Slots /\
              msg' = [msg EXCEPT ![p] = [num |-> shd[sid[k].slot].num, slot |-> sid[k].slot,
                                         off |-> k - 1, attr |-> shd[sid[k].slot].attr \cup {a}]]
        BY <2>1 DEF SendRead
      <3>2. shd[sid[k].slot] \in Hdrs /\ k - 1 \in Nat
        BY <3>1 DEF HyperInv, HyTypes
      <3>3. [num |-> shd[sid[k].slot].num, slot |-> sid[k].slot,
             off |-> k - 1, attr |-> shd[sid[k].slot].attr \cup {a}] \in Msgs
        BY <3>1, <3>2 DEF Hdrs, Msgs
      <3> QED
        BY <3>1, <3>3
    <2>2. CASE LoadMsg(p)
      <3>1. PICK k \in 1..Len(sid) : msg' = [msg EXCEPT ![p] = NewMsg(sid[k].num, sid[k].slot, k - 1)]
        BY <2>2 DEF LoadMsg
      <3>2. sid[k] \in IdxRecs /\ k - 1 \in Nat
        BY DEF HyperInv, HyTypes
      <3>3. NewMsg(sid[k].num, sid[k].slot, k - 1) \in Msgs
        BY <3>2 DEF NewMsg, Msgs, IdxRecs
      <3> QED
        BY <3>1, <3>3
    <2> QED
      BY <2>1, <2>2
  <1>4. HyTypes' /\ Others(p)
    BY <1>0, <1>1, <1>2, <1>3 DEF HyperInv, HyTypes, Others
  <1>5. PlaceOf(p)'
    BY <1>0, <1>1, <1>2 DEF HyperInv, PlaceOf, NotHere, Free, Cutting, Modifying
  <1> QED
    BY <1>0, <1>1, <1>2, <1>4, <1>5, HyQuiet DEF Halfway, Free

\* A call returns, or its process dies.
LEMMA CommonHyper ==
  ASSUME HyperBase, HyperInv, NEW p \in Proc,
         Unlock(p) \/ CloseBase(p) \/ UnlockMsgHdr(p) \/ SendTimeout(p) \/ Crash(p)
  PROVE  HyperInv' /\ Sound
  <1>1. /\ UNCHANGED <<status, sid, shd>>
        /\ \A q \in Proc \ {p} : hdrLock = q => hdrLock' = q
    BY Roles DEF Unlock, CloseBase, UnlockMsgHdr, SendTimeout, Crash, files, locks
  <1>2. /\ pc' = [q \in Proc |-> pc'[q]] /\ pc'[p] \in {"idle", "unlock"}
        /\ \A q \in Proc \ {p} : pc'[q] = pc[q]
    BY DEF HyperInv, HyTypes, Goto, Unlock, CloseBase, UnlockMsgHdr, SendTimeout, Crash
  <1>3. /\ st' \in [Proc -> Statuses] /\ msg' \in [Proc -> Msgs]
        /\ buf' \in [Proc -> Seq(IdxRecs)] /\ pos' \in [Proc -> Nat]
        /\ \A q \in Proc \ {p} :
              st'[q] = st[q] /\ msg'[q] = msg[q] /\ buf'[q] = buf[q] /\ pos'[q] = pos[q]
        /\ pc'[p] = "idle" => buf'[p] = <<>> /\ pos'[p] = 0
    <2>1. CASE Forget(p)
      <3>1. NoStatus \in Statuses /\ NoMsg \in Msgs
        BY DEF NoStatus, Statuses, NoMsg, NewMsg, Msgs
      <3> QED
        BY <2>1, <3>1 DEF Forget, HyperInv, HyTypes
    <2>2. CASE UNCHANGED local /\ (pc[p] = "idle" \/ pc'[p] = "unlock")
      BY <1>2, <2>2 DEF local, HyperInv, HyTypes, PlaceOf
    <2>3. Forget(p) \/ (UNCHANGED local /\ (pc[p] = "idle" \/ pc'[p] = "unlock"))
      BY DEF HyperInv, HyTypes, Goto, Unlock, CloseBase, UnlockMsgHdr, SendTimeout, Crash
    <2> QED
      BY <2>1, <2>2, <2>3
  <1>4. HyTypes' /\ Others(p)
    BY <1>1, <1>2, <1>3 DEF HyperInv, HyTypes, Others
  <1>5. PlaceOf(p)'
    BY <1>2, <1>3 DEF PlaceOf, NotHere, Free, Cutting, Modifying
  <1>6. pc[p] \notin Halfway
    <2>1. CASE Crash(p)
      <3>1. p \in Modifiers
        BY <2>1 DEF Crash, HyperBase, Modifiers
      <3> QED
        BY <3>1 DEF HyperInv, PlaceOf, Modifying, Halfway
    <2> QED
      BY <2>1 DEF Unlock, CloseBase, UnlockMsgHdr, SendTimeout, Halfway
  <1> QED
    BY <1>1, <1>2, <1>4, <1>5, <1>6, HyQuiet DEF Free

\* A process at work leaves others alone, for nobody else is.
LEMMA PostWork ==
  ASSUME HyperBase, HyperInv, NEW p \in Posters, AddStatus(p) \/ AddHdr(p) \/ AddAlloc(p)
  PROVE  HyperInv' /\ Sound
  <1>0. p \in Proc /\ p \notin Modifiers
    BY Roles
  <1>1. /\ UNCHANGED <<status, sid, shd, buf, pos>>
        /\ pc[p] \in {"add_status", "add_hdr", "add_alloc"}
    BY DEF AddStatus, AddHdr, AddAlloc, files
  <1>2. Alone(p) /\ hdrLock = p /\ Orderly
    <2>1. pc[p] \notin Free /\ pc[p] \notin Halfway
      BY <1>1 DEF Free, Halfway
    <2>2. Alone(p) /\ hdrLock = p
      BY <1>0, <2>1, KnownAlone DEF HyperInv, PlaceOf
    <2> QED
      BY <1>0, <2>1, <2>2, FindsOrder
  <1>3. Len(sid) = status.total /\ status.last \in Nat /\ status.total \in Nat /\ status \in Statuses
    BY <1>2 DEF Orderly, HyperInv, HyTypes, Statuses
  <1>a. HyTypes /\ status.last + 1 \in Nat /\ 0 \in Nat /\ 0 \in Slots \cup {0}
    BY <1>3 DEF HyperInv
  <1>4. CASE AddStatus(p)
    <2>1. /\ msg' = [msg EXCEPT ![p] = NewMsg(status.last + 1, 0, 0)]
          /\ st' = [st EXCEPT ![p] = status] /\ pc' = [pc EXCEPT ![p] = "add_hdr"] /\ hdrLock' = hdrLock
      BY <1>4 DEF AddStatus, Goto, HyperBase, locks
    <2>2. msg' \in [Proc -> Msgs] /\ \A q \in Proc \ {p} : msg'[q] = msg[q]
      BY <1>0, <1>3, <1>a, <2>1, NewMsgs
    <2>3. HyTypes' /\ Others(p) /\ pc'[p] = "add_hdr"
      BY <1>0, <1>1, <1>3, <2>1, <2>2 DEF HyperInv, HyTypes, Others
    <2>4. PlaceOf(p)' /\ Knows(p)'
      BY <1>0, <1>2, <2>1, <2>3
         DEF PlaceOf, NotHere, Free, Cutting, Knows, KnowsAdd, KnowsMsg, KnowsPurge, KnowsMaint, Maintaining
    <2> QED
      BY <1>0, <1>1, <1>2, <2>3, <2>4, HyLocal DEF Halfway
  <1>5. CASE AddHdr(p)
    <2>1. /\ msg' = [msg EXCEPT ![p] = NewMsg(status.last + 1, 0, status.total)]
          /\ st' = [st EXCEPT ![p] = status] /\ pc' = [pc EXCEPT ![p] = "add_alloc"] /\ hdrLock' = hdrLock
      BY <1>3, <1>5 DEF AddHdr, Goto
    <2>2. /\ msg' \in [Proc -> Msgs] /\ \A q \in Proc \ {p} : msg'[q] = msg[q]
          /\ msg'[p].num = status.last + 1 /\ msg'[p].off = status.total /\ msg'[p].attr = {}
      <3>1. PICK n \in Nat, o \in Nat : n = status.last + 1 /\ o = status.total
        BY <1>3, <1>a
      <3>2. msg' = [msg EXCEPT ![p] = NewMsg(n, 0, o)]
        BY <2>1, <3>1
      <3>3. /\ msg' \in [Proc -> Msgs] /\ \A q \in Proc \ {p} : msg'[q] = msg[q]
            /\ msg'[p].num = n /\ msg'[p].off = o /\ msg'[p].attr = {}
        <4>1. PICK s \in Slots \cup {0} : s = 0
          OBVIOUS
        <4>2. msg' = [msg EXCEPT ![p] = NewMsg(n, s, o)]
          BY <3>2, <4>1
        <4> QED
          BY <1>0, <1>a, <4>2, NewMsgs
      <3> QED
        BY <3>1, <3>3
    <2>3. HyTypes' /\ Others(p) /\ pc'[p] = "add_alloc" /\ st'[p] = status
      BY <1>0, <1>1, <1>3, <2>1, <2>2 DEF HyperInv, HyTypes, Others
    <2>4. PlaceOf(p)'
      BY <1>0, <1>2, <2>1, <2>3 DEF PlaceOf, NotHere, Free, Cutting
    <2>5. Knows(p)'
      BY <1>1, <1>3, <2>2, <2>3
         DEF Knows, KnowsAdd, KnowsMsg, KnowsPurge, KnowsMaint, Maintaining
    <2> QED
      BY <1>0, <1>1, <1>2, <2>3, <2>4, <2>5, HyLocal DEF Halfway
  <1>6. CASE AddAlloc(p)
    <2>1. PICK s \in Slots : shd[s] = NoHdr /\ msg' = [msg EXCEPT ![p].slot = s]
      BY <1>6 DEF AddAlloc, FreeSlots, HyperBase
    <2>2. pc[p] = "add_alloc" /\ pc' = [pc EXCEPT ![p] = "add_puthdr"] /\ st' = st /\ hdrLock' = hdrLock
      BY <1>6 DEF AddAlloc, Goto, locks
    <2>3. /\ msg' \in [Proc -> Msgs] /\ \A q \in Proc \ {p} : msg'[q] = msg[q]
          /\ msg'[p].num = msg[p].num /\ msg'[p].off = msg[p].off /\ msg'[p].attr = msg[p].attr
          /\ msg'[p].slot = s
      <3>1. msg \in [Proc -> Msgs]
        BY DEF HyperInv, HyTypes
      <3> QED
        BY <1>0, <2>1, <3>1 DEF Msgs
    <2>4. HyTypes' /\ Others(p) /\ pc'[p] = "add_puthdr" /\ st'[p] = st[p]
      BY <1>0, <1>1, <2>2, <2>3 DEF HyperInv, HyTypes, Others
    <2>5. PlaceOf(p)'
      BY <1>0, <1>2, <2>2, <2>4 DEF PlaceOf, NotHere, Free, Cutting
    <2>6. KnowsAdd(p)
      BY <1>0 DEF HyperInv, Knows
    <2>7. KnowsAdd(p)'
      BY <1>1, <2>1, <2>2, <2>3, <2>4, <2>6 DEF KnowsAdd
    <2>8. Knows(p)'
      BY <2>4, <2>7 DEF Knows, KnowsMsg, KnowsPurge, KnowsMaint, Maintaining
    <2> QED
      BY <1>0, <1>1, <1>2, <2>4, <2>5, <2>8, HyLocal DEF Halfway
  <1> QED
    BY <1>4, <1>5, <1>6

\* The steps of a program that rewrites a header, up to the first write.
LEMMA ModifyWork ==
  ASSUME HyperInv, NEW p \in Modifiers, GetMsgIdx(p) \/ LockMsgHdr(p) \/ LockMsgHdrFails(p)
  PROVE  HyperInv' /\ Sound
  <1>0. p \in Proc
    BY Roles
  <1>1. /\ UNCHANGED <<status, sid, shd, st, buf, pos>> /\ hdrLock' = hdrLock
        /\ pc[p] \in {"getidx", "lockhdr"}
    BY DEF GetMsgIdx, LockMsgHdr, LockMsgHdrFails, files, local, locks
  <1>2. Alone(p) /\ hdrLock = p
    <2>1. pc[p] \notin Free
      BY <1>1 DEF Free
    <2> QED
      BY <1>0, <2>1, KnownAlone DEF HyperInv, PlaceOf
  <1>3. /\ pc' = [q \in Proc |-> pc'[q]] /\ pc'[p] \in {"lockhdr", "puthdr", "unlock"}
        /\ \A q \in Proc \ {p} : pc'[q] = pc[q]
    BY <1>0 DEF HyperInv, HyTypes, Goto, GetMsgIdx, LockMsgHdr, LockMsgHdrFails
  <1>4. PlaceOf(p)'
    BY <1>1, <1>2, <1>3 DEF PlaceOf, NotHere, Free, Cutting, Modifying
  <1>5. /\ msg' \in [Proc -> Msgs] /\ \A q \in Proc \ {p} : msg'[q] = msg[q]
        /\ pc'[p] \in {"lockhdr", "puthdr"} => KnowsMsg(p)'
    <2>0. msg \in [Proc -> Msgs] /\ sid \in Seq(IdxRecs) /\ shd \in [Slots -> Hdrs]
      BY DEF HyperInv, HyTypes
    <2>1. CASE GetMsgIdx(p) /\ pc'[p] # "unlock"
      <3>1. PICK k \in 1..Len(sid) :
              /\ sid[k].num = msg[p].num
              /\ msg' = [msg EXCEPT ![p].slot = sid[k].slot, ![p].off = k - 1]
        BY <1>0, <2>1 DEF GetMsgIdx, HyperInv, HyTypes, Goto
      <3>2. sid[k].slot \in Slots /\ k - 1 \in Nat /\ k - 1 < Len(sid) /\ (k - 1) + 1 = k
        <4>1. k \in Nat /\ 1 <= k /\ k <= Len(sid) /\ Len(sid) \in Nat /\ sid[k] \in IdxRecs
          BY <2>0
        <4> QED
          BY <4>1 DEF IdxRecs
      <3>3. /\ msg' \in [Proc -> Msgs] /\ \A q \in Proc \ {p} : msg'[q] = msg[q]
            /\ msg'[p].num = msg[p].num /\ msg'[p].slot = sid[k].slot /\ msg'[p].off = k - 1
        BY <1>0, <2>0, <3>1, <3>2 DEF Msgs
      <3>4. KnowsMsg(p)'
        BY <1>1, <3>1, <3>2, <3>3 DEF KnowsMsg
      <3> QED
        BY <3>3, <3>4
    <2>2. CASE LockMsgHdr(p)
      <3>1. KnowsMsg(p) /\ pc[p] = "lockhdr" /\ Own
        BY <1>0, <2>2 DEF LockMsgHdr, HyperInv, Knows
      <3>2. /\ msg[p].slot \in Slots /\ msg[p].off < Len(sid) /\ msg[p].off \in Nat
            /\ sid[msg[p].off + 1].num = msg[p].num /\ sid[msg[p].off + 1].slot = msg[p].slot
            /\ msg[p].off + 1 \in 1..Len(sid)
        <4>1. msg[p].off \in Nat
          BY <1>0, <2>0 DEF Msgs
        <4> QED
          BY <2>0, <3>1, <4>1 DEF KnowsMsg
      <3>3. shd[msg[p].slot].num = msg[p].num
        BY <3>1, <3>2 DEF Own
      <3>4. CASE UNCHANGED msg
        BY <1>1, <2>0, <3>2, <3>4 DEF KnowsMsg
      <3>5. CASE ~UNCHANGED msg
        <4>1. PICK a \in Attrs : msg' = [msg EXCEPT ![p].num = shd[msg[p].slot].num,
                                                   ![p].attr = shd[msg[p].slot].attr \cup {a}]
          BY <2>2, <3>5 DEF LockMsgHdr
        <4>2. shd[msg[p].slot].num \in Nat /\ shd[msg[p].slot].attr \cup {a} \in SUBSET Attrs
          BY <2>0, <3>2, <4>1 DEF Hdrs
        <4>3. /\ msg' \in [Proc -> Msgs] /\ \A q \in Proc \ {p} : msg'[q] = msg[q]
              /\ msg'[p].num = msg[p].num /\ msg'[p].slot = msg[p].slot /\ msg'[p].off = msg[p].off
          <5>1. PICK n, b : n = shd[msg[p].slot].num /\ b = shd[msg[p].slot].attr \cup {a}
            OBVIOUS
          <5>2. msg' = [msg EXCEPT ![p].num = n, ![p].attr = b] /\ n \in Nat /\ b \in SUBSET Attrs /\ n = msg[p].num
            BY <3>3, <4>1, <4>2, <5>1
          <5> QED
            BY <1>0, <2>0, <5>2 DEF Msgs
        <4> QED
          BY <1>1, <3>2, <4>3 DEF KnowsMsg
      <3> QED
        BY <3>4, <3>5
    <2>3. CASE UNCHANGED msg /\ pc'[p] = "unlock"
      BY <2>0, <2>3
    <2> QED
      BY <1>0, <2>1, <2>2, <2>3 DEF GetMsgIdx, LockMsgHdrFails, Goto, local, HyperInv, HyTypes
  <1>6. HyTypes' /\ Others(p)
    BY <1>0, <1>1, <1>3, <1>5 DEF HyperInv, HyTypes, Others
  <1>7. Knows(p)'
    BY <1>3, <1>5 DEF Knows, KnowsAdd, KnowsMsg, KnowsPurge, KnowsMaint, Maintaining
  <1> QED
    BY <1>0, <1>1, <1>2, <1>4, <1>6, <1>7, HyLocal DEF Halfway

\* The steps of delmail that write nothing.
LEMMA PurgeWork ==
  ASSUME HyperInv, NEW p \in Purgers,
         \/ PurgeStatus(p) \/ PurgeOpenDa(p) \/ PurgeOpenDaTimeout(p) \/ PurgeOpenHa(p)
         \/ PurgeKeep(p) \/ PurgeDropUnread(p) \/ PurgeClose(p)
  PROVE  HyperInv' /\ Sound
  <1>0. p \in Proc /\ p \notin Modifiers
    BY Roles
  <1>1. /\ UNCHANGED <<status, sid, shd, msg>> /\ hdrLock' = hdrLock
        /\ pc[p] \in {"pg_status", "pg_da", "pg_ha", "pg_scan", "pg_close"}
    BY DEF PurgeStatus, PurgeOpenDa, PurgeOpenDaTimeout, PurgeOpenHa, PurgeKeep, PurgeDropUnread,
           PurgeClose, files, local, locks
  <1>2. Alone(p) /\ hdrLock = p /\ Orderly
    <2>1. pc[p] \notin Free /\ pc[p] \notin Halfway
      BY <1>1 DEF Free, Halfway
    <2>2. Alone(p) /\ hdrLock = p
      BY <1>0, <2>1, KnownAlone DEF HyperInv, PlaceOf
    <2> QED
      BY <1>0, <2>1, <2>2, FindsOrder
  <1>3. /\ pc' = [q \in Proc |-> pc'[q]] /\ pc'[p] \in {"pg_da", "pg_ha", "pg_scan", "unlock"}
        /\ \A q \in Proc \ {p} : pc'[q] = pc[q]
    BY <1>0 DEF HyperInv, HyTypes, Goto, PurgeStatus, PurgeOpenDa, PurgeOpenDaTimeout, PurgeOpenHa, PurgeKeep,
       PurgeDropUnread, PurgeClose
  <1>4. /\ HyTypes /\ sid \in Seq(IdxRecs) /\ Len(sid) \in Nat /\ pos[p] \in Nat /\ buf[p] \in Seq(IdxRecs)
        /\ buf \in [Proc -> Seq(IdxRecs)] /\ pos \in [Proc -> Nat]
    BY <1>0 DEF HyperInv, HyTypes
  <1>5. KnowsPurge(p) /\ PlaceOf(p)
    BY <1>0 DEF HyperInv, Knows
  <1>6. CASE PurgeStatus(p) \/ PurgeOpenDa(p) \/ PurgeOpenDaTimeout(p) \/ PurgeOpenHa(p) \/ PurgeClose(p)
    <2>1. UNCHANGED <<buf, pos>> /\ (st' = st \/ st' = [st EXCEPT ![p] = status])
      BY <1>6 DEF PurgeStatus, PurgeOpenDa, PurgeOpenDaTimeout, PurgeOpenHa, PurgeClose, local
    <2>2. HyTypes' /\ Others(p)
      BY <1>0, <1>1, <1>3, <2>1 DEF HyperInv, HyTypes, Others
    <2>3. pc'[p] \in {"pg_da", "pg_ha", "pg_scan"} => st'[p] = status /\ buf[p] = <<>> /\ pos[p] = 0
      BY <1>0, <1>4, <1>5, <1>6 DEF PurgeStatus, PurgeOpenDa, PurgeOpenDaTimeout, PurgeOpenHa, PurgeClose, local,
         Goto, HyTypes, KnowsPurge, PlaceOf
    <2>4. KeepsTo(<<>>, sid, 0)
      <3>1. <<>> \in Seq(IdxRecs) /\ Len(<<>>) = 0 /\ 1..0 = {}
        OBVIOUS
      <3>2. PICK e : e = <<>>
        OBVIOUS
      <3>3. KeepsTo(e, sid, 0)
        BY <3>1, <3>2 DEF KeepsTo, Increasing
      <3> QED
        BY <3>2, <3>3
    <2>5. KnowsPurge(p)'
      BY <1>1, <1>3, <1>4, <2>1, <2>3, <2>4 DEF KnowsPurge
    <2>6. Knows(p)'
      BY <1>3, <2>5 DEF Knows, KnowsAdd, KnowsMsg, KnowsMaint, Maintaining
    <2>7. PlaceOf(p)'
      BY <1>0, <1>1, <1>2, <1>3, <2>1, <2>3 DEF PlaceOf, NotHere, Free, Cutting
    <2> QED
      BY <1>0, <1>1, <1>2, <2>2, <2>6, <2>7, HyLocal DEF Halfway
  <1>7. CASE PurgeKeep(p) \/ PurgeDropUnread(p)
    <2>1. /\ pc[p] = "pg_scan" /\ pc'[p] = "pg_scan" /\ st' = st
          /\ pos[p] < Len(sid) /\ pos' = [pos EXCEPT ![p] = pos[p] + 1]
          /\ buf' = [buf EXCEPT ![p] = IF Marked(sid[pos[p] + 1]) THEN buf[p] ELSE Append(buf[p], sid[pos[p] + 1])]
      BY <1>0, <1>4, <1>7 DEF PurgeKeep, PurgeDropUnread, Scanning, Marked
    <2>2. PICK b : b = IF Marked(sid[pos[p] + 1]) THEN buf[p] ELSE Append(buf[p], sid[pos[p] + 1])
      OBVIOUS
    <2>3. KeepsTo(b, sid, pos[p] + 1)
      <3>1. KeepsTo(buf[p], sid, pos[p])
        BY <1>5, <2>1 DEF KnowsPurge
      <3>2. PICK n, c : n = pos[p] /\ c = buf[p] /\ n \in Nat
        BY <1>4
      <3>3. n + 1 <= Len(sid)
        BY <1>4, <2>1, <3>2
      <3>4. KeepsTo(IF Marked(sid[n + 1]) THEN c ELSE Append(c, sid[n + 1]), sid, n + 1)
        BY <1>4, <3>1, <3>2, <3>3, KeepsNext
      <3> QED
        BY <2>2, <3>2, <3>4
    <2>4. b \in Seq(IdxRecs) /\ buf'[p] = b /\ pos'[p] = pos[p] + 1 /\ pos[p] + 1 \in Nat /\ pos[p] + 1 <= Len(sid)
      BY <1>0, <1>4, <2>1, <2>2, <2>3 DEF KeepsTo
    <2>5. HyTypes' /\ Others(p)
      BY <1>0, <1>1, <1>3, <1>4, <2>1, <2>2, <2>4 DEF HyTypes, Others
    <2>6. st[p] = status
      BY <1>5, <2>1 DEF KnowsPurge
    <2>7. KnowsPurge(p)'
      BY <1>1, <2>1, <2>3, <2>4, <2>6 DEF KnowsPurge
    <2>8. Knows(p)'
      BY <2>1, <2>7 DEF Knows, KnowsAdd, KnowsMsg, KnowsMaint, Maintaining
    <2>9. PlaceOf(p)'
      BY <1>0, <1>1, <1>2, <2>1 DEF PlaceOf, NotHere, Free, Cutting
    <2> QED
      BY <1>0, <1>1, <1>2, <2>5, <2>8, <2>9, HyLocal DEF Halfway
  <1> QED
    BY <1>6, <1>7

\* The steps of maint() that write nothing.
LEMMA MaintWork ==
  ASSUME HyperBase, HyperInv, NEW p \in Purgers,
         \/ MaintLoad(p) \/ MaintFind(p) \/ MaintLockHdr(p) \/ MaintLockHdrFails(p)
         \/ MaintScanEnd(p) \/ MaintClose(p)
  PROVE  HyperInv' /\ Sound
  <1>0. p \in Proc /\ p \notin Modifiers
    BY Roles
  <1>1. /\ UNCHANGED <<status, sid, shd>> /\ hdrLock' = hdrLock
        /\ pc[p] \in {"mt_load"} \cup Maintaining
    BY DEF MaintLoad, MaintFind, MaintLockHdr, MaintLockHdrFails, MaintScanEnd, MaintClose, files, local, locks,
           Maintaining
  <1>2. Alone(p) /\ hdrLock = p /\ Orderly
    <2>1. pc[p] \notin Free /\ pc[p] \notin Halfway
      BY <1>1 DEF Free, Halfway, Maintaining
    <2>2. Alone(p) /\ hdrLock = p
      BY <1>0, <2>1, KnownAlone DEF HyperInv, PlaceOf
    <2> QED
      BY <1>0, <2>1, <2>2, FindsOrder
  <1>3. /\ pc' = [q \in Proc |-> pc'[q]] /\ \A q \in Proc \ {p} : pc'[q] = pc[q]
        /\ pc'[p] \in {"mt_scan", "mt_lockhdr", "mt_puthdr", "mt_close", "mt_write", "unlock"}
    BY <1>0 DEF HyperInv, HyTypes, Goto, HyperBase, MaintLoad, MaintFind, MaintLockHdr, MaintLockHdrFails, MaintScanEnd,
       MaintClose
  <1>4. PlaceOf(p)'
    BY <1>0, <1>1, <1>2, <1>3 DEF PlaceOf, NotHere, Free, Cutting
  <1>5. pc[p] \notin Halfway
    BY <1>1 DEF Halfway, Maintaining
  <1>6. /\ sid \in Seq(IdxRecs) /\ Len(sid) \in Nat /\ buf \in [Proc -> Seq(IdxRecs)] /\ pos \in [Proc -> Nat]
        /\ st \in [Proc -> Statuses] /\ msg \in [Proc -> Msgs] /\ shd \in [Slots -> Hdrs] /\ status \in Statuses
    BY DEF HyperInv, HyTypes
  <1>7. KnowsMaint(p) /\ KnowsMsg(p) /\ Own
    BY <1>0 DEF HyperInv, Knows
  <1>8. CASE MaintLoad(p)
    <2>1. PICK c : c = Loaded /\ buf' = [buf EXCEPT ![p] = c]
      BY <1>8 DEF MaintLoad
    <2>2. c = sid
      <3>1. status.total = Len(sid)
        BY <1>2 DEF Orderly
      <3>2. SubSeq(sid, 1, Len(sid)) = sid
        BY <1>6
      <3> QED
        BY <1>6, <2>1, <3>1, <3>2 DEF Loaded
    <2>3. st' = [st EXCEPT ![p] = status] /\ UNCHANGED <<msg, pos>> /\ pc'[p] \in {"mt_scan", "mt_write", "unlock"}
      BY <1>0, <1>8 DEF MaintLoad, HyperBase, Goto, HyperInv, HyTypes
    <2>4. HyTypes' /\ Others(p) /\ st'[p] = status /\ buf'[p] = sid
      BY <1>0, <1>1, <1>3, <1>6, <2>1, <2>2, <2>3 DEF HyTypes, Others
    <2>5. Snapshot(sid, sid)
      BY DEF Snapshot
    <2>6. KnowsMaint(p)'
      BY <1>1, <2>3, <2>4, <2>5 DEF KnowsMaint, Maintaining
    <2>7. Knows(p)'
      BY <2>3, <2>6 DEF Knows, KnowsAdd, KnowsMsg, KnowsPurge
    <2> QED
      BY <1>0, <1>1, <1>2, <1>4, <1>5, <2>4, <2>7, HyLocal
  <1>9. CASE MaintFind(p)
    <2>1. pc[p] = "mt_scan" /\ UNCHANGED <<st, buf>>
      BY <1>9 DEF MaintFind
    <2>2. st[p] = status /\ Snapshot(buf[p], sid)
      BY <1>7, <2>1 DEF KnowsMaint, Maintaining
    <2>3. PICK k \in pos[p] + 1..Len(buf[p]) :
            /\ Marked(buf[p][k]) /\ pos' = [pos EXCEPT ![p] = k]
            /\ IF \E j \in 1..Len(sid) : sid[j].num = buf[p][k].num
               THEN /\ \E j \in 1..Len(sid) :
                        /\ sid[j].num = buf[p][k].num
                        /\ msg' = [msg EXCEPT ![p] = NewMsg(sid[j].num, sid[j].slot, j - 1)]
                    /\ Goto(p, "mt_lockhdr")
               ELSE UNCHANGED <<msg, pc>>
      BY <1>9 DEF MaintFind
    <2>4. k \in Nat /\ k \in 1..Len(sid)
      <3>1. Len(buf[p]) = Len(sid) /\ pos[p] \in Nat
        BY <1>0, <1>6, <2>2 DEF Snapshot
      <3> QED
        BY <1>6, <3>1
    <2>5. \/ UNCHANGED <<msg, pc>>
          \/ /\ pc' = [pc EXCEPT ![p] = "mt_lockhdr"]
             /\ \E j \in 1..Len(sid) : /\ sid[j].num = buf[p][k].num
                                       /\ msg' = [msg EXCEPT ![p] = NewMsg(sid[j].num, sid[j].slot, j - 1)]
      BY <2>3 DEF Goto
    <2>6. CASE UNCHANGED <<msg, pc>>
      <3>1. HyTypes' /\ Others(p) /\ pc'[p] = "mt_scan"
        BY <1>0, <1>1, <1>3, <1>6, <2>1, <2>3, <2>4, <2>6 DEF HyTypes, Others
      <3>2. KnowsMaint(p)'
        BY <1>1, <2>1, <2>2, <3>1 DEF KnowsMaint
      <3>3. Knows(p)'
        BY <3>1, <3>2 DEF Knows, KnowsAdd, KnowsMsg, KnowsPurge
      <3> QED
        BY <1>0, <1>1, <1>2, <1>4, <1>5, <3>1, <3>3, HyLocal
    <2>7. ASSUME NEW j \in 1..Len(sid), sid[j].num = buf[p][k].num, pc' = [pc EXCEPT ![p] = "mt_lockhdr"],
                 msg' = [msg EXCEPT ![p] = NewMsg(sid[j].num, sid[j].slot, j - 1)]
          PROVE  HyperInv' /\ Sound
      <3>1. j = k
        <4>1. sid[j].num = sid[k].num
          BY <2>2, <2>4, <2>7 DEF Snapshot
        <4>2. ASSUME NEW i \in 1..Len(sid) PROVE sid[i].num \in Nat
          <5>1. sid[i] \in IdxRecs
            BY <1>6
          <5> QED
            BY <5>1 DEF IdxRecs
        <4>3. ~(j < k) /\ ~(k < j)
          BY <1>2, <2>4, <4>1, <4>2 DEF Orderly, Increasing
        <4> QED
          <5>1. j \in Nat /\ k \in Nat
            BY <1>6, <2>4
          <5> QED
            BY <4>3, <5>1
      <3>2. PICK n \in Nat, s \in Slots, o \in Nat : n = sid[j].num /\ s = sid[j].slot /\ o = j - 1
        <4>1. sid[j] \in IdxRecs /\ j - 1 \in Nat
          BY <1>6
        <4> QED
          BY <4>1 DEF IdxRecs
      <3>3. o + 1 = j /\ o < Len(sid)
        BY <1>6, <3>2
      <3>4. /\ msg' \in [Proc -> Msgs] /\ \A q \in Proc \ {p} : msg'[q] = msg[q]
            /\ msg'[p].num = n /\ msg'[p].slot = s /\ msg'[p].off = o
        <4>1. s \in Slots \cup {0} /\ HyTypes
          BY DEF HyperInv
        <4>2. msg' = [msg EXCEPT ![p] = NewMsg(n, s, o)]
          BY <2>7, <3>2
        <4> QED
          BY <1>0, <4>1, <4>2, NewMsgs
      <3>5. HyTypes' /\ Others(p) /\ pc'[p] = "mt_lockhdr"
        BY <1>0, <1>1, <1>3, <1>6, <2>1, <2>3, <2>4, <2>7, <3>4 DEF HyperInv, HyTypes, Others
      <3>6. KnowsMsg(p)'
        BY <1>1, <3>2, <3>3, <3>4, <3>5 DEF KnowsMsg
      <3>7. Marked(buf'[p][msg'[p].off + 1])
        BY <2>1, <2>3, <3>1, <3>3, <3>4
      <3>8. KnowsMaint(p)'
        BY <1>1, <2>1, <2>2, <3>5, <3>7 DEF KnowsMaint
      <3>9. Knows(p)'
        BY <3>5, <3>6, <3>8 DEF Knows, KnowsAdd, KnowsPurge
      <3> QED
        BY <1>0, <1>1, <1>2, <1>4, <1>5, <3>5, <3>9, HyLocal
    <2> QED
      BY <2>5, <2>6, <2>7
  <1>10. CASE MaintLockHdr(p)
    <2>1. pc[p] = "mt_lockhdr" /\ pc' = [pc EXCEPT ![p] = "mt_puthdr"] /\ UNCHANGED <<st, buf, pos>>
      BY <1>10 DEF MaintLockHdr, Goto
    <2>2. /\ msg[p].slot \in Slots /\ msg[p].off < Len(sid) /\ msg[p].off \in Nat
          /\ sid[msg[p].off + 1].num = msg[p].num /\ sid[msg[p].off + 1].slot = msg[p].slot
          /\ msg[p].off + 1 \in 1..Len(sid)
      <3>1. msg[p].off \in Nat
        BY <1>0, <1>6 DEF Msgs
      <3> QED
        BY <1>6, <1>7, <2>1, <3>1 DEF KnowsMsg
    <2>3. PICK n, b : n = shd[msg[p].slot].num /\ b = shd[msg[p].slot].attr \cup {"delete"}
      OBVIOUS
    <2>4. msg' = [msg EXCEPT ![p].num = n, ![p].attr = b]
      BY <1>10, <2>3 DEF MaintLockHdr
    <2>5. n = msg[p].num /\ n \in Nat /\ b \in SUBSET Attrs /\ "delete" \in b
      <3>1. shd[msg[p].slot] \in Hdrs
        BY <1>6, <2>2
      <3> QED
        BY <1>7, <2>2, <2>3, <3>1 DEF Own, Hdrs, Attrs
    <2>6. /\ msg' \in [Proc -> Msgs] /\ \A q \in Proc \ {p} : msg'[q] = msg[q]
          /\ msg'[p].num = msg[p].num /\ msg'[p].slot = msg[p].slot /\ msg'[p].off = msg[p].off
          /\ msg'[p].attr = b
      BY <1>0, <1>6, <2>4, <2>5 DEF Msgs
    <2>7. HyTypes' /\ Others(p) /\ pc'[p] = "mt_puthdr"
      BY <1>0, <1>1, <1>3, <1>6, <2>1, <2>6 DEF HyperInv, HyTypes, Others
    <2>8. KnowsMsg(p)'
      BY <1>1, <2>2, <2>6 DEF KnowsMsg
    <2>9. KnowsMaint(p)'
      BY <1>1, <1>7, <2>1, <2>5, <2>6, <2>7 DEF KnowsMaint, Maintaining
    <2>10. Knows(p)'
      BY <2>7, <2>8, <2>9 DEF Knows, KnowsAdd, KnowsPurge
    <2> QED
      BY <1>0, <1>1, <1>2, <1>4, <1>5, <2>7, <2>10, HyLocal
  <1>11. CASE MaintLockHdrFails(p) \/ MaintScanEnd(p) \/ MaintClose(p)
    <2>1. /\ UNCHANGED <<st, msg, buf, pos>> /\ pc[p] \in Maintaining /\ pc'[p] \in {"mt_close", "mt_write"}
      BY <1>0, <1>11 DEF MaintLockHdrFails, MaintScanEnd, MaintClose, local, Maintaining, Goto, HyperInv, HyTypes
    <2>2. HyTypes' /\ Others(p)
      BY <1>0, <1>1, <1>3, <2>1 DEF HyperInv, HyTypes, Others
    <2>3. KnowsMaint(p)'
      BY <1>1, <1>7, <2>1 DEF KnowsMaint, Maintaining
    <2>4. Knows(p)'
      BY <2>1, <2>3 DEF Knows, KnowsAdd, KnowsMsg, KnowsPurge
    <2> QED
      BY <1>0, <1>1, <1>2, <1>4, <1>5, <2>2, <2>4, HyLocal
  <1> QED
    BY <1>8, <1>9, <1>10, <1>11

-----------------------------------------------------------------------------
(* Steps that write the files.                                              *)

\* A process at work has the lock, is alone, and finds index and status in order unless it is halfway itself.
LEMMA AtWork ==
  ASSUME HyperInv, NEW p \in Proc, pc[p] \notin Free
  PROVE  /\ Alone(p) /\ hdrLock = p /\ hdrLock # None
         /\ pc[p] \notin Halfway => Orderly
  <1>1. hdrLock = p /\ None \notin Proc
    BY Roles DEF HyperInv, PlaceOf
  <1> QED
    BY <1>1, KnownAlone, FindsOrder

\* The types of what the files hold
LEMMA FileTypes ==
  ASSUME HyTypes
  PROVE  /\ sid \in Seq(IdxRecs) /\ Len(sid) \in Nat
         /\ \A k \in 1..Len(sid) : sid[k] \in IdxRecs /\ sid[k].num \in Nat /\ sid[k].slot \in Slots
         /\ shd \in [Slots -> Hdrs]
         /\ status \in Statuses /\ status.last \in Nat /\ status.total \in Nat
  <1>1. sid \in Seq(IdxRecs) /\ Len(sid) \in Nat /\ \A k \in 1..Len(sid) : sid[k] \in IdxRecs
    BY DEF HyTypes
  <1> QED
    BY <1>1 DEF HyTypes, IdxRecs, Statuses

\* A header is written over by one with the same number.
LEMMA HeaderPut ==
  ASSUME HyTypes, Own, NEW s \in Slots, NEW h \in Hdrs, h.num = shd[s].num,
         shd' = [shd EXCEPT ![s] = h], UNCHANGED <<sid, status>>
  PROVE  Own' /\ shd' \in [Slots -> Hdrs] /\ Sound
  <1>1. shd' \in [Slots -> Hdrs] /\ \A t \in Slots : shd'[t].num = shd[t].num
    BY DEF HyTypes
  <1> QED
    BY <1>1, FileTypes, SameSound DEF Own

\* The three writes of a post: header, index record, status.
LEMMA PostWrites ==
  ASSUME HyperInv, NEW p \in Posters, AddPutHdr(p) \/ AddPutIdx(p) \/ AddPutStatus(p)
  PROVE  HyperInv' /\ Sound
  <1>0. p \in Proc /\ p \notin Modifiers
    BY Roles
  <1>1. /\ Alone(p) /\ hdrLock = p /\ hdrLock # None
        /\ pc[p] \notin Halfway => Orderly
    <2>1. pc[p] \notin Free
      BY DEF AddPutHdr, AddPutIdx, AddPutStatus, Free
    <2> QED
      BY <1>0, <2>1, AtWork
  <1>2. HyTypes /\ Own /\ KnowsAdd(p)
    BY <1>0 DEF HyperInv, Knows
  <1>3. UNCHANGED <<st, msg, buf, pos>>
    BY DEF AddPutHdr, AddPutIdx, AddPutStatus, local
  <1>4. msg[p] \in Msgs /\ msg[p].num \in Nat /\ msg[p].off \in Nat /\ msg[p].attr \in SUBSET Attrs
    <2>1. msg[p] \in Msgs
      BY <1>0, <1>2 DEF HyTypes
    <2> QED
      BY <2>1 DEF Msgs
  <1>5. CASE AddPutHdr(p)
    <2>1. /\ pc[p] = "add_puthdr" /\ pc' = [pc EXCEPT ![p] = "add_putidx"] /\ hdrLock' = hdrLock
          /\ UNCHANGED <<status, sid>>
      BY <1>5 DEF AddPutHdr, Goto, locks
    <2>2. /\ msg[p].slot \in Slots /\ shd[msg[p].slot] = NoHdr
          /\ st[p] = status /\ msg[p].off = Len(sid) /\ msg[p].num = status.last + 1 /\ msg[p].attr = {}
      BY <1>2, <2>1 DEF KnowsAdd
    <2>3. PICK h \in Hdrs : h = [num |-> msg[p].num, attr |-> msg[p].attr]
      BY <1>4 DEF Hdrs
    <2>4. shd' = [shd EXCEPT ![msg[p].slot] = h] /\ h.num = msg[p].num
      BY <1>5, <2>3 DEF AddPutHdr
    <2>5. /\ shd' \in [Slots -> Hdrs] /\ shd'[msg[p].slot] = h
          /\ \A t \in Slots : t # msg[p].slot => shd'[t] = shd[t]
      BY <1>2, <2>2, <2>4 DEF HyTypes
    <2>6. Own'
      <3>1. SUFFICES ASSUME NEW k \in 1..Len(sid)
                     PROVE  sid[k].num >= 1 /\ shd'[sid[k].slot].num = sid[k].num
        BY <2>1 DEF Own
      <3>2. sid[k].num >= 1 /\ shd[sid[k].slot].num = sid[k].num /\ sid[k].slot \in Slots /\ sid[k].num \in Nat
        BY <1>2, FileTypes DEF Own
      <3>3. sid[k].slot # msg[p].slot
        BY <2>2, <3>2 DEF NoHdr
      <3> QED
        BY <2>5, <3>2, <3>3
    <2>7. HyTypes' /\ Others(p) /\ pc'[p] = "add_putidx"
      BY <1>0, <1>2, <1>3, <2>1, <2>5 DEF HyTypes, Others
    <2>8. PlaceOf(p)'
      BY <1>0, <1>1, <2>1, <2>7 DEF PlaceOf, NotHere, Free, Cutting
    <2>9. KnowsAdd(p)'
      BY <1>3, <2>1, <2>2, <2>4, <2>5, <2>7 DEF KnowsAdd
    <2>10. Knows(p)'
      BY <2>7, <2>9 DEF Knows, KnowsMsg, KnowsPurge, KnowsMaint, Maintaining
    <2>11. Orderly'
      <3>1. Orderly
        BY <1>1, <2>1 DEF Halfway
      <3> QED
        BY <2>1, <3>1 DEF Orderly, Increasing, Below
    <2>12. Sound
      BY <1>2, <2>1, SameSound
    <2> QED
      BY <1>0, <1>1, <2>6, <2>7, <2>8, <2>10, <2>11, <2>12, HyStep
  <1>6. CASE AddPutIdx(p)
    <2>1. pc[p] = "add_putidx" /\ UNCHANGED <<status, shd>>
      BY <1>6 DEF AddPutIdx
    <2>2. /\ msg[p].slot \in Slots /\ shd[msg[p].slot].num = msg[p].num
          /\ st[p] = status /\ msg[p].off = Len(sid) /\ msg[p].num = status.last + 1
      BY <1>2, <2>1 DEF KnowsAdd
    <2>3. pc' = [pc EXCEPT ![p] = "add_putstatus"] /\ hdrLock' = hdrLock
      <3>1. msg[p].off <= Len(sid)
        BY <1>2, <2>2, FileTypes
      <3> QED
        BY <1>6, <3>1 DEF AddPutIdx, Goto
    <2>4. PICK r \in IdxRecs : r.num = msg[p].num /\ r.slot = msg[p].slot /\ r = IdxRec(msg[p])
      BY <1>4, <2>2 DEF IdxRecs, IdxRec
    <2>5. sid' = Append(sid, r)
      BY <1>2, <1>6, <2>2, <2>4, FileTypes DEF AddPutIdx, PutMsgIdx
    <2>6. /\ sid' \in Seq(IdxRecs) /\ Len(sid') = Len(sid) + 1 /\ sid'[Len(sid) + 1] = r
          /\ \A k \in 1..Len(sid) : sid'[k] = sid[k]
      BY <1>2, <2>5, FileTypes, AppendProperties
    <2>7. \A k \in 1..Len(sid') : k \in 1..Len(sid) \/ k = Len(sid) + 1
      BY <1>2, <2>6, FileTypes
    <2>8. Orderly /\ status.last \in Nat
      BY <1>1, <1>2, <2>1, FileTypes DEF Halfway
    <2>9. Own'
      <3>1. SUFFICES ASSUME NEW k \in 1..Len(sid')
                     PROVE  sid'[k].num >= 1 /\ shd[sid'[k].slot].num = sid'[k].num
        BY <2>1 DEF Own
      <3>2. CASE k \in 1..Len(sid)
        BY <1>2, <2>6, <3>2 DEF Own
      <3>3. CASE k = Len(sid) + 1
        BY <2>2, <2>4, <2>6, <2>8, <3>3
      <3> QED
        BY <2>7, <3>2, <3>3
    <2>10. \A k \in 1..Len(sid) : sid[k].num \in Nat /\ sid[k].num <= status.last
      BY <1>2, <2>8, FileTypes DEF Orderly, Below
    <2>11. Increasing(sid')
      <3>1. SUFFICES ASSUME NEW i \in 1..Len(sid'), NEW j \in 1..Len(sid'), i < j
                     PROVE  sid'[i].num < sid'[j].num
        BY DEF Increasing
      <3>2. i \in 1..Len(sid)
        BY <1>2, <2>6, <2>7, <3>1, FileTypes
      <3>3. CASE j \in 1..Len(sid)
        BY <2>6, <2>8, <3>1, <3>2, <3>3 DEF Orderly, Increasing
      <3>4. CASE j = Len(sid) + 1
        BY <2>2, <2>4, <2>6, <2>8, <2>10, <3>2, <3>4
      <3> QED
        BY <2>7, <3>3, <3>4
    <2>12. \A k \in 1..Len(sid') : sid'[k].num <= status.last + 1
      <3>1. SUFFICES ASSUME NEW k \in 1..Len(sid') PROVE sid'[k].num <= status.last + 1
        OBVIOUS
      <3>2. CASE k \in 1..Len(sid)
        BY <2>6, <2>8, <2>10, <3>2
      <3>3. CASE k = Len(sid) + 1
        BY <2>2, <2>4, <2>6, <2>8, <3>3
      <3> QED
        BY <2>7, <3>2, <3>3
    <2>13. HyTypes' /\ Others(p) /\ pc'[p] = "add_putstatus"
      BY <1>0, <1>2, <1>3, <2>1, <2>3, <2>6 DEF HyTypes, Others
    <2>14. PlaceOf(p)'
      BY <1>0, <1>1, <2>3, <2>13 DEF PlaceOf, NotHere, Free, Cutting
    <2>15. Len(sid') = status.total + 1
      BY <2>6, <2>8 DEF Orderly
    <2>16. KnowsAdd(p)'
      <3>1. Increasing(sid)'
        BY <2>11 DEF Increasing
      <3>2. Below(status.last + 1)'
        BY <2>1, <2>12 DEF Below
      <3> QED
        BY <1>3, <2>1, <2>2, <2>13, <2>15, <3>1, <3>2 DEF KnowsAdd
    <2>17. Knows(p)'
      BY <2>13, <2>16 DEF Knows, KnowsMsg, KnowsPurge, KnowsMaint, Maintaining
    <2>18. Sound
      <3>1. hdrLock # None /\ pc'[hdrLock] # pc[hdrLock]
        BY <1>1, <2>1, <2>13
      <3>2. \A k \in 1..Len(sid) : ~Marked(sid[k]) => \E j \in 1..Len(sid') : sid'[j].num = sid[k].num
        <4>1. \A k \in 1..Len(sid) : k \in 1..Len(sid')
          BY <1>2, <2>6, FileTypes
        <4> QED
          BY <2>6, <4>1
      <3>3. ASSUME NEW j \in 1..Len(sid'), \A k \in 1..Len(sid) : sid[k].num # sid'[j].num
            PROVE  sid'[j].num > status.last
        <4>1. j = Len(sid) + 1
          BY <2>6, <2>7, <3>3
        <4> QED
          BY <2>2, <2>4, <2>6, <2>8, <4>1
      <3>4. status'.last >= status.last
        BY <2>1, <2>8
      <3> QED
        BY <3>1, <3>2, <3>3, <3>4 DEF Sound
    <2> QED
      BY <1>0, <1>1, <2>9, <2>13, <2>14, <2>17, <2>18, HyStep DEF Halfway
  <1>7. CASE AddPutStatus(p)
    <2>1. /\ pc[p] = "add_putstatus" /\ pc' = [pc EXCEPT ![p] = "unlock"] /\ hdrLock' = hdrLock
          /\ status' = [last |-> st[p].last + 1, total |-> st[p].total + 1] /\ UNCHANGED <<sid, shd>>
      BY <1>7 DEF AddPutStatus, Goto, locks
    <2>2. st[p] = status /\ Increasing(sid) /\ Len(sid) = status.total + 1 /\ Below(status.last + 1)
      BY <1>2, <2>1 DEF KnowsAdd
    <2>3. status'.last = status.last + 1 /\ status'.total = status.total + 1 /\ status' \in Statuses
      BY <1>2, <2>1, <2>2, FileTypes DEF Statuses
    <2>4. Orderly'
      BY <2>1, <2>2, <2>3 DEF Orderly, Increasing, Below
    <2>5. HyTypes' /\ Others(p) /\ pc'[p] = "unlock"
      BY <1>0, <1>2, <1>3, <2>1, <2>3 DEF HyTypes, Others
    <2>6. PlaceOf(p)' /\ Knows(p)'
      BY <1>0, <2>5 DEF PlaceOf, NotHere, Free, Cutting, Knows, KnowsAdd, KnowsMsg, KnowsPurge, KnowsMaint, Maintaining
    <2>7. Own'
      BY <1>2, <2>1 DEF Own
    <2>8. Sound
      BY <1>2, <2>1, <2>3, FileTypes DEF Sound
    <2> QED
      BY <1>0, <1>1, <2>4, <2>5, <2>6, <2>7, <2>8, HyStep
  <1> QED
    BY <1>5, <1>6, <1>7

\* The header of the message that was looked up
LEMMA HeaderWrites ==
  ASSUME HyperInv, NEW p \in Proc, (p \in Modifiers /\ PutHdr(p)) \/ (p \in Purgers /\ MaintPutHdr(p))
  PROVE  HyperInv' /\ Sound
  <1>1. /\ pc[p] \in {"puthdr", "mt_puthdr"} /\ UNCHANGED <<status, sid, st, msg, buf, pos>> /\ hdrLock' = hdrLock
        /\ shd' = [shd EXCEPT ![msg[p].slot] = [num |-> msg[p].num, attr |-> msg[p].attr]]
    BY DEF PutHdr, MaintPutHdr, locks, local
  <1>2. Alone(p) /\ hdrLock = p /\ Orderly
    BY <1>1, AtWork DEF Free, Halfway
  <1>3. HyTypes /\ Own /\ KnowsMsg(p) /\ KnowsMaint(p)
    BY DEF HyperInv, Knows
  <1>4. /\ pc'[p] = (IF pc[p] = "puthdr" THEN "putidx" ELSE "mt_putidx") /\ pc' = [q \in Proc |-> pc'[q]]
        /\ \A q \in Proc \ {p} : pc'[q] = pc[q]
        /\ p \in Modifiers => pc'[p] = "putidx"
    BY <1>3, Roles DEF PutHdr, MaintPutHdr, Goto, HyTypes
  <1>5. /\ msg[p].slot \in Slots /\ msg[p].off < Len(sid) /\ msg[p].off \in Nat
        /\ sid[msg[p].off + 1].num = msg[p].num /\ sid[msg[p].off + 1].slot = msg[p].slot
        /\ msg[p].off + 1 \in 1..Len(sid) /\ msg[p].num \in Nat /\ msg[p].attr \in SUBSET Attrs
    <2>1. msg[p] \in Msgs
      BY <1>3 DEF HyTypes
    <2>2. msg[p].off \in Nat /\ msg[p].num \in Nat /\ msg[p].attr \in SUBSET Attrs
      BY <2>1 DEF Msgs
    <2> QED
      BY <1>1, <1>3, <2>2, FileTypes DEF KnowsMsg
  <1>6. PICK h \in Hdrs : h = [num |-> msg[p].num, attr |-> msg[p].attr]
    BY <1>5 DEF Hdrs
  <1>7. h.num = shd[msg[p].slot].num
    BY <1>3, <1>5, <1>6 DEF Own
  <1>8. Own' /\ shd' \in [Slots -> Hdrs] /\ Sound
    BY <1>1, <1>3, <1>5, <1>6, <1>7, HeaderPut
  <1>9. HyTypes' /\ Others(p)
    BY <1>1, <1>3, <1>4, <1>8 DEF HyTypes, Others
  <1>10. PlaceOf(p)'
    BY <1>1, <1>2, <1>4 DEF PlaceOf, NotHere, Free, Cutting, Modifying
  <1>11. KnowsMsg(p)'
    BY <1>1, <1>5 DEF KnowsMsg
  <1>12. KnowsMaint(p)'
    BY <1>1, <1>3, <1>4 DEF KnowsMaint, Maintaining
  <1>13. Knows(p)'
    BY <1>4, <1>11, <1>12 DEF Knows, KnowsAdd, KnowsPurge
  <1>14. Orderly'
    BY <1>1, <1>2 DEF Orderly, Increasing, Below
  <1> QED
    BY <1>2, <1>8, <1>9, <1>10, <1>13, <1>14, HyStep

\* Its index record
LEMMA IndexWrites ==
  ASSUME HyperBase, HyperInv, NEW p \in Proc,
         (p \in Modifiers /\ PutIdx(p)) \/ (p \in Purgers /\ MaintPutIdx(p))
  PROVE  HyperInv' /\ Sound
  <1>1. /\ pc[p] \in {"putidx", "mt_putidx"} /\ UNCHANGED <<status, shd, st, msg, buf, pos>> /\ hdrLock' = hdrLock
        /\ sid' = PutMsgIdx(sid, msg[p].off, IdxRec(msg[p]))
    BY DEF PutIdx, MaintPutIdx, local
  <1>2. Alone(p) /\ hdrLock = p /\ hdrLock # None /\ Orderly
    BY <1>1, AtWork DEF Free, Halfway
  <1>3. HyTypes /\ Own /\ KnowsMsg(p) /\ KnowsMaint(p)
    BY DEF HyperInv, Knows
  <1>4. /\ pc'[p] = (IF pc[p] = "putidx" THEN "unlock" ELSE "mt_scan") /\ pc' = [q \in Proc |-> pc'[q]]
        /\ \A q \in Proc \ {p} : pc'[q] = pc[q]
        /\ p \in Modifiers => pc'[p] = "unlock"
    <2>1. CASE p \in Modifiers /\ PutIdx(p)
      BY <1>3, <2>1, Roles DEF PutIdx, Goto, HyTypes
    <2>2. CASE p \in Purgers /\ MaintPutIdx(p)
      <3>1. pc[p] = "mt_putidx" /\ pc' = [pc EXCEPT ![p] = "mt_scan"]
        BY <2>2 DEF MaintPutIdx, Goto, HyperBase
      <3> QED
        BY <1>3, <2>2, <3>1, Roles DEF HyTypes
    <2> QED
      BY <2>1, <2>2
  <1>5. /\ msg[p].slot \in Slots /\ msg[p].off < Len(sid) /\ msg[p].off \in Nat
        /\ sid[msg[p].off + 1].num = msg[p].num /\ sid[msg[p].off + 1].slot = msg[p].slot
        /\ msg[p].off + 1 \in 1..Len(sid) /\ msg[p].num \in Nat /\ msg[p].attr \in SUBSET Attrs
    <2>1. msg[p] \in Msgs
      BY <1>3 DEF HyTypes
    <2>2. msg[p].off \in Nat /\ msg[p].num \in Nat /\ msg[p].attr \in SUBSET Attrs
      BY <2>1 DEF Msgs
    <2> QED
      BY <1>1, <1>3, <2>2, FileTypes DEF KnowsMsg
  <1>6. PICK r \in IdxRecs : /\ r = IdxRec(msg[p]) /\ r.num = msg[p].num /\ r.slot = msg[p].slot
                             /\ r.attr = msg[p].attr
    <2>1. PICK n \in Nat, s \in Slots, a \in SUBSET Attrs : n = msg[p].num /\ s = msg[p].slot /\ a = msg[p].attr
      BY <1>5
    <2>2. IdxRec(msg[p]) = [num |-> n, slot |-> s, attr |-> a]
      BY <2>1 DEF IdxRec
    <2>3. [num |-> n, slot |-> s, attr |-> a] \in IdxRecs
      BY DEF IdxRecs
    <2> QED
      BY <2>1, <2>2, <2>3
  <1>7. PICK o \in Nat : o = msg[p].off
    BY <1>5
  <1>8. /\ sid' \in Seq(IdxRecs) /\ Len(sid') = Len(sid) /\ sid'[o + 1] = r
        /\ \A k \in 1..Len(sid) : sid'[k].num = sid[k].num /\ sid'[k].slot = sid[k].slot
        /\ \A k \in 1..Len(sid) : k # o + 1 => sid'[k] = sid[k]
    <2>1. PICK s \in Seq(IdxRecs) : s = sid
      BY <1>3, FileTypes
    <2>2. o < Len(s) /\ r.num = s[o + 1].num /\ r.slot = s[o + 1].slot
      BY <1>5, <1>6, <1>7, <2>1
    <2>3. /\ PutMsgIdx(s, o, r) \in Seq(IdxRecs) /\ Len(PutMsgIdx(s, o, r)) = Len(s)
          /\ PutMsgIdx(s, o, r)[o + 1] = r
          /\ \A k \in 1..Len(s) : PutMsgIdx(s, o, r)[k].num = s[k].num /\ PutMsgIdx(s, o, r)[k].slot = s[k].slot
          /\ \A k \in 1..Len(s) : k # o + 1 => PutMsgIdx(s, o, r)[k] = s[k]
      BY <2>2, RecordPut
    <2>4. sid' = PutMsgIdx(s, o, r)
      BY <1>1, <1>6, <1>7, <2>1
    <2> QED
      BY <2>1, <2>3, <2>4
  <1>9. Own'
    BY <1>1, <1>3, <1>8 DEF Own
  <1>10. Orderly'
    BY <1>1, <1>2, <1>8 DEF Orderly, Increasing, Below
  <1>11. HyTypes' /\ Others(p)
    BY <1>1, <1>3, <1>4, <1>8 DEF HyTypes, Others
  <1>12. PlaceOf(p)'
    BY <1>1, <1>2, <1>4 DEF PlaceOf, NotHere, Free, Cutting, Modifying
  <1>13. pc[p] = "mt_putidx" => st[p] = status /\ Snapshot(buf[p], sid')
    <2>1. SUFFICES ASSUME pc[p] = "mt_putidx" PROVE st[p] = status /\ Snapshot(buf[p], sid')
      OBVIOUS
    <2>2. /\ st[p] = status /\ Snapshot(buf[p], sid) /\ Marked(buf[p][o + 1]) /\ Marked(r)
      BY <1>3, <1>6, <1>7, <2>1 DEF KnowsMaint, Maintaining, Marked
    <2>3. ASSUME NEW k \in 1..Len(sid')
          PROVE  /\ buf[p][k].num = sid'[k].num
                 /\ IF Marked(buf[p][k]) THEN Marked(sid'[k]) ELSE buf[p][k] = sid'[k]
      <3>1. CASE k = o + 1
        BY <1>8, <2>2, <2>3, <3>1 DEF Snapshot
      <3>2. CASE k # o + 1
        BY <1>8, <2>2, <2>3, <3>2 DEF Snapshot
      <3> QED
        BY <3>1, <3>2
    <2> QED
      BY <1>8, <2>2, <2>3 DEF Snapshot
  <1>14. KnowsMaint(p)'
    BY <1>1, <1>4, <1>13 DEF KnowsMaint, Maintaining
  <1>15. Knows(p)'
    BY <1>1, <1>4, <1>14 DEF Knows, KnowsAdd, KnowsMsg, KnowsPurge
  <1>16. Sound
    <2>1. hdrLock # None /\ pc'[hdrLock] # pc[hdrLock]
      BY <1>1, <1>2, <1>4
    <2>2. \A k \in 1..Len(sid) : sid'[k].num = sid[k].num /\ k \in 1..Len(sid')
      BY <1>8
    <2> QED
      BY <1>1, <1>3, <1>8, <2>1, <2>2, FileTypes DEF Sound
  <1> QED
    BY <1>2, <1>9, <1>10, <1>11, <1>12, <1>15, <1>16, HyStep

\* delmail marks the header of a record it leaves out.
LEMMA PurgeDrops ==
  ASSUME HyperBase, HyperInv, NEW p \in Purgers, PurgeDrop(p)
  PROVE  HyperInv' /\ Sound
  <1>0. p \in Proc /\ p \notin Modifiers
    BY Roles
  <1>1. /\ pc[p] = "pg_scan" /\ UNCHANGED <<status, sid, st, buf>> /\ hdrLock' = hdrLock
        /\ pos' = [pos EXCEPT ![p] = pos[p] + 1]
        /\ pc' = [pc EXCEPT ![p] = "pg_scan"]
        /\ pos[p] < Len(sid) /\ Marked(sid[pos[p] + 1])
    BY DEF PurgeDrop, locks, HyperBase, Goto, Marked, Scanning
  <1>2. Alone(p) /\ hdrLock = p /\ Orderly
    BY <1>0, <1>1, AtWork DEF Free, Halfway
  <1>3. HyTypes /\ Own /\ KnowsPurge(p) /\ pos[p] \in Nat /\ buf[p] \in Seq(IdxRecs)
    BY <1>0 DEF HyperInv, Knows, HyTypes
  <1>4. PICK r \in IdxRecs : r = sid[pos[p] + 1] /\ r.slot \in Slots /\ r.attr \in SUBSET Attrs
    <2>1. pos[p] + 1 \in 1..Len(sid)
      BY <1>1, <1>3, FileTypes
    <2>2. sid[pos[p] + 1] \in IdxRecs
      BY <1>3, <2>1, FileTypes
    <2> QED
      BY <2>2 DEF IdxRecs
  <1>5. PICK h \in Hdrs : h = [shd[r.slot] EXCEPT !.attr = r.attr] /\ h.num = shd[r.slot].num
    <2>1. shd[r.slot] \in Hdrs
      BY <1>3, <1>4, FileTypes
    <2>2. PICK g \in Hdrs, a \in SUBSET Attrs : g = shd[r.slot] /\ a = r.attr
      BY <1>4, <2>1
    <2>3. [g EXCEPT !.attr = a] \in Hdrs /\ [g EXCEPT !.attr = a].num = g.num
      BY DEF Hdrs
    <2> QED
      BY <2>2, <2>3
  <1>6. shd' = [shd EXCEPT ![r.slot] = h]
    <2>1. shd' = [shd EXCEPT ![r.slot].attr = r.attr]
      BY <1>4 DEF PurgeDrop
    <2> QED
      BY <1>5, <2>1
  <1>7. Own' /\ shd' \in [Slots -> Hdrs] /\ Sound
    BY <1>1, <1>3, <1>4, <1>5, <1>6, HeaderPut
  <1>8. msg' \in [Proc -> Msgs] /\ \A q \in Proc \ {p} : msg'[q] = msg[q]
    <2>1. 0 \in Nat /\ r.slot \in Slots \cup {0}
      BY <1>4
    <2>2. msg' = [msg EXCEPT ![p] = NewMsg(0, r.slot, 0)]
      BY <1>4 DEF PurgeDrop
    <2> QED
      BY <1>0, <1>3, <2>1, <2>2, NewMsgs
  <1>9. HyTypes' /\ Others(p) /\ pc'[p] = "pg_scan" /\ pos'[p] = pos[p] + 1
    BY <1>0, <1>1, <1>3, <1>7, <1>8 DEF HyTypes, Others
  <1>10. KeepsTo(buf[p], sid, pos[p] + 1) /\ pos[p] + 1 <= Len(sid)
    <2>1. KeepsTo(buf[p], sid, pos[p])
      BY <1>1, <1>3 DEF KnowsPurge
    <2>2. PICK n, c : n = pos[p] /\ c = buf[p] /\ n \in Nat
      BY <1>3
    <2>3. n + 1 <= Len(sid)
      BY <1>1, <1>3, <2>2, FileTypes
    <2>4. KeepsTo(IF Marked(sid[n + 1]) THEN c ELSE Append(c, sid[n + 1]), sid, n + 1)
      BY <1>3, <2>1, <2>2, <2>3, FileTypes, KeepsNext
    <2> QED
      BY <1>1, <2>2, <2>3, <2>4
  <1>11. KnowsPurge(p)'
    BY <1>1, <1>3, <1>9, <1>10 DEF KnowsPurge
  <1>12. Knows(p)'
    BY <1>9, <1>11 DEF Knows, KnowsAdd, KnowsMsg, KnowsMaint, Maintaining
  <1>13. PlaceOf(p)'
    BY <1>0, <1>1, <1>2, <1>9 DEF PlaceOf, NotHere, Free, Cutting
  <1>14. Orderly'
    BY <1>1, <1>2 DEF Orderly, Increasing, Below
  <1> QED
    BY <1>0, <1>2, <1>7, <1>9, <1>12, <1>13, <1>14, HyStep

\* What is kept of the index: by delmail, or by maint()
ToKeep(p) == IF pc[p] \in {"pg_scan", "pg_trunc"} THEN buf[p] ELSE Kept(buf[p])

\* What the index has once the kept records are written over its start.
LEMMA KeptFromIndex ==
  ASSUME HyperInv, NEW p \in Purgers, PurgeWrite(p) \/ MaintWrite(p)
  PROVE  /\ sid' \in Seq(IdxRecs) /\ Len(sid') = Len(sid) /\ Rewritten(ToKeep(p), sid')
         /\ \A j \in 1..Len(sid') : \E k \in 1..Len(sid) : sid'[j] = sid[k]
         /\ \A k \in 1..Len(sid) : ~Marked(sid[k]) => \E j \in 1..Len(sid') : sid'[j] = sid[k]
  <1>0. p \in Proc
    BY Roles
  <1>1. pc[p] \in {"pg_scan", "mt_write"}
    BY DEF PurgeWrite, MaintWrite
  <1>2. Orderly
    BY <1>0, <1>1, AtWork DEF Free, Halfway
  <1>3. HyTypes /\ KnowsPurge(p) /\ KnowsMaint(p) /\ buf[p] \in Seq(IdxRecs) /\ pos[p] \in Nat
    BY <1>0 DEF HyperInv, Knows, HyTypes
  <1>4. PICK b : b = ToKeep(p) /\ b = IF pc[p] = "pg_scan" THEN buf[p] ELSE Kept(buf[p])
    BY <1>1 DEF ToKeep
  <1>5. st[p] = status
    BY <1>1, <1>3 DEF KnowsPurge, KnowsMaint, Maintaining
  <1>6. b \in Seq(IdxRecs) /\ Keeps(b, sid)
    <2>1. CASE pc[p] = "pg_scan"
      <3>1. b = buf[p] /\ pos[p] <= Len(sid) /\ KeepsTo(b, sid, pos[p])
        BY <1>3, <1>4, <2>1 DEF KnowsPurge
      <3>2. pos[p] = Len(sid)
        <4>1. ~(pos[p] < Len(sid) /\ Len(b) < status.total)
          BY <1>1, <1>5, <2>1, <3>1 DEF PurgeWrite, MaintWrite, Scanning
        <4>2. Len(b) <= pos[p] /\ Len(b) \in Nat /\ status.total = Len(sid)
          BY <1>2, <1>3, <3>1 DEF KeepsTo, Orderly
        <4> QED
          BY <1>3, <3>1, <4>1, <4>2, FileTypes
      <3>3. Increasing(sid)
        BY <1>2 DEF Orderly
      <3> QED
        BY <1>3, <3>1, <3>2, <3>3 DEF KeepsTo, Keeps
    <2>2. CASE pc[p] = "mt_write"
      <3>1. b = Kept(buf[p]) /\ Snapshot(buf[p], sid) /\ Increasing(sid)
        BY <1>2, <1>3, <1>4, <2>2 DEF KnowsMaint, Maintaining, Orderly
      <3>2. PICK s, c : s = sid /\ c = buf[p]
        OBVIOUS
      <3>3. Kept(c) \in Seq(IdxRecs) /\ Keeps(Kept(c), s)
        BY <1>3, <3>1, <3>2, FileTypes, KeptOfSnapshot
      <3> QED
        BY <3>1, <3>2, <3>3
    <2> QED
      BY <1>1, <2>1, <2>2
  <1>7. sid' = b \o SubSeq(sid, Len(b) + 1, Len(sid))
    BY <1>4 DEF PurgeWrite, MaintWrite
  <1>8. /\ sid' \in Seq(IdxRecs) /\ Len(sid') = Len(sid) /\ Rewritten(b, sid')
        /\ \A j \in 1..Len(sid') : \E k \in 1..Len(sid) : sid'[j] = sid[k]
        /\ \A k \in 1..Len(sid) : ~Marked(sid[k]) => \E j \in 1..Len(sid') : sid'[j] = sid[k]
    <2>1. PICK s \in Seq(IdxRecs) : s = sid
      BY <1>3, FileTypes
    <2>2. Keeps(b, s) /\ Increasing(s) /\ sid' = Over(b, s)
      BY <1>2, <1>6, <1>7, <2>1 DEF Over, Orderly
    <2>3. /\ Over(b, s) \in Seq(IdxRecs) /\ Len(Over(b, s)) = Len(s) /\ Rewritten(b, Over(b, s))
          /\ \A j \in 1..Len(s) : \E k \in 1..Len(s) : Over(b, s)[j] = s[k]
          /\ \A k \in 1..Len(s) : ~Marked(s[k]) => \E j \in 1..Len(s) : Over(b, s)[j] = s[k]
      BY <1>6, <2>2, WrittenOver
    <2> QED
      BY <2>1, <2>2, <2>3
  <1> QED
    BY <1>4, <1>8

\* The records that are kept are written from the start of the index ...
LEMMA KeptWrites ==
  ASSUME HyperInv, NEW p \in Purgers, PurgeWrite(p) \/ MaintWrite(p)
  PROVE  HyperInv' /\ Sound
  <1>0. p \in Proc /\ p \notin Modifiers
    BY Roles
  <1>1. /\ pc[p] \in {"pg_scan", "mt_write"} /\ UNCHANGED <<status, shd, st, msg, buf, pos>> /\ hdrLock' = hdrLock
        /\ pc' = [pc EXCEPT ![p] = IF pc[p] = "pg_scan" THEN "pg_trunc" ELSE "mt_trunc"]
    BY DEF PurgeWrite, MaintWrite, Goto, locks, local
  <1>2. Alone(p) /\ hdrLock = p /\ hdrLock # None /\ Orderly
    BY <1>0, <1>1, AtWork DEF Free, Halfway
  <1>3. HyTypes /\ Own /\ KnowsPurge(p) /\ KnowsMaint(p) /\ buf[p] \in Seq(IdxRecs) /\ pos[p] \in Nat
    BY <1>0 DEF HyperInv, Knows, HyTypes
  <1>4. PICK b : b = ToKeep(p) /\ b = IF pc[p] = "pg_scan" THEN buf[p] ELSE Kept(buf[p])
    BY <1>1 DEF ToKeep
  <1>5. st[p] = status
    BY <1>1, <1>3 DEF KnowsPurge, KnowsMaint, Maintaining
  <1>8. /\ sid' \in Seq(IdxRecs) /\ Len(sid') = Len(sid) /\ Rewritten(b, sid')
        /\ \A j \in 1..Len(sid') : \E k \in 1..Len(sid) : sid'[j] = sid[k]
        /\ \A k \in 1..Len(sid) : ~Marked(sid[k]) => \E j \in 1..Len(sid') : sid'[j] = sid[k]
    BY <1>4, KeptFromIndex
  <1>9. /\ pc'[p] = (IF pc[p] = "pg_scan" THEN "pg_trunc" ELSE "mt_trunc") /\ HyTypes' /\ Others(p)
    BY <1>0, <1>1, <1>3, <1>8 DEF HyTypes, Others
  <1>10. Own'
    BY <1>1, <1>3, <1>8 DEF Own
  <1>11. Below(status.last)'
    BY <1>1, <1>2, <1>8 DEF Orderly, Below
  <1>12. PlaceOf(p)'
    BY <1>0, <1>1, <1>2, <1>9 DEF PlaceOf, NotHere, Free, Cutting
  <1>13. KnowsPurge(p)'
    BY <1>1, <1>4, <1>5, <1>8, <1>9, <1>11 DEF KnowsPurge
  <1>14. KnowsMaint(p)'
    <2>1. SUFFICES ASSUME pc'[p] = "mt_trunc" PROVE KnowsMaint(p)'
      BY <1>1, <1>9 DEF KnowsMaint, Maintaining
    <2>2. pc[p] = "mt_write"
      BY <1>1, <1>9, <2>1
    <2>3. b = Kept(buf[p]) /\ status.total = Len(buf[p])
      BY <1>2, <1>3, <1>4, <2>2 DEF KnowsMaint, Maintaining, Snapshot, Orderly
    <2>4. PICK c : c = buf[p]
      OBVIOUS
    <2>5. buf'[p] = c /\ b = Kept(c) /\ Rewritten(Kept(c), sid')
      BY <1>1, <1>8, <2>3, <2>4
    <2>6. Rewritten(Kept(buf'[p]), sid')
      BY <2>5
    <2> QED
      BY <1>1, <1>5, <1>11, <2>1, <2>3, <2>6 DEF KnowsMaint, Maintaining
  <1>15. Knows(p)'
    BY <1>1, <1>9, <1>13, <1>14 DEF Knows, KnowsAdd, KnowsMsg
  <1>16. Sound
    <2>1. hdrLock # None /\ pc'[hdrLock] # pc[hdrLock]
      BY <1>1, <1>2, <1>9
    <2>2. ASSUME NEW k \in 1..Len(sid), ~Marked(sid[k]) PROVE \E j \in 1..Len(sid') : sid'[j].num = sid[k].num
      BY <1>8, <2>2
    <2>3. ASSUME NEW j \in 1..Len(sid'), \A k \in 1..Len(sid) : sid[k].num # sid'[j].num PROVE FALSE
      BY <1>8, <2>3
    <2>4. status'.last >= status.last
      BY <1>1, <1>3, FileTypes
    <2> QED
      BY <2>1, <2>2, <2>3, <2>4 DEF Sound
  <1> QED
    BY <1>0, <1>2, <1>9, <1>10, <1>12, <1>15, <1>16, HyStep DEF Halfway

\* What it has once it is cut to their number.
LEMMA CutFromIndex ==
  ASSUME HyperInv, NEW p \in Purgers, PurgeTruncate(p) \/ MaintTruncate(p)
  PROVE  /\ sid' \in Seq(IdxRecs) /\ Len(sid') = Len(ToKeep(p)) /\ Increasing(sid')
         /\ \A j \in 1..Len(sid') : j \in 1..Len(sid) /\ sid'[j] = sid[j]
         /\ \A k \in 1..Len(sid) : Marked(sid[k]) <=> \A j \in 1..Len(sid') : sid'[j].num # sid[k].num
  <1>0. p \in Proc
    BY Roles
  <1>1. pc[p] \in {"pg_trunc", "mt_trunc"}
    BY DEF PurgeTruncate, MaintTruncate
  <1>3. HyTypes /\ KnowsPurge(p) /\ KnowsMaint(p) /\ buf[p] \in Seq(IdxRecs)
    BY <1>0 DEF HyperInv, Knows, HyTypes
  <1>4. PICK b : b = ToKeep(p) /\ b = IF pc[p] = "pg_trunc" THEN buf[p] ELSE Kept(buf[p])
    BY <1>1 DEF ToKeep
  <1>5. Below(status.last) /\ Rewritten(b, sid)
    BY <1>1, <1>3, <1>4 DEF KnowsPurge, KnowsMaint
  <1>6. Len(b) \in Nat
    <2>1. CASE pc[p] = "pg_trunc"
      BY <1>3, <1>4, <2>1
    <2>2. CASE pc[p] # "pg_trunc"
      <3>1. PICK c : c = buf[p] /\ c \in Seq(IdxRecs)
        BY <1>3
      <3>2. Kept(c) \in Seq(IdxRecs)
        BY <3>1, KeptTo DEF KeepsTo
      <3> QED
        BY <1>4, <2>2, <3>1, <3>2
    <2> QED
      BY <2>1, <2>2
  <1>7. sid' = SubSeq(sid, 1, Len(b)) \/ sid' = Resize(sid, Len(b))
    BY <1>4 DEF PurgeTruncate, MaintTruncate
  <1>8. /\ sid' \in Seq(IdxRecs) /\ Len(sid') = Len(b) /\ Increasing(sid')
        /\ \A j \in 1..Len(sid') : j \in 1..Len(sid) /\ sid'[j] = sid[j]
        /\ \A k \in 1..Len(sid) : Marked(sid[k]) <=> \A j \in 1..Len(sid') : sid'[j].num # sid[k].num
    <2>1. PICK s, t : s = sid /\ t = sid' /\ s \in Seq(IdxRecs)
      BY <1>3, FileTypes
    <2>2. Rewritten(b, s) /\ (t = SubSeq(s, 1, Len(b)) \/ t = Resize(s, Len(b)))
      BY <1>5, <1>7, <2>1
    <2>3. /\ t \in Seq(IdxRecs) /\ Len(t) = Len(b) /\ Increasing(t)
          /\ \A j \in 1..Len(t) : j \in 1..Len(s) /\ t[j] = s[j]
          /\ \A k \in 1..Len(s) : Marked(s[k]) <=> \A j \in 1..Len(t) : t[j].num # s[k].num
      BY <1>6, <2>1, <2>2, CutDown
    <2> QED
      BY <2>1, <2>3
  <1> QED
    BY <1>4, <1>8

\* ... which is cut to their number ...
LEMMA KeptCuts ==
  ASSUME HyperInv, NEW p \in Purgers, PurgeTruncate(p) \/ MaintTruncate(p)
  PROVE  HyperInv' /\ Sound
  <1>0. p \in Proc /\ p \notin Modifiers
    BY Roles
  <1>1. /\ pc[p] \in {"pg_trunc", "mt_trunc"} /\ UNCHANGED <<status, shd, st, msg, buf, pos>> /\ hdrLock' = hdrLock
        /\ pc' = [pc EXCEPT ![p] = IF pc[p] = "pg_trunc" THEN "pg_putstatus" ELSE "mt_putstatus"]
    BY DEF PurgeTruncate, MaintTruncate, Goto, locks, local
  <1>2. Alone(p) /\ hdrLock = p /\ hdrLock # None
    BY <1>0, <1>1, AtWork DEF Free
  <1>3. HyTypes /\ Own /\ KnowsPurge(p) /\ KnowsMaint(p) /\ buf[p] \in Seq(IdxRecs)
    BY <1>0 DEF HyperInv, Knows, HyTypes
  <1>4. PICK b : b = ToKeep(p) /\ b = IF pc[p] = "pg_trunc" THEN buf[p] ELSE Kept(buf[p])
    BY <1>1 DEF ToKeep
  <1>5. Below(status.last)
    BY <1>1, <1>3 DEF KnowsPurge, KnowsMaint
  <1>8. /\ sid' \in Seq(IdxRecs) /\ Len(sid') = Len(b) /\ Increasing(sid')
        /\ \A j \in 1..Len(sid') : j \in 1..Len(sid) /\ sid'[j] = sid[j]
        /\ \A k \in 1..Len(sid) : ~Marked(sid[k]) => \E j \in 1..Len(sid') : sid'[j].num = sid[k].num
    <2>1. /\ sid' \in Seq(IdxRecs) /\ Len(sid') = Len(ToKeep(p)) /\ Increasing(sid')
          /\ \A j \in 1..Len(sid') : j \in 1..Len(sid) /\ sid'[j] = sid[j]
          /\ \A k \in 1..Len(sid) : Marked(sid[k]) <=> \A j \in 1..Len(sid') : sid'[j].num # sid[k].num
      BY CutFromIndex
    <2>2. ASSUME NEW k \in 1..Len(sid), ~Marked(sid[k])
          PROVE  \E j \in 1..Len(sid') : sid'[j].num = sid[k].num
      BY <2>1, <2>2
    <2> QED
      BY <1>4, <2>1, <2>2
  <1>9. /\ pc'[p] = (IF pc[p] = "pg_trunc" THEN "pg_putstatus" ELSE "mt_putstatus") /\ HyTypes' /\ Others(p)
    BY <1>0, <1>1, <1>3, <1>8 DEF HyTypes, Others
  <1>10. Own'
    BY <1>1, <1>3, <1>8 DEF Own
  <1>11. Below(status.last)' /\ Increasing(sid)'
    BY <1>1, <1>5, <1>8 DEF Below, Increasing
  <1>12. PlaceOf(p)'
    BY <1>0, <1>1, <1>2, <1>9 DEF PlaceOf, NotHere, Free, Cutting
  <1>13. KnowsPurge(p)'
    BY <1>1, <1>3, <1>4, <1>8, <1>9, <1>11 DEF KnowsPurge
  <1>14. KnowsMaint(p)'
    <2>1. SUFFICES ASSUME pc'[p] = "mt_putstatus" PROVE KnowsMaint(p)'
      BY <1>1, <1>9 DEF KnowsMaint, Maintaining
    <2>2. pc[p] = "mt_trunc"
      BY <1>1, <1>9, <2>1
    <2>3. PICK c : c = buf[p]
      OBVIOUS
    <2>4. buf'[p] = c /\ Len(sid') = Len(Kept(c))
      BY <1>1, <1>4, <1>8, <2>2, <2>3
    <2>5. Len(sid') = Len(Kept(buf'[p]))
      BY <2>4
    <2>6. st[p].last = status.last /\ st[p].total = Len(buf[p])
      BY <1>3, <2>2 DEF KnowsMaint
    <2> QED
      BY <1>1, <1>11, <2>1, <2>5, <2>6 DEF KnowsMaint, Maintaining
  <1>15. Knows(p)'
    BY <1>1, <1>9, <1>13, <1>14 DEF Knows, KnowsAdd, KnowsMsg
  <1>16. Sound
    <2>1. hdrLock # None /\ pc'[hdrLock] # pc[hdrLock]
      BY <1>1, <1>2, <1>9
    <2>2. ASSUME NEW j \in 1..Len(sid'), \A k \in 1..Len(sid) : sid[k].num # sid'[j].num PROVE FALSE
      BY <1>8, <2>2
    <2>3. status'.last >= status.last
      BY <1>1, <1>3, FileTypes
    <2> QED
      BY <1>8, <2>1, <2>2, <2>3 DEF Sound
  <1> QED
    BY <1>0, <1>2, <1>9, <1>10, <1>12, <1>15, <1>16, HyStep DEF Halfway

\* ... and the status is written back with the new total.
LEMMA KeptCounts ==
  ASSUME HyperInv, NEW p \in Purgers, PurgePutStatus(p) \/ MaintPutStatus(p)
  PROVE  HyperInv' /\ Sound
  <1>0. p \in Proc /\ p \notin Modifiers
    BY Roles
  <1>1. /\ pc[p] \in {"pg_putstatus", "mt_putstatus"} /\ UNCHANGED <<sid, shd, st, msg, buf, pos>>
        /\ hdrLock' = hdrLock
        /\ pc' = [pc EXCEPT ![p] = IF pc[p] = "pg_putstatus" THEN "pg_close" ELSE "unlock"]
    BY DEF PurgePutStatus, MaintPutStatus, Goto, locks, local
  <1>2. Alone(p) /\ hdrLock = p /\ hdrLock # None
    BY <1>0, <1>1, AtWork DEF Free
  <1>3. HyTypes /\ Own /\ KnowsPurge(p) /\ KnowsMaint(p) /\ buf[p] \in Seq(IdxRecs)
    BY <1>0 DEF HyperInv, Knows, HyTypes
  <1>4. st[p].last = status.last /\ Below(status.last) /\ Increasing(sid)
    BY <1>1, <1>3 DEF KnowsPurge, KnowsMaint
  <1>5. status' = [last |-> status.last, total |-> Len(sid)]
    <2>1. CASE PurgePutStatus(p)
      BY <1>3, <1>4, <2>1 DEF PurgePutStatus, KnowsPurge
    <2>2. CASE MaintPutStatus(p)
      <3>1. st[p].total = Len(buf[p]) /\ Len(sid) = Len(Kept(buf[p]))
        BY <1>3, <2>2 DEF MaintPutStatus, KnowsMaint
      <3>2. PICK n, m : n = Len(buf[p]) /\ m = Len(Kept(buf[p])) /\ n \in Nat /\ m \in Nat
        <4>1. Len(buf[p]) \in Nat
          BY <1>3
        <4>2. Len(Kept(buf[p])) \in Nat
          BY <1>3, <3>1, FileTypes
        <4> QED
          BY <4>1, <4>2
      <3>3. n - (n - m) = m
        BY <3>2
      <3>4. status' = [last |-> status.last, total |-> n - (n - m)]
        BY <1>4, <2>2, <3>1, <3>2 DEF MaintPutStatus
      <3> QED
        BY <3>1, <3>2, <3>3, <3>4
    <2> QED
      BY <2>1, <2>2
  <1>6. status'.last = status.last /\ status'.total = Len(sid) /\ status' \in Statuses
    BY <1>3, <1>5, FileTypes DEF Statuses
  <1>7. /\ pc'[p] \in {"pg_close", "unlock"} /\ HyTypes' /\ Others(p)
    BY <1>0, <1>1, <1>3, <1>6 DEF HyTypes, Others
  <1>8. Own' /\ Orderly'
    BY <1>1, <1>3, <1>4, <1>6 DEF Own, Orderly, Increasing, Below
  <1>9. PlaceOf(p)' /\ Knows(p)'
    BY <1>0, <1>1, <1>2, <1>7
       DEF PlaceOf, NotHere, Free, Cutting, Knows, KnowsAdd, KnowsMsg, KnowsPurge, KnowsMaint, Maintaining
  <1>10. Sound
    BY <1>1, <1>3, <1>6, FileTypes DEF Sound
  <1> QED
    BY <1>0, <1>2, <1>7, <1>8, <1>9, <1>10, HyStep

-----------------------------------------------------------------------------
\* Every step keeps the invariant and is sound.
LEMMA StepHyper ==
  ASSUME HyperBase, HyperInv, [MaintNext]_vars
  PROVE  HyperInv' /\ Sound
  <1>1. CASE UNCHANGED vars
    <2>1. UNCHANGED <<hdrLock, status, sid, shd, pc, st, msg, buf, pos>>
      BY <1>1 DEF vars
    <2>2. Sound
      BY <2>1, SameSound DEF HyperInv
    <2>3. HyTypes' /\ Own'
      BY <2>1 DEF HyperInv, HyTypes, Own
    <2>4. (\A p \in Proc : pc'[p] \notin Halfway) => Orderly'
      BY <2>1 DEF HyperInv, Orderly, Increasing, Below
    <2>5. ASSUME NEW p \in Proc PROVE PlaceOf(p)' /\ Knows(p)'
      <3>1. PlaceOf(p) /\ Knows(p)
        BY DEF HyperInv
      <3>2. PlaceOf(p)' /\ KnowsAdd(p)' /\ KnowsMsg(p)' /\ KnowsPurge(p)'
        BY <2>1, <3>1 DEF PlaceOf, Knows, KnowsAdd, KnowsMsg, KnowsPurge, Increasing, Below
      <3>3. KnowsMaint(p)'
        BY <2>1, <3>1 DEF Knows, KnowsMaint, Increasing, Below
      <3> QED
        BY <3>2, <3>3 DEF Knows
    <2> QED
      BY <2>2, <2>3, <2>4, <2>5 DEF HyperInv
  <1>2. ASSUME NEW p \in Proc, Unlock(p) \/ CloseBase(p) \/ UnlockMsgHdr(p) \/ Crash(p)
        PROVE  HyperInv' /\ Sound
    BY <1>2, CommonHyper
  <1>3. ASSUME NEW p \in Maintainers, MaintLock(p) \/ MaintStep(p)
        PROVE  HyperInv' /\ Sound
    <2>1. p \in Purgers /\ p \in Proc
      BY Roles
    <2>2. pc[p] \notin NotHere
      BY <2>1 DEF HyperInv, PlaceOf
    <2>3. \/ MaintLock(p)
          \/ MaintLoad(p) \/ MaintFind(p) \/ MaintLockHdr(p) \/ MaintLockHdrFails(p) \/ MaintScanEnd(p) \/ MaintClose(p)
          \/ MaintPutHdr(p) \/ MaintPutIdx(p) \/ MaintWrite(p) \/ MaintTruncate(p) \/ MaintPutStatus(p)
      BY <1>3, <2>2 DEF MaintStep, NotHere, MaintOpenDa, MaintOpenDaTimeout, MaintOpenHa, MaintFreeDat,
         MaintFreeDatTimeout, MaintFreeHdr
    <2> QED
      BY <2>1, <2>3, LockHyper, MaintWork, HeaderWrites, IndexWrites, KeptWrites, KeptCuts, KeptCounts
  <1>4. ASSUME NEW p \in Proc, p \in Modifiers, LoadMsg(p) \/ SendRead(p) PROVE HyperInv' /\ Sound
    BY <1>4, ReadHyper
  <1>5. ASSUME NEW p \in Proc, Start(p) PROVE HyperInv' /\ Sound
    <2>1. p \in Editors => FALSE
      BY DEF HyperBase
    <2>2. /\ p \in Adders => p \in Posters
          /\ p \in Headers => p \in Posters
          /\ p \in Senders => p \in Modifiers
      BY DEF Posters, Modifiers
    <2> QED
      BY <1>2, <1>4, <1>5, <2>1, <2>2, LockHyper DEF Start
  <1>6. ASSUME NEW p \in Proc, Continue(p) PROVE HyperInv' /\ Sound
    <2>1. pc[p] \notin NotHere
      BY DEF HyperInv, PlaceOf
    <2>2. CASE p \in Posters /\ PostStep(p)
      <3>1. AddStatus(p) \/ AddHdr(p) \/ AddAlloc(p) \/ AddPutHdr(p) \/ AddPutIdx(p) \/ AddPutStatus(p)
        BY <2>1, <2>2 DEF PostStep, NotHere, HyperBase, AddData, AddDataTimeout, AddAllocTimeout, UndoOpen,
           UndoOpenTimeout, UndoLock, UndoLockTimeout
      <3> QED
        BY <2>2, <3>1, PostWork, PostWrites
    <2>3. CASE p \in Modifiers /\ ModifyStep(p)
      BY <2>3, LockHyper, CommonHyper, ModifyWork, HeaderWrites, IndexWrites DEF ModifyStep
    <2>4. CASE p \in Purgers /\ PurgeStep(p)
      <3>1. \/ PurgeStatus(p) \/ PurgeOpenDa(p) \/ PurgeOpenDaTimeout(p) \/ PurgeOpenHa(p)
            \/ PurgeKeep(p) \/ PurgeDropUnread(p) \/ PurgeClose(p)
            \/ PurgeDrop(p) \/ PurgeWrite(p) \/ PurgeTruncate(p) \/ PurgePutStatus(p)
        BY <2>1, <2>4 DEF PurgeStep, NotHere, PurgeFreeDat, PurgeFreeDatTimeout, PurgeFreeHdr
      <3> QED
        BY <2>4, <3>1, PurgeWork, PurgeDrops, KeptWrites, KeptCuts, KeptCounts
    <2> QED
      BY <1>2, <1>6, <2>2, <2>3, <2>4 DEF Continue
  <1> QED
    <2>1. CASE MaintNext
      <3>1. CASE \E p \in Maintainers : MaintLock(p) \/ MaintStep(p) \/ Unlock(p) \/ Crash(p)
        BY <1>2, <1>3, <3>1, Roles
      <3>2. CASE \E p \in Readers : LoadMsg(p) \/ UnlockMsgHdr(p) \/ Crash(p)
        BY <1>2, <1>4, <3>2, Roles
      <3>3. CASE \E p \in Proc \ (Maintainers \cup Readers) : Start(p) \/ Continue(p) \/ Crash(p)
        BY <1>2, <1>5, <1>6, <3>3
      <3> QED
        BY <2>1, <3>1, <3>2, <3>3 DEF MaintNext
    <2> QED
      BY <1>1, <2>1

\* A hyper-allocated base in which programs post, rewrite headers, purge with
\* delmail and run maint(), any number of each at once, and those that rewrite
\* headers may die: the index is sorted but when it is about to be cut, every
\* record has its own header, and the status describes the index.
THEOREM HyperSafe ==
  ASSUME HyperBase
  PROVE  MaintSpec => [](MaintIndexSorted /\ OwnHeader /\ StatusAgrees)
  <1>1. HyperInv => MaintIndexSorted /\ OwnHeader /\ StatusAgrees
    <2> SUFFICES ASSUME HyperInv PROVE MaintIndexSorted /\ OwnHeader /\ StatusAgrees
      OBVIOUS
    <2>1. MaintIndexSorted
      <3> SUFFICES ASSUME \A p \in Purgers : pc[p] \notin {"pg_trunc", "mt_trunc"} PROVE Increasing(sid)
        BY DEF MaintIndexSorted
      <3>1. CASE \A p \in Proc : pc[p] \notin Halfway
        BY <3>1 DEF HyperInv, Orderly
      <3>2. ASSUME NEW p \in Proc, pc[p] \in Halfway PROVE Increasing(sid)
        <4>1. pc[p] \notin Cutting
          BY DEF HyperInv, PlaceOf, Cutting
        <4>2. Knows(p)
          BY DEF HyperInv
        <4> QED
          BY <3>2, <4>1, <4>2 DEF Halfway, Cutting, Knows, KnowsAdd, KnowsPurge, KnowsMaint
      <3> QED
        BY <3>1, <3>2
    <2>2. OwnHeader
      BY DEF HyperInv, Own, OwnHeader
    <2>3. StatusAgrees
      <3> SUFFICES ASSUME hdrLock = None PROVE status.total = Len(sid) /\ Below(status.last)
        BY DEF StatusAgrees, Below
      <3>1. \A p \in Proc : pc[p] \notin Halfway
        BY Roles DEF HyperInv, PlaceOf, Free, Halfway
      <3> QED
        BY <3>1 DEF HyperInv, Orderly
    <2> QED
      BY <2>1, <2>2, <2>3
  <1> QED
    BY <1>1, InitHyper, StepHyper, PTL DEF MaintSpec

\* In such a base no message is lost that is not marked, no number is used for
\* a second message, and only the program that has the base locked writes to
\* the index.
THEOREM HyperKeeps ==
  ASSUME HyperBase
  PROVE  MaintSpec => NoMessageLost /\ NumbersNeverReused /\ IndexWrittenUnderLock
  <1>1. HyperInv /\ [MaintNext]_vars => [Sound]_vars
    BY StepHyper
  <1>2. [Sound]_vars => [\A k \in 1..Len(sid) : "delete" \notin sid[k].attr =>
                            \E j \in 1..Len(sid') : sid'[j].num = sid[k].num]_sid
    BY DEF Sound, Marked, vars
  <1>3. [Sound]_vars => [/\ status'.last >= status.last
                         /\ \A j \in 1..Len(sid') :
                              (\A k \in 1..Len(sid) : sid[k].num # sid'[j].num)
                                  => sid'[j].num > status.last]_<<sid, status>>
    BY DEF Sound, vars
  <1>4. [Sound]_vars => [hdrLock # None /\ pc'[hdrLock] # pc[hdrLock]]_sid
    BY DEF Sound, vars
  <1>5. MaintSpec => [][Sound]_vars
    BY <1>1, InitHyper, StepHyper, PTL DEF MaintSpec
  <1> QED
    BY <1>2, <1>3, <1>4, <1>5, PTL DEF NoMessageLost, NumbersNeverReused, IndexWrittenUnderLock

-----------------------------------------------------------------------------
(* Marks.  Only a program that does not read the header again before it     *)
(* rewrites it, sendmail, takes a mark away.                                *)

Sendless == Senders = {}

\* A mark in the index is in the header, and in what a process at work will
\* write to the header or has just written there.
HyperMarks ==
    /\ \A k \in 1..Len(sid) : Marked(sid[k]) => "delete" \in shd[sid[k].slot].attr
    /\ \A p \in Proc :
         /\ pc[p] \in {"puthdr", "putidx"} /\ Marked(sid[msg[p].off + 1]) => "delete" \in msg[p].attr
         /\ pc[p] \in {"putidx", "mt_putidx"} => shd[msg[p].slot].attr = msg[p].attr

Sticks ==
    sid' # sid => \A k \in 1..Len(sid), j \in 1..Len(sid') :
                     sid[k].num = sid'[j].num /\ Marked(sid[k]) => Marked(sid'[j])

\* The place and the message of every process but p stay.
OthersAt(p) == \A q \in Proc \ {p} : pc'[q] = pc[q] /\ msg'[q] = msg[q]

\* Two records of a sorted index with one number are one record.
LEMMA SameRecord ==
  ASSUME HyTypes, Increasing(sid), NEW k \in 1..Len(sid), NEW j \in 1..Len(sid), sid[k].num = sid[j].num
  PROVE  k = j
  <1>1. k \in Nat /\ j \in Nat /\ sid[k].num \in Nat
    BY FileTypes
  <1>2. ~(k < j) /\ ~(j < k)
    BY <1>1 DEF Increasing
  <1> QED
    BY <1>1, <1>2

\* A step that writes neither file keeps the marks.
LEMMA MarksRest ==
  ASSUME HyperMarks, NEW p \in Proc, OthersAt(p), UNCHANGED <<sid, shd>>,
         pc'[p] \notin {"puthdr", "putidx", "mt_putidx"}
  PROVE  HyperMarks' /\ Sticks
  <1>1. ASSUME NEW q \in Proc
        PROVE  /\ pc'[q] \in {"puthdr", "putidx"} /\ Marked(sid'[msg'[q].off + 1]) => "delete" \in msg'[q].attr
               /\ pc'[q] \in {"putidx", "mt_putidx"} => shd'[msg'[q].slot].attr = msg'[q].attr
    BY <1>1 DEF HyperMarks, OthersAt
  <1>2. \A k \in 1..Len(sid') : Marked(sid'[k]) => "delete" \in shd'[sid'[k].slot].attr
    BY DEF HyperMarks
  <1>3. HyperMarks'
    BY <1>1, <1>2 DEF HyperMarks, Marked
  <1> QED
    BY <1>3 DEF Sticks

\* For a process at work it is enough to look at its own message and at the index.
LEMMA MarksAlone ==
  ASSUME HyperInv, NEW p \in Proc, pc[p] \notin Free, OthersAt(p),
         \A k \in 1..Len(sid') : Marked(sid'[k]) => "delete" \in shd'[sid'[k].slot].attr,
         pc'[p] \in {"puthdr", "putidx"} /\ Marked(sid'[msg'[p].off + 1]) => "delete" \in msg'[p].attr,
         pc'[p] \in {"putidx", "mt_putidx"} => shd'[msg'[p].slot].attr = msg'[p].attr
  PROVE  HyperMarks'
  <1>1. \A q \in Proc \ {p} : pc'[q] \notin {"puthdr", "putidx", "mt_putidx"}
    BY AtWork DEF Alone, Free, OthersAt
  <1>2. ASSUME NEW q \in Proc
        PROVE  /\ pc'[q] \in {"puthdr", "putidx"} /\ Marked(sid'[msg'[q].off + 1]) => "delete" \in msg'[q].attr
               /\ pc'[q] \in {"putidx", "mt_putidx"} => shd'[msg'[q].slot].attr = msg'[q].attr
    BY <1>1
  <1> QED
    BY <1>2 DEF HyperMarks, Marked

\* At the start every mark is in both files.
LEMMA InitMarks == ASSUME Init PROVE HyperMarks
  <1>1. PICK n \in 0..InitMsgs : \E marked \in [1..n -> {{}, {"delete"}}] :
        /\ sid = [i \in 1..n |-> [num |-> i, slot |-> i, attr |-> marked[i]]]
        /\ shd = [s \in Slots |-> IF s \in 1..n THEN [num |-> s, attr |-> marked[s]] ELSE NoHdr]
    BY DEF Init
  <1>2. PICK marked \in [1..n -> {{}, {"delete"}}] :
        /\ sid = [i \in 1..n |-> [num |-> i, slot |-> i, attr |-> marked[i]]]
        /\ shd = [s \in Slots |-> IF s \in 1..n THEN [num |-> s, attr |-> marked[s]] ELSE NoHdr]
    BY <1>1
  <1>3. n \in Nat /\ 1..n \subseteq Slots
    <2>1. n <= InitMsgs /\ InitMsgs \in Nat /\ n \in Nat /\ 1..InitMsgs \subseteq Slots
      BY SmbBaseAssumption
    <2> QED
      BY <2>1
  <1>4. Len(sid) = n /\ \A i \in 1..n : sid[i].slot = i /\ sid[i].attr = shd[i].attr
    BY <1>2, <1>3
  <1>5. \A p \in Proc : pc[p] = "idle"
    BY DEF Init
  <1> QED
    BY <1>4, <1>5 DEF HyperMarks, Marked

\* A post writes to a free slot and to the end of the index.
LEMMA PostMarks ==
  ASSUME HyperBase, HyperInv, HyperMarks, Shapes, NEW p \in Posters, AddLock(p) \/ HeaderLock(p) \/ PostStep(p)
  PROVE  HyperMarks' /\ Sticks
  <1>0. p \in Proc /\ HyTypes /\ Own /\ KnowsAdd(p) /\ OthersAt(p)
    BY Roles, PostShapes DEF HyperInv, Knows, OthersAt
  <1>1. pc'[p] \notin {"puthdr", "putidx", "mt_putidx"}
    BY <1>0 DEF HyTypes, Goto, AddLock, HeaderLock, PostStep, AddStatus, AddData, AddDataTimeout, AddHdr, AddAlloc,
       AddAllocTimeout, AddPutHdr, AddPutIdx, AddPutStatus, UndoOpen, UndoOpenTimeout, UndoLock,
       UndoLockTimeout, AfterFailure
  <1>2. CASE AddPutHdr(p)
    <2>1. /\ pc[p] = "add_puthdr" /\ UNCHANGED sid
          /\ shd' = [shd EXCEPT ![msg[p].slot] = [num |-> msg[p].num, attr |-> msg[p].attr]]
      BY <1>2 DEF AddPutHdr
    <2>2. msg[p].slot \in Slots /\ shd[msg[p].slot] = NoHdr
      BY <1>0, <2>1 DEF KnowsAdd
    <2>3. ASSUME NEW k \in 1..Len(sid), Marked(sid[k]) PROVE "delete" \in shd'[sid[k].slot].attr
      <3>1. shd[sid[k].slot].num # 0 /\ sid[k].slot \in Slots
        BY <1>0, FileTypes DEF Own
      <3>2. shd'[sid[k].slot] = shd[sid[k].slot]
        BY <1>0, <2>1, <2>2, <3>1, FileTypes DEF NoHdr
      <3> QED
        BY <2>3, <3>2 DEF HyperMarks
    <2>4. HyperMarks'
      BY <1>0, <1>1, <2>1, <2>3, MarksAlone DEF Free
    <2> QED
      BY <2>1, <2>4 DEF Sticks
  <1>3. CASE AddPutIdx(p)
    <2>1. /\ pc[p] = "add_putidx" /\ UNCHANGED shd
          /\ sid' = PutMsgIdx(sid, msg[p].off, IdxRec(msg[p]))
      BY <1>3 DEF AddPutIdx
    <2>2. msg[p].attr = {} /\ msg[p].num = status.last + 1 /\ msg[p].off = Len(sid)
      BY <1>0, <2>1 DEF KnowsAdd
    <2>3. PICK r : r = IdxRec(msg[p]) /\ r.attr = {} /\ r.num = status.last + 1
      <3>1. PICK n \in {status.last + 1} : n = msg[p].num
        BY <2>2
      <3>2. PICK s \in {msg[p].slot} : TRUE
        OBVIOUS
      <3>3. IdxRec(msg[p]) = [num |-> n, slot |-> s, attr |-> {}]
        BY <2>2, <3>1, <3>2 DEF IdxRec
      <3> QED
        BY <3>1, <3>3
    <2>4. sid' = Append(sid, r)
      BY <1>0, <2>1, <2>2, <2>3, FileTypes DEF PutMsgIdx
    <2>5. /\ Len(sid') = Len(sid) + 1 /\ sid'[Len(sid) + 1] = r
          /\ \A k \in 1..Len(sid) : sid'[k] = sid[k]
          /\ \A k \in 1..Len(sid') : k \in 1..Len(sid) \/ k = Len(sid) + 1
      BY <1>0, <2>4, FileTypes
    <2>6. Orderly
      BY <1>0, <2>1, AtWork DEF Free, Halfway
    <2>7. ASSUME NEW k \in 1..Len(sid'), Marked(sid'[k]) PROVE "delete" \in shd'[sid'[k].slot].attr
      <3>1. k \in 1..Len(sid)
        BY <2>3, <2>5, <2>7 DEF Marked
      <3> QED
        BY <2>1, <2>5, <2>7, <3>1 DEF HyperMarks
    <2>8. HyperMarks'
      BY <1>0, <1>1, <2>1, <2>7, MarksAlone DEF Free
    <2>9. ASSUME NEW k \in 1..Len(sid), NEW j \in 1..Len(sid'), sid[k].num = sid'[j].num, Marked(sid[k])
          PROVE  Marked(sid'[j])
      <3>1. sid[k].num <= status.last /\ sid[k].num \in Nat /\ status.last \in Nat
        BY <1>0, <2>6, FileTypes DEF Orderly, Below
      <3>2. j \in 1..Len(sid)
        BY <2>3, <2>5, <2>9, <3>1
      <3>3. sid'[j] = sid[j] /\ j = k
        BY <1>0, <2>5, <2>6, <2>9, <3>2, SameRecord DEF Orderly
      <3> QED
        BY <2>9, <3>3
    <2> QED
      BY <2>8, <2>9 DEF Sticks
  <1>4. CASE ~(AddPutHdr(p) \/ AddPutIdx(p))
    <2>1. UNCHANGED <<sid, shd>>
      BY <1>4 DEF files, AddLock, HeaderLock, PostStep, AddStatus, AddData, AddDataTimeout, AddHdr, AddAlloc,
         AddAllocTimeout, AddPutStatus, UndoOpen, UndoOpenTimeout, UndoLock, UndoLockTimeout
    <2> QED
      BY <1>0, <1>1, <2>1, MarksRest
  <1> QED
    BY <1>2, <1>3, <1>4

\* The message that a process at work has looked up
LEMMA LookedUp ==
  ASSUME HyperInv, NEW p \in Proc, pc[p] \in {"lockhdr", "puthdr", "putidx", "mt_puthdr", "mt_putidx"}
  PROVE  /\ msg[p].slot \in Slots /\ msg[p].off + 1 \in 1..Len(sid)
         /\ sid[msg[p].off + 1].slot = msg[p].slot /\ shd[msg[p].slot].num = sid[msg[p].off + 1].num
         /\ sid[msg[p].off + 1].num = msg[p].num /\ msg[p].off \in Nat /\ msg[p].off < Len(sid)
         /\ Increasing(sid)
  <1>1. HyTypes /\ Own /\ KnowsMsg(p) /\ Orderly
    BY AtWork DEF HyperInv, Knows, Free, Halfway
  <1>2. msg[p].off \in Nat
    BY <1>1 DEF HyTypes, Msgs
  <1> QED
    BY <1>1, <1>2, FileTypes DEF KnowsMsg, Own, Orderly

\* The header is written as it will be in the index.
LEMMA PutMarks ==
  ASSUME HyperInv, HyperMarks, NEW p \in Proc, OthersAt(p), PutHdr(p) \/ MaintPutHdr(p)
  PROVE  HyperMarks' /\ Sticks
  <1>1. /\ pc[p] \in {"puthdr", "mt_puthdr"} /\ UNCHANGED <<sid, msg>>
        /\ shd' = [shd EXCEPT ![msg[p].slot] = [num |-> msg[p].num, attr |-> msg[p].attr]]
    BY DEF PutHdr, MaintPutHdr, local
  <1>2. /\ msg[p].slot \in Slots /\ msg[p].off + 1 \in 1..Len(sid)
        /\ sid[msg[p].off + 1].slot = msg[p].slot /\ shd[msg[p].slot].num = sid[msg[p].off + 1].num
        /\ Increasing(sid)
    BY <1>1, LookedUp
  <1>3. HyTypes /\ Own /\ KnowsMaint(p)
    BY DEF HyperInv, Knows
  <1>4. Marked(sid[msg[p].off + 1]) => "delete" \in msg[p].attr
    BY <1>1, <1>3 DEF HyperMarks, KnowsMaint
  <1>5. shd'[msg[p].slot].attr = msg[p].attr /\ \A s \in Slots : s # msg[p].slot => shd'[s] = shd[s]
    BY <1>1, <1>2, <1>3, FileTypes
  <1>6. ASSUME NEW k \in 1..Len(sid), Marked(sid[k]) PROVE "delete" \in shd'[sid[k].slot].attr
    <2>1. CASE sid[k].slot = msg[p].slot
      <3>1. k = msg[p].off + 1
        BY <1>2, <1>3, <2>1, SameRecord DEF Own
      <3> QED
        BY <1>4, <1>5, <1>6, <2>1, <3>1
    <2>2. CASE sid[k].slot # msg[p].slot
      BY <1>3, <1>5, <1>6, <2>2, FileTypes DEF HyperMarks
    <2> QED
      BY <2>1, <2>2
  <1>7. HyperMarks'
    <2>1. pc[p] \notin Free
      BY <1>1 DEF Free
    <2>2. \A k \in 1..Len(sid') : Marked(sid'[k]) => "delete" \in shd'[sid'[k].slot].attr
      BY <1>1, <1>6
    <2>3. Marked(sid'[msg'[p].off + 1]) => "delete" \in msg'[p].attr
      BY <1>1, <1>4
    <2>4. shd'[msg'[p].slot].attr = msg'[p].attr
      BY <1>1, <1>5
    <2> QED
      BY <2>1, <2>2, <2>3, <2>4, MarksAlone
  <1> QED
    BY <1>1, <1>7 DEF Sticks

\* The index record is written as the header was.
LEMMA IdxMarks ==
  ASSUME HyperInv, HyperMarks, NEW p \in Proc, OthersAt(p), PutIdx(p) \/ MaintPutIdx(p),
         pc'[p] \notin {"puthdr", "putidx", "mt_putidx"}
  PROVE  HyperMarks' /\ Sticks
  <1>1. /\ pc[p] \in {"putidx", "mt_putidx"} /\ UNCHANGED <<shd, msg>>
        /\ sid' = PutMsgIdx(sid, msg[p].off, IdxRec(msg[p]))
    BY DEF PutIdx, MaintPutIdx, local
  <1>2. HyTypes /\ KnowsMaint(p)
    BY DEF HyperInv, Knows
  <1>3. PICK o \in Nat : o = msg[p].off /\ o < Len(sid)
    BY <1>1, LookedUp
  <1>4. PICK r : r = IdxRec(msg[p]) /\ r.num = msg[p].num /\ r.slot = msg[p].slot /\ r.attr = msg[p].attr
    <2>1. PICK n \in {msg[p].num} : TRUE
      OBVIOUS
    <2>2. PICK s \in {msg[p].slot} : TRUE
      OBVIOUS
    <2>3. PICK a \in {msg[p].attr} : TRUE
      OBVIOUS
    <2>4. IdxRec(msg[p]) = [num |-> n, slot |-> s, attr |-> a]
      BY <2>1, <2>2, <2>3 DEF IdxRec
    <2> QED
      BY <2>1, <2>2, <2>3, <2>4
  <1>5. /\ o + 1 \in 1..Len(sid) /\ sid[o + 1].slot = r.slot /\ sid[o + 1].num = r.num /\ Increasing(sid)
        /\ shd[r.slot].attr = r.attr
        /\ Marked(sid[o + 1]) => Marked(r)
    <2>1. /\ o + 1 \in 1..Len(sid) /\ sid[o + 1].slot = r.slot /\ sid[o + 1].num = r.num /\ Increasing(sid)
      BY <1>1, <1>3, <1>4, LookedUp
    <2>2. shd[r.slot].attr = r.attr
      BY <1>1, <1>4 DEF HyperMarks
    <2>3. Marked(sid[o + 1]) => Marked(r)
      BY <1>1, <1>2, <1>3, <1>4 DEF HyperMarks, KnowsMaint, Marked
    <2> QED
      BY <2>1, <2>2, <2>3
  <1>6. /\ Len(sid') = Len(sid) /\ sid'[o + 1] = r
        /\ \A k \in 1..Len(sid) : k # o + 1 => sid'[k] = sid[k]
    BY <1>1, <1>2, <1>3, <1>4, FileTypes DEF PutMsgIdx
  <1>7. ASSUME NEW k \in 1..Len(sid'), Marked(sid'[k]) PROVE "delete" \in shd'[sid'[k].slot].attr
    <2>1. CASE k = o + 1
      BY <1>1, <1>5, <1>6, <1>7, <2>1 DEF Marked
    <2>2. CASE k # o + 1
      BY <1>1, <1>6, <1>7, <2>2 DEF HyperMarks
    <2> QED
      BY <2>1, <2>2
  <1>8. HyperMarks'
    BY <1>1, <1>7, MarksAlone DEF Free
  <1>9. ASSUME NEW k \in 1..Len(sid), NEW j \in 1..Len(sid'), sid[k].num = sid'[j].num, Marked(sid[k])
        PROVE  Marked(sid'[j])
    <2>1. j \in 1..Len(sid) /\ sid'[j].num = sid[j].num
      BY <1>5, <1>6
    <2>2. j = k
      BY <1>2, <1>5, <1>9, <2>1, SameRecord
    <2> QED
      BY <1>5, <1>6, <1>9, <2>2
  <1> QED
    BY <1>8, <1>9 DEF Sticks

\* A program that rewrites a header adds to the marks it reads.
LEMMA ModifyMarks ==
  ASSUME HyperBase, Sendless, HyperInv, HyperMarks, Shapes, NEW p \in Modifiers,
         UpdateLock(p) \/ SendRead(p) \/ ModifyStep(p)
  PROVE  HyperMarks' /\ Sticks
  <1>0. p \in Proc /\ HyTypes /\ OthersAt(p)
    BY Roles, ModifyShapes DEF HyperInv, OthersAt
  <1>1. CASE PutHdr(p)
    BY <1>0, <1>1, PutMarks
  <1>2. CASE PutIdx(p)
    <2>1. pc'[p] = "unlock"
      BY <1>0, <1>2 DEF PutIdx, Goto, HyTypes
    <2> QED
      BY <1>0, <1>2, <2>1, IdxMarks
  <1>3. CASE LockMsgHdr(p)
    <2>1. /\ pc[p] = "lockhdr" /\ pc'[p] = "puthdr" /\ UNCHANGED <<sid, shd>>
      BY <1>0, <1>3 DEF LockMsgHdr, Goto, HyTypes, files
    <2>2. PICK a \in Attrs : msg' = [msg EXCEPT ![p].num = shd[msg[p].slot].num,
                                               ![p].attr = shd[msg[p].slot].attr \cup {a}]
      BY <1>3 DEF LockMsgHdr, Sendless
    <2>3. PICK n, b : n = shd[msg[p].slot].num /\ b = shd[msg[p].slot].attr \cup {a}
      OBVIOUS
    <2>4. msg' = [msg EXCEPT ![p].num = n, ![p].attr = b]
      BY <2>2, <2>3
    <2>5. msg'[p].off = msg[p].off /\ msg'[p].attr = b
      BY <1>0, <2>4 DEF HyTypes, Msgs
    <2>6. Marked(sid[msg[p].off + 1]) => "delete" \in shd[msg[p].slot].attr
      <3>1. msg[p].off + 1 \in 1..Len(sid) /\ sid[msg[p].off + 1].slot = msg[p].slot
        BY <1>0, <2>1, LookedUp
      <3>2. PICK k \in 1..Len(sid) : k = msg[p].off + 1
        BY <3>1
      <3>3. Marked(sid[k]) => "delete" \in shd[sid[k].slot].attr
        BY DEF HyperMarks
      <3> QED
        BY <3>1, <3>2, <3>3
    <2>7. \A k \in 1..Len(sid') : Marked(sid'[k]) => "delete" \in shd'[sid'[k].slot].attr
      BY <2>1 DEF HyperMarks
    <2>8. Marked(sid'[msg'[p].off + 1]) => "delete" \in msg'[p].attr
      BY <2>1, <2>3, <2>5, <2>6
    <2>9. HyperMarks'
      BY <1>0, <2>1, <2>7, <2>8, MarksAlone DEF Free
    <2> QED
      BY <2>1, <2>9 DEF Sticks
  <1>4. CASE ~(PutHdr(p) \/ PutIdx(p) \/ LockMsgHdr(p))
    <2>1. UNCHANGED <<sid, shd>> /\ pc'[p] \notin {"puthdr", "putidx", "mt_putidx"}
      BY <1>0, <1>4 DEF files, HyTypes, Goto, UpdateLock, SendRead, ModifyStep, SendLock, SendTimeout, GetMsgIdx,
         LockMsgHdrFails
    <2> QED
      BY <1>0, <2>1, MarksRest
  <1> QED
    BY <1>1, <1>2, <1>3, <1>4

\* The index is written over, and cut.
LEMMA WriteMarks ==
  ASSUME HyperInv, HyperMarks, NEW p \in Purgers, OthersAt(p), PurgeWrite(p) \/ MaintWrite(p)
  PROVE  HyperMarks' /\ Sticks
  <1>0. p \in Proc /\ HyTypes
    BY Roles DEF HyperInv
  <1>1. pc[p] \in {"pg_scan", "mt_write"} /\ UNCHANGED shd /\ pc'[p] \in {"pg_trunc", "mt_trunc"}
    BY <1>0 DEF PurgeWrite, MaintWrite, Goto, HyTypes
  <1>2. Increasing(sid) /\ pc[p] \notin Free
    BY <1>0, <1>1, AtWork DEF Free, Halfway, Orderly
  <1>3. \A j \in 1..Len(sid') : \E k \in 1..Len(sid) : sid'[j] = sid[k]
    BY KeptFromIndex
  <1>4. ASSUME NEW j \in 1..Len(sid'), Marked(sid'[j]) PROVE "delete" \in shd'[sid'[j].slot].attr
    BY <1>1, <1>3, <1>4 DEF HyperMarks
  <1>5. HyperMarks'
    BY <1>0, <1>1, <1>2, <1>4, MarksAlone
  <1>6. ASSUME NEW k \in 1..Len(sid), NEW j \in 1..Len(sid'), sid[k].num = sid'[j].num, Marked(sid[k])
        PROVE  Marked(sid'[j])
    <2>1. PICK i \in 1..Len(sid) : sid'[j] = sid[i]
      BY <1>3
    <2>2. i = k
      BY <1>0, <1>2, <1>6, <2>1, SameRecord
    <2> QED
      BY <1>6, <2>1, <2>2
  <1> QED
    BY <1>5, <1>6 DEF Sticks

\* The cut leaves unmarked records only.
LEMMA CutMarks ==
  ASSUME HyperInv, HyperMarks, NEW p \in Purgers, OthersAt(p), PurgeTruncate(p) \/ MaintTruncate(p)
  PROVE  HyperMarks' /\ Sticks
  <1>0. p \in Proc /\ HyTypes
    BY Roles DEF HyperInv
  <1>1. /\ pc[p] \in {"pg_trunc", "mt_trunc"} /\ UNCHANGED shd /\ pc[p] \notin Free
        /\ pc'[p] \in {"pg_putstatus", "mt_putstatus"}
    BY <1>0 DEF PurgeTruncate, MaintTruncate, Goto, HyTypes, Free
  <1>2. \A j \in 1..Len(sid') : /\ j \in 1..Len(sid) /\ sid'[j] = sid[j]
                                /\ \A k \in 1..Len(sid) : Marked(sid[k]) => sid'[j].num # sid[k].num
    BY CutFromIndex
  <1>3. \A j \in 1..Len(sid') : Marked(sid'[j]) => "delete" \in shd'[sid'[j].slot].attr
    BY <1>1, <1>2 DEF HyperMarks
  <1>4. HyperMarks'
    BY <1>0, <1>1, <1>3, MarksAlone
  <1> QED
    BY <1>2, <1>4 DEF Sticks

\* delmail writes the mark it has read to the header, and drops marked records only.
LEMMA PurgeMarks ==
  ASSUME HyperBase, HyperInv, HyperMarks, Shapes, NEW p \in Purgers, PurgeLock(p) \/ PurgeStep(p)
  PROVE  HyperMarks' /\ Sticks
  <1>0. p \in Proc /\ HyTypes /\ OthersAt(p) /\ pc[p] \notin NotHere
    BY Roles, PurgeShapes DEF HyperInv, OthersAt, PlaceOf
  <1>1. pc'[p] \notin {"puthdr", "putidx", "mt_putidx"}
    <2>1. CASE PurgeKeep(p) \/ PurgeDropUnread(p)
      BY <2>1 DEF PurgeKeep, PurgeDropUnread
    <2>2. CASE PurgeDrop(p)
      BY <1>0, <2>2 DEF PurgeDrop, HyTypes, HyperBase, Goto
    <2> QED
      BY <1>0, <2>1, <2>2 DEF HyTypes, Goto, PurgeLock, PurgeStep, PurgeStatus, PurgeOpenDa, PurgeOpenDaTimeout,
         PurgeOpenHa, PurgeFreeDat, PurgeFreeDatTimeout, PurgeFreeHdr, PurgeWrite, PurgeTruncate, PurgePutStatus,
         PurgeClose
  <1>2. CASE PurgeDrop(p)
    <2>1. /\ pc[p] = "pg_scan" /\ UNCHANGED sid /\ pos[p] < Len(sid) /\ Marked(sid[pos[p] + 1])
          /\ shd' = [shd EXCEPT ![sid[pos[p] + 1].slot].attr = sid[pos[p] + 1].attr]
      BY <1>2 DEF PurgeDrop, Scanning, Marked
    <2>2. pos[p] \in Nat /\ pos[p] + 1 \in 1..Len(sid)
      BY <1>0, <2>1, FileTypes DEF HyTypes
    <2>3. PICK r \in IdxRecs : r = sid[pos[p] + 1] /\ "delete" \in r.attr /\ r.slot \in Slots
      BY <1>0, <2>1, <2>2, FileTypes DEF Marked
    <2>4. shd' = [shd EXCEPT ![r.slot].attr = r.attr]
      BY <2>1, <2>3
    <2>5. shd'[r.slot].attr = r.attr /\ \A s \in Slots : s # r.slot => shd'[s] = shd[s]
      BY <1>0, <2>3, <2>4, FileTypes DEF Hdrs
    <2>6. ASSUME NEW k \in 1..Len(sid'), Marked(sid'[k]) PROVE "delete" \in shd'[sid'[k].slot].attr
      <3>1. sid'[k] = sid[k] /\ sid[k].slot \in Slots /\ "delete" \in shd[sid[k].slot].attr
        BY <1>0, <2>1, <2>6, FileTypes DEF HyperMarks
      <3>2. CASE sid[k].slot = r.slot
        BY <2>3, <2>5, <3>1, <3>2
      <3>3. CASE sid[k].slot # r.slot
        BY <2>5, <3>1, <3>3
      <3> QED
        BY <3>2, <3>3
    <2>7. pc[p] \notin Free
      BY <2>1 DEF Free
    <2>8. HyperMarks'
      BY <1>0, <1>1, <2>6, <2>7, MarksAlone
    <2> QED
      BY <2>1, <2>8 DEF Sticks
  <1>3. CASE PurgeWrite(p)
    BY <1>0, <1>3, WriteMarks
  <1>4. CASE PurgeTruncate(p)
    BY <1>0, <1>4, CutMarks
  <1>5. CASE ~(PurgeDrop(p) \/ PurgeWrite(p) \/ PurgeTruncate(p))
    <2>1. ~PurgeFreeHdr(p)
      BY <1>0 DEF PurgeFreeHdr, NotHere
    <2>2. UNCHANGED <<sid, shd>>
      BY <1>5, <2>1 DEF files, PurgeLock, PurgeStep, PurgeStatus, PurgeOpenDa, PurgeOpenDaTimeout, PurgeOpenHa,
         PurgeKeep, PurgeDropUnread, PurgeFreeDat, PurgeFreeDatTimeout, PurgePutStatus, PurgeClose
    <2> QED
      BY <1>0, <1>1, <2>2, MarksRest
  <1> QED
    BY <1>2, <1>3, <1>4, <1>5

\* maint() marks what it has found marked, and drops marked records only.
LEMMA MaintMarks ==
  ASSUME HyperBase, HyperInv, HyperMarks, Shapes, NEW p \in Purgers, MaintLock(p) \/ MaintStep(p)
  PROVE  HyperMarks' /\ Sticks
  <1>0. p \in Proc /\ HyTypes /\ OthersAt(p) /\ pc[p] \notin NotHere
    BY Roles, MaintShapes DEF HyperInv, OthersAt, PlaceOf
  <1>1. CASE MaintPutHdr(p)
    BY <1>0, <1>1, PutMarks
  <1>2. CASE MaintPutIdx(p)
    <2>1. pc' = [pc EXCEPT ![p] = "mt_scan"]
      BY <1>2 DEF MaintPutIdx, HyperBase, Goto
    <2>2. pc'[p] = "mt_scan"
      BY <1>0, <2>1 DEF HyTypes
    <2> QED
      BY <1>0, <1>2, <2>2, IdxMarks
  <1>3. CASE MaintWrite(p)
    BY <1>0, <1>3, WriteMarks
  <1>4. CASE MaintTruncate(p)
    BY <1>0, <1>4, CutMarks
  <1>5. CASE ~(MaintPutHdr(p) \/ MaintPutIdx(p) \/ MaintWrite(p) \/ MaintTruncate(p))
    <2>1. ~MaintFreeHdr(p)
      BY <1>0 DEF MaintFreeHdr, NotHere
    <2>2. UNCHANGED <<sid, shd>>
      BY <1>5, <2>1 DEF files, MaintLock, MaintStep, MaintLoad, MaintOpenDa, MaintOpenDaTimeout, MaintOpenHa,
         MaintFind, MaintLockHdr, MaintLockHdrFails, MaintFreeDat, MaintFreeDatTimeout, MaintScanEnd, MaintClose,
         MaintPutStatus
    <2>3. pc'[p] \notin {"puthdr", "putidx", "mt_putidx"}
      <3>1. CASE MaintFind(p)
        <4>1. pc' = pc \/ pc' = [pc EXCEPT ![p] = "mt_lockhdr"]
          BY <3>1 DEF MaintFind, Goto
        <4>2. pc[p] = "mt_scan"
          BY <3>1 DEF MaintFind
        <4> QED
          BY <1>0, <4>1, <4>2 DEF HyTypes
      <3> QED
        BY <1>0, <1>5, <2>1, <3>1 DEF HyTypes, Goto, MaintLock, MaintStep, MaintLoad, MaintOpenDa, MaintOpenDaTimeout,
           MaintOpenHa, MaintLockHdr, MaintLockHdrFails, MaintFreeDat, MaintFreeDatTimeout, MaintScanEnd, MaintClose,
           MaintPutStatus
    <2> QED
      BY <1>0, <2>2, <2>3, MarksRest
  <1> QED
    BY <1>1, <1>2, <1>3, <1>4, <1>5

\* A call ends, a process dies or reads a header.
LEMMA CommonMarks ==
  ASSUME HyperInv, HyperMarks, NEW p \in Proc,
         Unlock(p) \/ CloseBase(p) \/ UnlockMsgHdr(p) \/ LoadMsg(p) \/ Crash(p)
  PROVE  HyperMarks' /\ Sticks
  <1>0. HyTypes
    BY DEF HyperInv
  <1>1. UNCHANGED <<sid, shd>>
    BY DEF files, Unlock, CloseBase, UnlockMsgHdr, LoadMsg, Crash
  <1>2. /\ \A q \in Proc \ {p} : pc'[q] = pc[q]
        /\ pc'[p] \notin {"puthdr", "putidx", "mt_putidx"}
    BY <1>0 DEF HyTypes, Goto, Unlock, CloseBase, UnlockMsgHdr, LoadMsg, Crash
  <1>3. \A q \in Proc \ {p} : msg'[q] = msg[q]
    <2>1. CASE Unlock(p) \/ UnlockMsgHdr(p) \/ Crash(p)
      <3>1. msg' = [msg EXCEPT ![p] = NoMsg]
        BY <2>1 DEF Unlock, UnlockMsgHdr, Crash, Forget
      <3> QED
        BY <1>0, <3>1 DEF HyTypes
    <2>2. CASE LoadMsg(p)
      <3>1. PICK m : msg' = [msg EXCEPT ![p] = m]
        BY <2>2 DEF LoadMsg
      <3> QED
        BY <1>0, <3>1 DEF HyTypes
    <2>3. CASE CloseBase(p)
      BY <2>3 DEF CloseBase, local
    <2> QED
      BY <2>1, <2>2, <2>3
  <1>4. OthersAt(p)
    BY <1>2, <1>3 DEF OthersAt
  <1> QED
    BY <1>1, <1>2, <1>4, MarksRest

\* Every step keeps the marks.
LEMMA StepMarks ==
  ASSUME HyperBase, Sendless, HyperInv, HyperMarks, LockInv, [MaintNext]_vars
  PROVE  HyperMarks' /\ Sticks
  <1>0. Shapes
    BY DEF LockInv
  <1>1. CASE UNCHANGED vars
    BY <1>1 DEF vars, HyperMarks, Sticks, Marked
  <1>2. ASSUME NEW p \in Proc, Unlock(p) \/ CloseBase(p) \/ UnlockMsgHdr(p) \/ LoadMsg(p) \/ Crash(p)
        PROVE  HyperMarks' /\ Sticks
    BY <1>2, CommonMarks
  <1>3. ASSUME NEW p \in Maintainers, MaintLock(p) \/ MaintStep(p) PROVE HyperMarks' /\ Sticks
    BY <1>0, <1>3, Roles, MaintMarks
  <1>4. ASSUME NEW p \in Proc, Start(p) PROVE HyperMarks' /\ Sticks
    <2>1. p \notin Editors /\ p \notin Senders
      BY DEF HyperBase, Sendless
    <2>2. /\ p \in Adders => p \in Posters
          /\ p \in Headers => p \in Posters
          /\ p \in Updaters => p \in Modifiers
      BY DEF Posters, Modifiers
    <2> QED
      BY <1>0, <1>2, <1>4, <2>1, <2>2, PostMarks, ModifyMarks, PurgeMarks DEF Start
  <1>5. ASSUME NEW p \in Proc, Continue(p) PROVE HyperMarks' /\ Sticks
    BY <1>0, <1>2, <1>5, PostMarks, ModifyMarks, PurgeMarks DEF Continue
  <1> QED
    <2>1. CASE MaintNext
      <3>1. CASE \E p \in Maintainers : MaintLock(p) \/ MaintStep(p) \/ Unlock(p) \/ Crash(p)
        BY <1>2, <1>3, <3>1, Roles
      <3>2. CASE \E p \in Readers : LoadMsg(p) \/ UnlockMsgHdr(p) \/ Crash(p)
        BY <1>2, <3>2, Roles
      <3>3. CASE \E p \in Proc \ (Maintainers \cup Readers) : Start(p) \/ Continue(p) \/ Crash(p)
        BY <1>2, <1>4, <1>5, <3>3
      <3> QED
        BY <2>1, <3>1, <3>2, <3>3 DEF MaintNext
    <2> QED
      BY <1>1, <2>1

\* In such a base that no mail sender rewrites with a header it read before it
\* had the lock, a message marked for deletion stays marked until it is gone.
THEOREM HyperMarksStick ==
  ASSUME HyperBase, Sendless
  PROVE  MaintSpec => MarkSticks
  <1>1. HyperInv /\ HyperMarks /\ LockInv /\ [MaintNext]_vars => HyperMarks' /\ [Sticks]_vars
    BY StepMarks
  <1>2. [Sticks]_vars => [\A k \in 1..Len(sid), j \in 1..Len(sid') :
                            (sid[k].num = sid'[j].num /\ "delete" \in sid[k].attr)
                               => "delete" \in sid'[j].attr]_sid
    BY DEF Sticks, Marked, vars
  <1>3. MaintSpec => [][Sticks]_vars
    BY <1>1, InitHyper, StepHyper, InitMarks, InitLocks, NextLocks, PTL DEF MaintSpec
  <1> QED
    BY <1>2, <1>3, PTL DEF MarkSticks

-----------------------------------------------------------------------------
(* A base without hyper allocation on which one program runs maint().       *)

\* maint() alone purges, it does not die, and the others post or only read.
MaintBase ==
    /\ ~Hyper /\ Modifiers = Readers /\ Purgers = Maintainers
    /\ \A p, q \in Purgers : p = q
    /\ Purgers \cap Crashers = {}

LockedPost == {"add_status", "add_data", "add_hdr", "add_alloc", "add_puthdr", "add_putidx", "add_putstatus"}
PostPlaces == LockedPost \cup {"idle", "unlock", "undo_open", "undo_lock"}
Placed == {"add_alloc", "add_puthdr", "add_putidx"}
Posting == {"add_puthdr", "add_putidx", "add_putstatus"}

AtOne == {"mt_lockhdr", "mt_puthdr", "mt_putidx", "mt_freedat", "mt_freehdr"}
Freeing == AtOne \cup {"mt_scan"}
Taking == Freeing \cup {"mt_da", "mt_ha", "mt_close", "mt_write"}
Working == Taking \cup {"mt_trunc", "mt_putstatus"}
MaintPlaces == Working \cup {"idle", "mt_load", "unlock"}

MaintTypes == HyTypes /\ sha \subseteq Slots /\ shaEnd \in Nat /\ \A s \in sha : s <= shaEnd

\* maint() may have freed the header of record i already
Gone(i) ==
    \E m \in Purgers :
        \/ pc[m] \in Freeing /\ i <= pos[m] /\ Marked(buf[m][i]) /\ ~(i = pos[m] /\ pc[m] \in AtOne)
        \/ pc[m] \in {"mt_close", "mt_write"} /\ i <= Len(buf[m]) /\ Marked(buf[m][i])
        \/ pc[m] = "mt_trunc" /\ Marked(sid[i])

\* Any other record has its header, in a slot that is allocated
OwnRec(i) == sid[i].num >= 1 /\ sid[i].slot \in sha /\ shd[sid[i].slot].num = sid[i].num

Owned == \A i \in 1..Len(sid) : Gone(i) \/ OwnRec(i)

\* No number in use will be given out again
Numbered == \A i \in 1..Len(sid) : i <= status.total => sid[i].num <= status.last

\* c was read from the start of index s, in which records may have been marked since
Taken(c, s) ==
    /\ Len(c) <= Len(s)
    /\ \A k \in 1..Len(c) :
         /\ c[k].num = s[k].num
         /\ IF Marked(c[k]) THEN Marked(s[k]) ELSE c[k] = s[k]

\* What a poster knows ...
PostKnows(p) ==
    /\ pc[p] \in PostPlaces
    /\ pc[p] \in LockedPost => hdrLock = p
    /\ pc[p] \in Posting => \A m \in Purgers : pc[m] \notin MtHa
    /\ pc[p] \in Placed =>
         /\ msg[p].off = st[p].total /\ msg[p].num = st[p].last + 1
         /\ Len(sid) <= st[p].total
         /\ Len(sid) = st[p].total => status = st[p]
         /\ \A i \in 1..Len(sid) : sid[i].num <= st[p].last
    /\ pc[p] \in {"add_puthdr", "add_putidx"} => msg[p].slot \in sha
    /\ pc[p] = "add_puthdr" =>
         \A i \in 1..Len(sid) : sid[i].slot = msg[p].slot => Gone(i)
    /\ pc[p] = "add_putidx" => shd[msg[p].slot].num = msg[p].num
    /\ pc[p] = "add_putstatus" => \A i \in 1..Len(sid) : sid[i].num <= st[p].last + 1
    /\ pc[p] \in Placed \cup {"add_putstatus"} =>
         \A m \in Purgers : pc[m] \in Working =>
            st[m].last <= st[p].last /\ Len(buf[m]) <= st[p].total

\* ... and what maint() knows
Cut(b, s) == Len(b) <= Len(s) /\ \A i \in 1..Len(b) : s[i] = b[i]

MaintKnows(m) ==
    /\ pc[m] \in MaintPlaces
    /\ pc[m] \in {"mt_load", "mt_da", "mt_ha"} => hdrLock = m
    /\ pc[m] \in MtHa => haLock = m
    /\ pc[m] \in {"idle", "mt_load", "mt_da", "mt_ha"} => pos[m] = 0
    /\ pc[m] \in Working =>
         /\ st[m].last <= status.last /\ Len(buf[m]) <= status.total /\ Len(buf[m]) <= st[m].total
         /\ Increasing(buf[m]) /\ Kept(buf[m]) # buf[m]
         /\ \A i \in 1..Len(buf[m]) : buf[m][i].num <= st[m].last
    /\ pc[m] \in Taking => Taken(buf[m], sid)
    /\ pc[m] \in Freeing => pos[m] <= Len(buf[m])
    /\ pc[m] \in AtOne => pos[m] >= 1 /\ Marked(buf[m][pos[m]]) /\ msg[m].slot = sid[pos[m]].slot
    /\ pc[m] \in {"mt_lockhdr", "mt_puthdr", "mt_putidx"} =>
         msg[m].off = pos[m] - 1 /\ msg[m].num = sid[pos[m]].num
    /\ pc[m] \in {"mt_puthdr", "mt_putidx"} => "delete" \in msg[m].attr
    /\ pc[m] = "mt_trunc" => Cut(Kept(buf[m]), sid)
    /\ pc[m] = "mt_putstatus" => sid = Kept(buf[m])

FreeInv ==
    /\ MaintTypes /\ Owned /\ Numbered /\ MaintIndexSorted
    /\ \A p \in Posters : PostKnows(p)
    /\ \A m \in Purgers : MaintKnows(m)

-----------------------------------------------------------------------------
(* What the invariant says of the index, and what the loop keeps of buf.    *)

\* Who is who in such a base
LEMMA MaintRoles ==
  ASSUME MaintBase
  PROVE  /\ None \notin Proc
         /\ \A p \in Posters : p \in Proc /\ p \notin Readers /\ p \notin Purgers
         /\ \A p \in Readers : p \in Proc /\ p \notin Posters /\ p \notin Purgers
         /\ \A p \in Purgers : p \in Proc /\ p \in Maintainers /\ p \notin Posters /\ p \notin Readers /\ p \notin Crashers
         /\ \A p \in Proc : p \in Posters \/ p \in Readers \/ p \in Purgers
         /\ \A p, q \in Purgers : p = q
         /\ Senders \subseteq Readers /\ Editors \subseteq Readers /\ Updaters \subseteq Readers
  BY SmbBaseAssumption DEF MaintBase, Modifiers, Posters, Proc

\* When every record is kept, the index stays as it is: otherwise it gets shorter.
LEMMA KeptShorter ==
  ASSUME NEW s \in Seq(IdxRecs), Kept(s) # s
  PROVE  Len(Kept(s)) \in Nat /\ Len(Kept(s)) < Len(s)
  <1> DEFINE b == Kept(s)
  <1>1. KeepsTo(b, s, Len(s))
    BY KeptTo
  <1>2. b # s
    OBVIOUS
  <1> HIDE DEF b
  <1>3. b \in Seq(IdxRecs) /\ Len(b) \in Nat /\ Len(s) \in Nat /\ Len(b) <= Len(s)
    BY <1>1 DEF KeepsTo
  <1>4. CASE Len(b) = Len(s)
    <2>1. \A k \in 1..Len(s) : b[k] = s[k]
      BY <1>1, <1>4 DEF KeepsTo
    <2>2. b = s
      BY <1>3, <1>4, <2>1
    <2> QED
      BY <1>2, <2>2
  <1>5. CASE Len(b) # Len(s)
    BY <1>3, <1>5 DEF b
  <1> QED
    BY <1>4, <1>5

\* The numbers of two records are equal only if they are the same record.
LEMMA SameNumber ==
  ASSUME NEW s \in Seq(IdxRecs), Increasing(s), NEW i \in 1..Len(s), NEW j \in 1..Len(s), s[i].num = s[j].num
  PROVE  i = j
  <1>1. s[i] \in IdxRecs /\ s[j] \in IdxRecs /\ i \in Nat /\ j \in Nat
    OBVIOUS
  <1>2. s[i].num \in Nat
    BY <1>1 DEF IdxRecs
  <1>3. ~(i < j) /\ ~(j < i)
    BY <1>2 DEF Increasing
  <1> QED
    BY <1>1, <1>3

\* A record whose header maint() has freed is marked.
LEMMA GoneMarked ==
  ASSUME MaintTypes, \A m \in Purgers : MaintKnows(m), NEW i \in 1..Len(sid), Gone(i)
  PROVE  Marked(sid[i])
  <1>1. PICK m \in Purgers :
          \/ pc[m] \in Freeing /\ i <= pos[m] /\ Marked(buf[m][i]) /\ ~(i = pos[m] /\ pc[m] \in AtOne)
          \/ pc[m] \in {"mt_close", "mt_write"} /\ i <= Len(buf[m]) /\ Marked(buf[m][i])
          \/ pc[m] = "mt_trunc" /\ Marked(sid[i])
    BY DEF Gone
  <1>2. MaintKnows(m)
    OBVIOUS
  <1>3. m \in Proc /\ pos[m] \in Nat /\ buf[m] \in Seq(IdxRecs) /\ Len(buf[m]) \in Nat
    BY DEF MaintTypes, HyTypes, Proc
  <1>4. CASE pc[m] \in Freeing /\ i <= pos[m] /\ Marked(buf[m][i])
    <2>1. Taken(buf[m], sid) /\ pos[m] <= Len(buf[m])
      BY <1>2, <1>4 DEF MaintKnows, Taking
    <2>2. i \in 1..Len(buf[m])
      BY <1>3, <1>4, <2>1
    <2> QED
      BY <1>4, <2>1, <2>2 DEF Taken
  <1>5. CASE pc[m] \in {"mt_close", "mt_write"} /\ i <= Len(buf[m]) /\ Marked(buf[m][i])
    <2>1. Taken(buf[m], sid)
      BY <1>2, <1>5 DEF MaintKnows, Taking
    <2>2. i \in 1..Len(buf[m])
      BY <1>3, <1>5
    <2> QED
      BY <1>5, <2>1, <2>2 DEF Taken
  <1> QED
    BY <1>1, <1>4, <1>5

\* The invariant gives every record that is not marked its own header.
LEMMA FreeKept ==
  ASSUME FreeInv
  PROVE  KeptHasHeader /\ MaintIndexSorted
  <1>1. ASSUME NEW k \in 1..Len(sid) PROVE Marked(sid[k]) \/ shd[sid[k].slot].num = sid[k].num
    <2>1. Gone(k) \/ OwnRec(k)
      BY DEF FreeInv, Owned
    <2>2. Gone(k) => Marked(sid[k])
      BY GoneMarked DEF FreeInv
    <2> QED
      BY <2>1, <2>2 DEF OwnRec
  <1> QED
    BY <1>1 DEF KeptHasHeader, FreeInv

\* What the invariant says while maint() is at work
LEMMA KeptRecords ==
  ASSUME MaintTypes, NEW m \in Purgers, MaintKnows(m), pc[m] \in Working
  PROVE  /\ buf[m] \in Seq(IdxRecs) /\ Len(buf[m]) \in Nat /\ Increasing(buf[m])
         /\ Kept(buf[m]) \in Seq(IdxRecs) /\ Len(Kept(buf[m])) \in Nat /\ Len(Kept(buf[m])) < Len(buf[m])
         /\ Keeps(Kept(buf[m]), buf[m])
         /\ st[m].last \in Nat /\ st[m].total \in Nat
  <1>1. m \in Proc /\ buf[m] \in Seq(IdxRecs) /\ st[m] \in Statuses
    BY DEF MaintTypes, HyTypes, Proc
  <1>2. PICK c \in Seq(IdxRecs) : c = buf[m]
    BY <1>1
  <1>3. Increasing(c) /\ Kept(c) # c
    BY <1>2 DEF MaintKnows
  <1>4. Kept(c) \in Seq(IdxRecs) /\ Keeps(Kept(c), c)
    BY <1>3, KeptKeeps
  <1>5. Len(Kept(c)) \in Nat /\ Len(Kept(c)) < Len(c)
    BY <1>3, KeptShorter
  <1> QED
    BY <1>1, <1>2, <1>3, <1>4, <1>5 DEF Statuses

\* Every record kept of what was read is a record of the index that is not marked.
LEMMA KeptOfTaken ==
  ASSUME NEW c \in Seq(IdxRecs), NEW s \in Seq(IdxRecs), NEW b, Keeps(b, c), Taken(c, s), NEW i \in 1..Len(b)
  PROVE  ~Marked(b[i]) /\ \E k \in 1..Len(c) : k \in 1..Len(s) /\ b[i] = s[k] /\ b[i] = c[k]
  <1>1. ~Marked(b[i]) /\ \E k \in 1..Len(c) : b[i] = c[k]
    BY DEF Keeps
  <1>2. PICK k \in 1..Len(c) : b[i] = c[k]
    BY <1>1
  <1>3. Len(c) \in Nat /\ Len(s) \in Nat /\ Len(c) <= Len(s)
    BY DEF Taken
  <1>4. k \in 1..Len(s)
    BY <1>3
  <1>5. c[k] = s[k]
    BY <1>1, <1>2 DEF Taken
  <1> QED
    BY <1>1, <1>2, <1>4, <1>5

\* The invariant holds of a base that nobody uses yet.
LEMMA InitFree == ASSUME MaintBase, Init PROVE FreeInv
  <1>1. HyTypes /\ Own /\ Orderly
    <2>1. HyperInv /\ \A p \in Proc : pc[p] \notin Halfway
      BY InitHyper DEF Init, Halfway
    <2> QED
      BY <2>1 DEF HyperInv
  <1>2. PICK n \in 0..InitMsgs : \E marked \in [1..n -> {{}, {"delete"}}] :
          /\ sid = [i \in 1..n |-> [num |-> i, slot |-> i, attr |-> marked[i]]]
          /\ sha = 1..n /\ shaEnd = n
    BY DEF Init
  <1>3. n \in Nat /\ 1..n \subseteq Slots /\ Len(sid) = n /\ \A i \in 1..n : sid[i].slot = i
    <2>1. n \in Nat /\ n <= InitMsgs /\ InitMsgs \in Nat /\ 1..InitMsgs \subseteq Slots
      BY SmbBaseAssumption
    <2> QED
      BY <1>2, <2>1
  <1>4. MaintTypes
    BY <1>1, <1>2, <1>3 DEF MaintTypes
  <1>5. Owned
    BY <1>1, <1>2, <1>3 DEF Own, Owned, OwnRec
  <1>6. Numbered /\ Increasing(sid)
    BY <1>1 DEF Orderly, Below, Numbered
  <1>7. \A p \in Proc : pc[p] = "idle" /\ pos[p] = 0
    BY DEF Init
  <1>8. \A p \in Posters : PostKnows(p)
    BY <1>7, MaintRoles DEF PostKnows, PostPlaces, LockedPost, Placed, Posting
  <1>9. \A m \in Purgers : MaintKnows(m)
    BY <1>7, MaintRoles DEF MaintKnows, MaintPlaces, Working, Taking, Freeing, AtOne, MtHa
  <1> QED
    BY <1>4, <1>5, <1>6, <1>8, <1>9 DEF FreeInv, MaintIndexSorted

-----------------------------------------------------------------------------
(* Steps that leave the files alone.                                        *)

\* A poster or a reader: what the others know stays true.
LEMMA FreeBeside ==
  ASSUME MaintBase, FreeInv, NEW p \in Proc, p \notin Purgers, Others(p), UNCHANGED files, MaintTypes',
         p \in Posters => PostKnows(p)',
         \A q \in Proc \ {p} : (hdrLock = q => hdrLock' = q) /\ (haLock = q => haLock' = q)
  PROVE  FreeInv'
  <1>1. UNCHANGED <<status, sid, shd, sha, shaEnd>>
    BY DEF files
  <1>2. \A m \in Purgers : /\ m \in Proc \ {p} /\ pc'[m] = pc[m] /\ st'[m] = st[m] /\ msg'[m] = msg[m]
                           /\ buf'[m] = buf[m] /\ pos'[m] = pos[m]
                           /\ (hdrLock = m => hdrLock' = m) /\ (haLock = m => haLock' = m)
    BY MaintRoles DEF Others
  <1>3. \A i : Gone(i) => Gone(i)'
    BY <1>1, <1>2 DEF Gone
  <1>4. Owned'
    BY <1>1, <1>3 DEF FreeInv, Owned, OwnRec
  <1>5. Numbered' /\ MaintIndexSorted'
    BY <1>1, <1>2 DEF FreeInv, Numbered, MaintIndexSorted, Increasing
  <1>6. ASSUME NEW m \in Purgers PROVE MaintKnows(m)'
    <2>1. MaintKnows(m)
      BY DEF FreeInv
    <2>2. PICK c, d : c = buf[m] /\ d = buf'[m] /\ d = c
      BY <1>2
    <2> QED
      BY <1>1, <1>2, <2>1 DEF MaintKnows, Increasing, Taken, Cut
  <1>7. ASSUME NEW q \in Posters, q # p PROVE PostKnows(q)'
    <2>1. /\ pc'[q] = pc[q] /\ st'[q] = st[q] /\ msg'[q] = msg[q] /\ (hdrLock = q => hdrLock' = q)
      BY <1>7, MaintRoles DEF Others
    <2>2. PostKnows(q)
      BY DEF FreeInv
    <2> QED
      BY <1>1, <1>2, <1>3, <2>1, <2>2 DEF PostKnows
  <1> QED
    BY <1>4, <1>5, <1>6, <1>7 DEF FreeInv

\* maint(): the posters do not mind that it has freed more, and it begins its
\* work with the lock on the base.
LEMMA MaintBeside ==
  ASSUME MaintBase, FreeInv, NEW m \in Purgers, Others(m), UNCHANGED files, MaintTypes', MaintKnows(m)',
         \A q \in Proc \ {m} : hdrLock = q => hdrLock' = q,
         \A i \in 1..Len(sid) : Gone(i) => Gone(i)',
         pc[m] # "mt_trunc",
         \/ hdrLock = m
         \/ /\ pc'[m] \in Working => pc[m] \in Working /\ st'[m] = st[m] /\ buf'[m] = buf[m]
            /\ pc'[m] \in MtHa => pc[m] \in MtHa
  PROVE  FreeInv'
  <1>1. UNCHANGED <<status, sid, shd, sha, shaEnd>>
    BY DEF files
  <1>2. \A n \in Purgers : n = m
    BY MaintRoles
  <1>3. Owned'
    BY <1>1 DEF FreeInv, Owned, OwnRec
  <1>4. Numbered'
    BY <1>1 DEF FreeInv, Numbered
  <1>5. MaintIndexSorted'
    <2>1. pc[m] # "pg_trunc"
      BY DEF FreeInv, MaintKnows, MaintPlaces, Working, Taking, Freeing, AtOne
    <2>2. Increasing(sid)
      BY <1>2, <2>1 DEF FreeInv, MaintIndexSorted
    <2> QED
      BY <1>1, <2>2 DEF MaintIndexSorted, Increasing
  <1>6. ASSUME NEW q \in Posters PROVE PostKnows(q)'
    <2>1. /\ q \in Proc /\ q # m /\ pc'[q] = pc[q] /\ st'[q] = st[q] /\ msg'[q] = msg[q]
          /\ (hdrLock = q => hdrLock' = q)
      BY MaintRoles DEF Others
    <2>2. PostKnows(q)
      BY DEF FreeInv
    <2>3. CASE hdrLock = m
      <3>1. pc[q] \notin LockedPost
        BY <2>1, <2>2, <2>3 DEF PostKnows
      <3> QED
        BY <2>1, <2>2, <3>1 DEF PostKnows, LockedPost, Placed, Posting
    <2>4. CASE hdrLock # m
      BY <1>1, <1>2, <2>1, <2>2, <2>4 DEF PostKnows
    <2> QED
      BY <2>3, <2>4
  <1> QED
    BY <1>2, <1>3, <1>4, <1>5, <1>6 DEF FreeInv

\* The steps of a post that write no file
LEMMA PosterWork ==
  ASSUME MaintBase, FreeInv, NEW p \in Posters,
         \/ AddLock(p) \/ HeaderLock(p) \/ AddStatus(p) \/ AddData(p) \/ AddDataTimeout(p) \/ AddHdr(p)
         \/ AddAllocTimeout(p) \/ UndoOpen(p) \/ UndoOpenTimeout(p) \/ UndoLock(p) \/ UndoLockTimeout(p)
  PROVE  FreeInv'
  <1>0. p \in Proc /\ p \notin Purgers /\ None \notin Proc
    BY MaintRoles
  <1>1. MaintTypes /\ HyTypes /\ PostKnows(p)
    BY DEF FreeInv, MaintTypes
  <1>2. UNCHANGED <<status, sid, shd, sha, shaEnd, buf, pos>> /\ haLock' = haLock
    BY DEF files, local, locks, AddLock, HeaderLock, AddStatus, AddData, AddDataTimeout, AddHdr, AddAllocTimeout,
       UndoOpen, UndoOpenTimeout, UndoLock, UndoLockTimeout
  <1>3. /\ pc' = [q \in Proc |-> pc'[q]] /\ \A q \in Proc \ {p} : pc'[q] = pc[q]
        /\ pc'[p] \in PostPlaces
    BY <1>0, <1>1 DEF HyTypes, Goto, PostPlaces, LockedPost, AddLock, HeaderLock, AddStatus, AddData, AddDataTimeout, AddHdr,
       AddAllocTimeout, UndoOpen, UndoOpenTimeout, UndoLock, UndoLockTimeout, AfterFailure
  <1>4. pc[p] \in {"add_status", "add_data", "add_hdr", "add_alloc"} => hdrLock = p
    BY <1>1 DEF PostKnows, LockedPost
  <1>5. \A q \in Proc \ {p} : hdrLock = q => hdrLock' = q
    BY <1>0, <1>4 DEF locks, AddLock, HeaderLock, AddStatus, AddData, AddDataTimeout, AddHdr, AddAllocTimeout,
       UndoOpen, UndoOpenTimeout, UndoLock, UndoLockTimeout
  <1>6. pc'[p] \in LockedPost => hdrLock' = p /\ pc'[p] \in {"add_status", "add_data", "add_hdr", "add_alloc"}
    BY <1>0, <1>1, <1>4 DEF HyTypes, Goto, LockedPost, locks, AddLock, HeaderLock, AddStatus, AddData, AddDataTimeout, AddHdr,
       AddAllocTimeout, UndoOpen, UndoOpenTimeout, UndoLock, UndoLockTimeout, AfterFailure
  <1>7. status \in Statuses /\ status.last \in Nat /\ status.total \in Nat /\ status.last + 1 \in Nat
    BY <1>1, FileTypes
  <1>8. \/ msg' = msg
        \/ msg' = [msg EXCEPT ![p] = NewMsg(status.last + 1, 0, 0)]
        \/ msg' = [msg EXCEPT ![p] = NewMsg(status.last + 1, 0, status.total)]
    BY DEF local, AddLock, HeaderLock, AddStatus, AddData, AddDataTimeout, AddHdr, AddAllocTimeout,
       UndoOpen, UndoOpenTimeout, UndoLock, UndoLockTimeout
  <1>9. st' \in [Proc -> Statuses] /\ \A q \in Proc \ {p} : st'[q] = st[q]
    <2>1. st' = st \/ st' = [st EXCEPT ![p] = status]
      BY DEF local, AddLock, HeaderLock, AddStatus, AddData, AddDataTimeout, AddHdr, AddAllocTimeout,
         UndoOpen, UndoOpenTimeout, UndoLock, UndoLockTimeout
    <2>2. st \in [Proc -> Statuses]
      BY <1>1 DEF HyTypes
    <2>3. CASE st' = st
      BY <2>2, <2>3
    <2>4. CASE st' = [st EXCEPT ![p] = status]
      BY <1>0, <1>7, <2>2, <2>4
    <2> QED
      BY <2>1, <2>3, <2>4
  <1>10. msg' \in [Proc -> Msgs] /\ \A q \in Proc \ {p} : msg'[q] = msg[q]
    <2>1. CASE msg' = msg
      BY <1>1, <2>1 DEF HyTypes
    <2>2. ASSUME NEW n \in Nat, NEW o \in Nat, msg' = [msg EXCEPT ![p] = NewMsg(n, 0, o)]
          PROVE  msg' \in [Proc -> Msgs] /\ \A q \in Proc \ {p} : msg'[q] = msg[q]
      <3>1. PICK s \in Slots \cup {0} : s = 0
        OBVIOUS
      <3> QED
        BY <1>0, <1>1, <2>2, <3>1, NewMsgs
    <2>3. 0 \in Nat
      OBVIOUS
    <2> QED
      BY <1>7, <1>8, <2>1, <2>2, <2>3
  <1>11. MaintTypes' /\ Others(p)
    BY <1>1, <1>2, <1>3, <1>9, <1>10 DEF MaintTypes, HyTypes, Others
  <1>12. pc'[p] = "add_alloc" =>
           /\ st'[p] = status /\ msg'[p].off = status.total /\ msg'[p].num = status.last + 1
           /\ Len(sid) = status.total
    <2>1. SUFFICES ASSUME pc'[p] = "add_alloc"
                   PROVE  /\ st'[p] = status /\ msg'[p].off = status.total /\ msg'[p].num = status.last + 1
                          /\ Len(sid) = status.total
      OBVIOUS
    <2>2. AddHdr(p)
      BY <1>0, <1>1, <2>1 DEF HyTypes, Goto, AddLock, HeaderLock, AddStatus, AddData, AddDataTimeout, AddHdr,
         AddAllocTimeout, UndoOpen, UndoOpenTimeout, UndoLock, UndoLockTimeout, AfterFailure
    <2>3. st'[p] = status
      BY <1>0, <1>1, <2>2 DEF AddHdr, HyTypes
    <2>4. Len(sid) = status.total /\ msg' = [msg EXCEPT ![p] = NewMsg(status.last + 1, 0, status.total)]
      BY <1>0, <1>1, <2>1, <2>2 DEF AddHdr, HyTypes, Goto, AfterFailure
    <2>5. msg'[p] = NewMsg(status.last + 1, 0, status.total)
      BY <1>0, <1>1, <2>4 DEF HyTypes
    <2> QED
      BY <2>3, <2>4, <2>5 DEF NewMsg
  <1>13. pc'[p] = "add_alloc" => PostKnows(p)'
    <2>1. SUFFICES ASSUME pc'[p] = "add_alloc" PROVE PostKnows(p)'
      OBVIOUS
    <2>2. \A i \in 1..Len(sid) : sid[i].num <= status.last
      <3>1. \A i \in 1..Len(sid) : i <= status.total
        BY <1>7, <1>12, <2>1
      <3> QED
        BY <3>1 DEF FreeInv, Numbered
    <2>3. \A m \in Purgers : pc'[m] \in Working => st'[m].last <= status.last /\ Len(buf'[m]) <= status.total
      <3>1. \A m \in Purgers : m \in Proc \ {p} /\ MaintKnows(m)
        BY MaintRoles DEF FreeInv
      <3> QED
        BY <1>2, <1>3, <1>9, <3>1 DEF MaintKnows
    <2>4. Len(sid) <= status.total
      BY <1>7, <1>12, <2>1
    <2> QED
      BY <1>2, <1>3, <1>6, <1>12, <2>1, <2>2, <2>3, <2>4 DEF PostKnows, LockedPost, Placed, Posting
  <1>14. pc'[p] # "add_alloc" => PostKnows(p)'
    BY <1>3, <1>6 DEF PostKnows, LockedPost, Placed, Posting
  <1> QED
    BY <1>0, <1>2, <1>5, <1>11, <1>13, <1>14, FreeBeside DEF files

\* A call returns, its process dies, or a header is read without the base lock.
LEMMA OutsideWork ==
  ASSUME MaintBase, FreeInv, NEW p \in Proc, p \notin Purgers,
         Unlock(p) \/ CloseBase(p) \/ Crash(p) \/ (p \in Readers /\ LoadMsg(p)) \/ UnlockMsgHdr(p)
  PROVE  FreeInv'
  <1>1. MaintTypes /\ HyTypes
    BY DEF FreeInv, MaintTypes
  <1>2. UNCHANGED <<status, sid, shd, sha, shaEnd>>
    BY DEF files, Unlock, CloseBase, Crash, LoadMsg, UnlockMsgHdr
  <1>3. /\ pc' = [q \in Proc |-> pc'[q]] /\ \A q \in Proc \ {p} : pc'[q] = pc[q]
        /\ pc'[p] \in {"idle", "loaded"} /\ (p \in Posters => pc'[p] = "idle")
    BY <1>1, MaintRoles DEF HyTypes, Goto, Unlock, CloseBase, Crash, LoadMsg, UnlockMsgHdr
  <1>4. \A q \in Proc \ {p} : (hdrLock = q => hdrLock' = q) /\ (haLock = q => haLock' = q)
    BY DEF Unlock, CloseBase, Crash, LoadMsg, UnlockMsgHdr
  <1>5. /\ st' \in [Proc -> Statuses] /\ buf' \in [Proc -> Seq(IdxRecs)] /\ pos' \in [Proc -> Nat]
        /\ \A q \in Proc \ {p} : st'[q] = st[q] /\ buf'[q] = buf[q] /\ pos'[q] = pos[q]
    <2>1. CASE UNCHANGED <<st, buf, pos>>
      BY <1>1, <2>1 DEF HyTypes
    <2>2. CASE Forget(p)
      BY <1>1, <2>2 DEF HyTypes, Forget, NoStatus, Statuses
    <2> QED
      BY <2>1, <2>2 DEF Unlock, CloseBase, Crash, LoadMsg, UnlockMsgHdr, local
  <1>6. msg' \in [Proc -> Msgs] /\ \A q \in Proc \ {p} : msg'[q] = msg[q]
    <2>1. CASE msg' = msg
      BY <1>1, <2>1 DEF HyTypes
    <2>2. CASE Forget(p)
      BY <1>1, <2>2 DEF HyTypes, Forget, NoMsg, NewMsg, Msgs
    <2>3. CASE LoadMsg(p)
      <3>1. PICK k \in 1..Len(sid) : msg' = [msg EXCEPT ![p] = NewMsg(sid[k].num, sid[k].slot, k - 1)]
        BY <2>3 DEF LoadMsg
      <3>2. PICK n \in Nat, s \in Slots \cup {0}, o \in Nat : n = sid[k].num /\ s = sid[k].slot /\ o = k - 1
        BY <1>1, FileTypes
      <3> QED
        BY <1>1, <3>1, <3>2, NewMsgs
    <2> QED
      BY <2>1, <2>2, <2>3 DEF Unlock, CloseBase, Crash, LoadMsg, UnlockMsgHdr, local
  <1>7. MaintTypes' /\ Others(p)
    BY <1>1, <1>2, <1>3, <1>5, <1>6 DEF MaintTypes, HyTypes, Others
  <1>8. pc'[p] = "idle" => PostKnows(p)'
    BY <1>3 DEF PostKnows, PostPlaces, LockedPost, Placed, Posting
  <1> QED
    BY <1>2, <1>3, <1>4, <1>7, <1>8, FreeBeside DEF files

\* The steps of maint() that change locks only
LEMMA MaintWaits ==
  ASSUME MaintBase, FreeInv, NEW m \in Purgers,
         \/ MaintLock(m) \/ MaintOpenDa(m) \/ MaintOpenDaTimeout(m) \/ MaintOpenHa(m) \/ MaintLockHdrFails(m)
         \/ MaintFreeDat(m) \/ MaintFreeDatTimeout(m) \/ MaintScanEnd(m) \/ MaintClose(m)
  PROVE  FreeInv'
  <1>0. m \in Proc /\ None \notin Proc
    BY MaintRoles
  <1>1. MaintTypes /\ HyTypes /\ MaintKnows(m)
    BY DEF FreeInv, MaintTypes
  <1>2. UNCHANGED <<status, sid, shd, sha, shaEnd, st, msg, buf, pos>>
    BY DEF files, local, MaintLock, MaintOpenDa, MaintOpenDaTimeout, MaintOpenHa, MaintLockHdrFails, MaintFreeDat,
       MaintFreeDatTimeout, MaintScanEnd, MaintClose
  <1>3. /\ pc' = [q \in Proc |-> pc'[q]] /\ \A q \in Proc \ {m} : pc'[q] = pc[q]
        /\ \/ pc[m] = "idle" /\ pc'[m] = "mt_load" /\ hdrLock' = m
           \/ pc[m] = "mt_da" /\ pc'[m] \in {"mt_ha", "unlock"} /\ hdrLock' = hdrLock
           \/ pc[m] = "mt_ha" /\ pc'[m] = "mt_scan" /\ haLock' = m
           \/ pc[m] \in {"mt_lockhdr", "mt_freedat", "mt_scan"} /\ pc'[m] = "mt_close" /\ haLock' = haLock
           \/ pc[m] = "mt_freedat" /\ pc'[m] = "mt_freehdr" /\ haLock' = haLock
           \/ pc[m] = "mt_close" /\ pc'[m] = "mt_write"
    BY <1>0, <1>1 DEF HyTypes, Goto, locks, MaintLock, MaintOpenDa, MaintOpenDaTimeout, MaintOpenHa, MaintLockHdrFails,
       MaintFreeDat, MaintFreeDatTimeout, MaintScanEnd, MaintClose
  <1>4. MaintTypes' /\ Others(m)
    BY <1>1, <1>2, <1>3 DEF MaintTypes, HyTypes, Others
  <1>5. \A q \in Proc \ {m} : hdrLock = q => hdrLock' = q
    BY <1>0 DEF locks, MaintLock, MaintOpenDa, MaintOpenDaTimeout, MaintOpenHa, MaintLockHdrFails, MaintFreeDat,
       MaintFreeDatTimeout, MaintScanEnd, MaintClose
  <1>6. \A i \in 1..Len(sid) : Gone(i) => Gone(i)'
    <2>1. SUFFICES ASSUME NEW i \in 1..Len(sid), Gone(i) PROVE Gone(i)'
      OBVIOUS
    <2>2. /\ (pc[m] \in Freeing /\ i <= pos[m]) \/ pc[m] \in {"mt_close", "mt_write"}
          /\ pc[m] \in Freeing => ~(i = pos[m] /\ pc[m] \in AtOne)
          /\ Marked(buf[m][i])
          /\ pc[m] \in {"mt_close", "mt_write"} => i <= Len(buf[m])
      <3>1. pc[m] # "mt_trunc"
        BY <1>3
      <3>2. \A n \in Purgers : n = m
        BY MaintRoles
      <3> QED
        BY <2>1, <3>1, <3>2 DEF Gone, Freeing, AtOne
    <2>3. pc[m] \in Freeing => pos[m] <= Len(buf[m])
      BY <1>1 DEF MaintKnows
    <2>4. pos[m] \in Nat /\ Len(buf[m]) \in Nat /\ i \in Nat
      BY <1>0, <1>1 DEF HyTypes
    <2>5. pc[m] \in Freeing => i <= Len(buf[m])
      BY <2>2, <2>3, <2>4 DEF Freeing, AtOne
    <2>6. pc'[m] \in {"mt_close", "mt_write"} \/ (pc'[m] = "mt_freehdr" /\ pc[m] = "mt_freedat")
      BY <1>3, <2>2 DEF Freeing, AtOne
    <2> QED
      BY <1>2, <2>2, <2>5, <2>6 DEF Gone, Freeing, AtOne
  <1>7. MaintKnows(m)'
    <2>1. PICK c, d : c = buf[m] /\ d = buf'[m] /\ d = c
      BY <1>2
    <2>2. pos[m] \in Nat /\ Len(buf[m]) \in Nat
      BY <1>0, <1>1 DEF HyTypes
    <2>3. pc'[m] \in {"idle", "mt_load", "mt_da", "mt_ha"} => pos[m] = 0
      BY <1>1, <1>3 DEF MaintKnows
    <2>4. /\ pc'[m] \in MaintPlaces
          /\ pc'[m] \in {"mt_load", "mt_da", "mt_ha"} => hdrLock' = m
          /\ pc'[m] \in MtHa => haLock' = m
      BY <1>1, <1>3 DEF MaintKnows, MaintPlaces, Working, Taking, Freeing, AtOne, MtHa
    <2>5. pc'[m] \in Working => pc[m] \in Working
      BY <1>3 DEF Working, Taking, Freeing, AtOne
    <2>6. pc'[m] \in Taking => pc[m] \in Taking
      BY <1>3 DEF Taking, Freeing, AtOne
    <2>7. pc'[m] \in Freeing => pos[m] <= Len(buf[m])
      BY <1>1, <1>3, <2>2 DEF MaintKnows, Freeing, AtOne
    <2>8. /\ pc'[m] \in AtOne => pc'[m] = "mt_freehdr" /\ pc[m] \in AtOne
          /\ pc'[m] \notin {"mt_lockhdr", "mt_puthdr", "mt_putidx", "mt_trunc", "mt_putstatus"}
      BY <1>3 DEF AtOne
    <2> QED
      BY <1>1, <1>2, <2>1, <2>3, <2>4, <2>5, <2>6, <2>7, <2>8 DEF MaintKnows, Increasing, Taken
  <1>8. pc[m] \in {"mt_da", "mt_ha"} => hdrLock = m
    BY <1>1 DEF MaintKnows
  <1>9. /\ pc'[m] \in Working => pc[m] \in Working /\ st'[m] = st[m] /\ buf'[m] = buf[m]
        /\ pc'[m] \in MtHa => pc[m] \in MtHa \/ hdrLock = m
    BY <1>2, <1>3, <1>8 DEF Working, Taking, Freeing, AtOne, MtHa
  <1>10. pc[m] # "mt_trunc"
    BY <1>3
  <1> QED
    BY <1>0, <1>2, <1>4, <1>5, <1>6, <1>7, <1>9, <1>10, MaintBeside DEF files

\* Status and index are read.
LEMMA MaintLoads ==
  ASSUME MaintBase, FreeInv, NEW m \in Purgers, MaintLoad(m)
  PROVE  FreeInv'
  <1>0. m \in Proc /\ None \notin Proc
    BY MaintRoles
  <1>1. MaintTypes /\ HyTypes /\ MaintKnows(m) /\ Numbered
    BY DEF FreeInv, MaintTypes
  <1>2. /\ UNCHANGED <<status, sid, shd, sha, shaEnd, msg, pos, hdrLock, haLock>>
        /\ pc[m] = "mt_load"
    BY DEF MaintLoad, files, locks
  <1>3. hdrLock = m /\ pos[m] = 0
    BY <1>1, <1>2 DEF MaintKnows
  <1>4. Increasing(sid)
    <2>1. \A n \in Purgers : pc[n] = "mt_load"
      BY <1>2, MaintRoles
    <2> QED
      BY <2>1 DEF FreeInv, MaintIndexSorted
  <1>5. PICK c : c = Loaded
    OBVIOUS
  <1>6. st' = [st EXCEPT ![m] = status] /\ buf' = [buf EXCEPT ![m] = c]
    BY <1>5 DEF MaintLoad
  <1>7. /\ c \in Seq(IdxRecs) /\ Len(c) \in Nat /\ Len(c) <= Len(sid) /\ Len(c) <= status.total
        /\ \A k \in 1..Len(c) : c[k] = sid[k]
    <2>1. sid \in Seq(IdxRecs) /\ Len(sid) \in Nat /\ status.total \in Nat
      BY <1>1, FileTypes
    <2>2. PICK n \in Nat : n = IF Len(sid) < status.total THEN Len(sid) ELSE status.total
      BY <2>1
    <2>3. n <= Len(sid) /\ n <= status.total
      BY <2>1, <2>2
    <2>4. c = SubSeq(sid, 1, n)
      BY <1>5, <2>2 DEF Loaded
    <2> QED
      BY <2>1, <2>3, <2>4
  <1>8. /\ pc' = [q \in Proc |-> pc'[q]] /\ \A q \in Proc \ {m} : pc'[q] = pc[q]
        /\ pc'[m] \in {"mt_da", "mt_write", "unlock"} \/ (pc'[m] = "mt_scan" /\ Hyper)
        /\ pc'[m] \in {"mt_da", "mt_write"} => Kept(c) # c
    BY <1>0, <1>1, <1>5 DEF HyTypes, Goto, MaintLoad
  <1>9. pc'[m] \in {"mt_da", "mt_write", "unlock"}
    BY <1>8 DEF MaintBase
  <1>10. st'[m] = status /\ buf'[m] = c
    BY <1>0, <1>1, <1>6 DEF HyTypes
  <1>11. status \in Statuses
    BY <1>1, FileTypes
  <1>12. MaintTypes' /\ Others(m)
    BY <1>1, <1>2, <1>6, <1>7, <1>8, <1>11 DEF MaintTypes, HyTypes, Others
  <1>13. Increasing(c)
    <2>1. \A k \in 1..Len(c) : k \in 1..Len(sid)
      BY <1>1, <1>7, FileTypes
    <2> QED
      BY <1>4, <1>7, <2>1 DEF Increasing
  <1>14. \A k \in 1..Len(c) : c[k].num <= status.last
    <2>1. \A k \in 1..Len(c) : k \in 1..Len(sid) /\ k <= status.total
      BY <1>1, <1>7, FileTypes
    <2> QED
      BY <1>1, <1>7, <2>1 DEF Numbered
  <1>15. Taken(c, sid)
    BY <1>7 DEF Taken
  <1>16. status.last <= status.last
    BY <1>1, FileTypes
  <1>17. MaintKnows(m)'
    <2>1. pc'[m] = "unlock" => MaintKnows(m)'
      BY DEF MaintKnows, MaintPlaces, Working, Taking, Freeing, AtOne, MtHa
    <2>2. SUFFICES ASSUME pc'[m] \in {"mt_da", "mt_write"} PROVE MaintKnows(m)'
      BY <1>9, <2>1
    <2>3. /\ pc'[m] \in Taking /\ pc'[m] \in Working /\ pc'[m] \in MaintPlaces
          /\ pc'[m] \notin MtHa /\ pc'[m] \notin Freeing /\ pc'[m] \notin AtOne
      BY <2>2 DEF MaintPlaces, Working, Taking, Freeing, AtOne, MtHa
    <2>4. Kept(c) # c
      BY <1>8, <2>2
    <2>5. Increasing(buf'[m]) /\ Kept(buf'[m]) # buf'[m] /\ Taken(buf'[m], sid')
      BY <1>2, <1>10, <1>13, <1>15, <2>4
    <2>6. Len(buf'[m]) <= status'.total /\ Len(buf'[m]) <= st'[m].total
          /\ st'[m].last <= status'.last
      BY <1>2, <1>7, <1>10, <1>16
    <2>7. \A i \in 1..Len(buf'[m]) : buf'[m][i].num <= st'[m].last
      BY <1>10, <1>14
    <2>8. Increasing(buf[m])' /\ (Kept(buf[m]) # buf[m])' /\ Taken(buf[m], sid)'
      BY <2>5 DEF Increasing, Taken
    <2> QED
      BY <1>2, <1>3, <2>2, <2>3, <2>6, <2>7, <2>8 DEF MaintKnows
  <1>18. \A i \in 1..Len(sid) : ~Gone(i)
    BY <1>2, MaintRoles DEF Gone, Freeing, AtOne
  <1> QED
    BY <1>0, <1>2, <1>3, <1>12, <1>17, <1>18, MaintBeside DEF files

\* The call returns.
LEMMA MaintReturns ==
  ASSUME MaintBase, FreeInv, NEW m \in Purgers, Unlock(m)
  PROVE  FreeInv'
  <1>0. m \in Proc /\ None \notin Proc
    BY MaintRoles
  <1>1. MaintTypes /\ HyTypes
    BY DEF FreeInv, MaintTypes
  <1>2. /\ UNCHANGED <<status, sid, shd, sha, shaEnd, haLock>> /\ pc[m] = "unlock"
        /\ \A q \in Proc \ {m} : hdrLock = q => hdrLock' = q
    BY DEF Unlock, files
  <1>3. pc' = [q \in Proc |-> pc'[q]] /\ pc'[m] = "idle" /\ \A q \in Proc \ {m} : pc'[q] = pc[q]
    BY <1>0, <1>1 DEF HyTypes, Goto, Unlock
  <1>4. Forget(m)
    BY DEF Unlock
  <1>5. /\ st' \in [Proc -> Statuses] /\ buf' \in [Proc -> Seq(IdxRecs)] /\ pos' \in [Proc -> Nat]
        /\ \A q \in Proc \ {m} : st'[q] = st[q] /\ buf'[q] = buf[q] /\ pos'[q] = pos[q]
        /\ pos'[m] = 0
    BY <1>0, <1>1, <1>4 DEF HyTypes, Forget, NoStatus, Statuses
  <1>6. msg' \in [Proc -> Msgs] /\ \A q \in Proc \ {m} : msg'[q] = msg[q]
    BY <1>1, <1>4 DEF HyTypes, Forget, NoMsg, NewMsg, Msgs
  <1>7. MaintTypes' /\ Others(m)
    BY <1>1, <1>2, <1>3, <1>5, <1>6 DEF MaintTypes, HyTypes, Others
  <1>8. MaintKnows(m)'
    BY <1>3, <1>5 DEF MaintKnows, MaintPlaces, Working, Taking, Freeing, AtOne, MtHa
  <1>9. \A i \in 1..Len(sid) : ~Gone(i)
    BY <1>2, MaintRoles DEF Gone, Freeing, AtOne
  <1>10. pc'[m] \notin Working /\ pc'[m] \notin MtHa /\ pc[m] # "mt_trunc"
    BY <1>2, <1>3 DEF Working, Taking, Freeing, AtOne, MtHa
  <1> QED
    BY <1>0, <1>2, <1>7, <1>8, <1>9, <1>10, MaintBeside DEF files

\* The next marked record of what was read is looked up: it is found where it was.
LEMMA MaintFinds ==
  ASSUME MaintBase, FreeInv, NEW m \in Purgers, MaintFind(m)
  PROVE  FreeInv'
  <1>0. m \in Proc /\ None \notin Proc
    BY MaintRoles
  <1>1. MaintTypes /\ HyTypes /\ MaintKnows(m)
    BY DEF FreeInv, MaintTypes
  <1>2. UNCHANGED <<status, sid, shd, sha, shaEnd, st, buf, hdrLock, haLock>> /\ pc[m] = "mt_scan"
    BY DEF MaintFind, files, locks
  <1>3. Increasing(sid)
    <2>1. \A n \in Purgers : pc[n] = "mt_scan"
      BY <1>2, MaintRoles
    <2> QED
      BY <2>1 DEF FreeInv, MaintIndexSorted
  <1>4. PICK k \in pos[m] + 1..Len(buf[m]) :
          /\ Marked(buf[m][k]) /\ pos' = [pos EXCEPT ![m] = k]
          /\ IF \E j \in 1..Len(sid) : sid[j].num = buf[m][k].num
             THEN /\ \E j \in 1..Len(sid) :
                      /\ sid[j].num = buf[m][k].num
                      /\ msg' = [msg EXCEPT ![m] = NewMsg(sid[j].num, sid[j].slot, j - 1)]
                  /\ Goto(m, "mt_lockhdr")
             ELSE UNCHANGED <<msg, pc>>
    BY DEF MaintFind
  <1>5. Taken(buf[m], sid) /\ pos[m] \in Nat /\ Len(buf[m]) \in Nat /\ Len(sid) \in Nat
    <2>1. Taken(buf[m], sid)
      BY <1>1, <1>2 DEF MaintKnows, Taking, Freeing
    <2>2. pos[m] \in Nat /\ Len(buf[m]) \in Nat
      BY <1>0, <1>1 DEF HyTypes
    <2> QED
      BY <1>1, <2>1, <2>2, FileTypes
  <1>6. k \in Nat /\ k >= 1 /\ pos[m] < k /\ k <= Len(buf[m]) /\ k \in 1..Len(buf[m])
    BY <1>5
  <1>7. k \in 1..Len(sid) /\ sid[k].num = buf[m][k].num
    <2>1. Len(buf[m]) <= Len(sid)
      BY <1>5 DEF Taken
    <2>2. k \in 1..Len(sid)
      BY <1>5, <1>6, <2>1
    <2> QED
      BY <1>5, <1>6, <2>2 DEF Taken
  <1>8. PICK j \in 1..Len(sid) : /\ sid[j].num = buf[m][k].num
                                 /\ msg' = [msg EXCEPT ![m] = NewMsg(sid[j].num, sid[j].slot, j - 1)]
    BY <1>4, <1>7
  <1>9. pc' = [pc EXCEPT ![m] = "mt_lockhdr"]
    BY <1>4, <1>7 DEF Goto
  <1>10. j = k
    <2>1. PICK s \in Seq(IdxRecs) : s = sid
      BY <1>1, FileTypes
    <2>2. Increasing(s) /\ j \in 1..Len(s) /\ k \in 1..Len(s) /\ s[j].num = s[k].num
      BY <1>3, <1>7, <1>8, <2>1
    <2> QED
      BY <2>2, SameNumber
  <1>11. PICK n \in Nat, s \in Slots \cup {0}, o \in Nat : n = sid[k].num /\ s = sid[k].slot /\ o = k - 1
    <2>1. k - 1 \in Nat
      BY <1>6
    <2> QED
      BY <1>1, <1>7, <2>1, FileTypes
  <1>12. /\ msg' \in [Proc -> Msgs] /\ \A q \in Proc \ {m} : msg'[q] = msg[q]
         /\ msg'[m].num = n /\ msg'[m].slot = s /\ msg'[m].off = o
    <2>1. msg' = [msg EXCEPT ![m] = NewMsg(n, s, o)]
      BY <1>8, <1>10, <1>11
    <2> QED
      BY <1>0, <1>1, <2>1, NewMsgs
  <1>13. /\ pc' = [q \in Proc |-> pc'[q]] /\ pc'[m] = "mt_lockhdr" /\ \A q \in Proc \ {m} : pc'[q] = pc[q]
         /\ pos' \in [Proc -> Nat] /\ pos'[m] = k /\ \A q \in Proc \ {m} : pos'[q] = pos[q]
    BY <1>0, <1>1, <1>4, <1>6, <1>9 DEF HyTypes
  <1>14. MaintTypes' /\ Others(m)
    BY <1>1, <1>2, <1>12, <1>13 DEF MaintTypes, HyTypes, Others
  <1>15. haLock = m
    BY <1>1, <1>2 DEF MaintKnows, MtHa
  <1>16. MaintKnows(m)'
    <2>1. /\ pc[m] \in Working /\ pc'[m] \in Working /\ pc'[m] \in MaintPlaces
      BY <1>2, <1>13 DEF MaintPlaces, Working, Taking, Freeing, AtOne
    <2>2. /\ (st[m].last <= status.last)' /\ (Len(buf[m]) <= status.total)' /\ (Len(buf[m]) <= st[m].total)'
          /\ Increasing(buf[m])' /\ (\A i \in 1..Len(buf[m]) : buf[m][i].num <= st[m].last)'
      BY <1>1, <1>2, <2>1 DEF MaintKnows, Increasing
    <2>3. (Kept(buf[m]) # buf[m])'
      <3>1. Kept(buf[m]) # buf[m]
        BY <1>1, <2>1 DEF MaintKnows
      <3>2. buf'[m] = buf[m]
        BY <1>2
      <3> QED
        BY <3>1, <3>2
    <2>4. Taken(buf[m], sid)'
      BY <1>2, <1>5 DEF Taken
    <2>5. /\ pos'[m] <= Len(buf'[m]) /\ pos'[m] >= 1 /\ Marked(buf'[m][pos'[m]])
          /\ msg'[m].slot = sid'[pos'[m]].slot /\ msg'[m].off = pos'[m] - 1 /\ msg'[m].num = sid'[pos'[m]].num
      BY <1>2, <1>4, <1>6, <1>11, <1>12, <1>13
    <2> QED
      BY <1>2, <1>13, <1>15, <2>1, <2>2, <2>3, <2>4, <2>5 DEF MaintKnows
  <1>17. \A i \in 1..Len(sid) : Gone(i) => Gone(i)'
    <2>1. SUFFICES ASSUME NEW i \in 1..Len(sid), Gone(i) PROVE Gone(i)'
      OBVIOUS
    <2>2. i <= pos[m] /\ Marked(buf[m][i])
      BY <1>2, <2>1, MaintRoles DEF Gone
    <2>3. i <= k /\ i # k
      BY <1>5, <1>6, <2>2
    <2> QED
      BY <1>2, <1>13, <2>2, <2>3 DEF Gone, Freeing, AtOne
  <1>18. pc[m] \in Working /\ pc[m] \in MtHa /\ pc[m] # "mt_trunc"
    BY <1>2 DEF Working, Taking, Freeing, MtHa
  <1> QED
    BY <1>0, <1>2, <1>14, <1>16, <1>17, <1>18, MaintBeside DEF files

\* The record maint() is at: it is where it was, and its header is its own.
LEMMA AtRecord ==
  ASSUME MaintBase, FreeInv, NEW m \in Purgers, pc[m] \in AtOne
  PROVE  /\ pos[m] \in 1..Len(sid) /\ pos[m] \in 1..Len(buf[m]) /\ pos[m] \in Nat
         /\ OwnRec(pos[m]) /\ msg[m].slot = sid[pos[m]].slot /\ msg[m].slot \in sha /\ msg[m].slot \in Slots
         /\ Marked(sid[pos[m]]) /\ Marked(buf[m][pos[m]])
         /\ Taken(buf[m], sid) /\ Increasing(sid)
  <1>1. m \in Proc /\ MaintTypes /\ HyTypes /\ MaintKnows(m) /\ \A n \in Purgers : n = m
    BY MaintRoles DEF FreeInv, MaintTypes
  <1>2. pos[m] \in Nat /\ Len(buf[m]) \in Nat /\ Len(sid) \in Nat
    BY <1>1, FileTypes DEF HyTypes
  <1>3. /\ Taken(buf[m], sid) /\ pos[m] <= Len(buf[m]) /\ pos[m] >= 1 /\ Marked(buf[m][pos[m]])
        /\ msg[m].slot = sid[pos[m]].slot
    BY <1>1 DEF MaintKnows, Taking, Freeing
  <1>4. pos[m] \in 1..Len(sid) /\ pos[m] \in 1..Len(buf[m])
    <2>1. Len(buf[m]) <= Len(sid)
      BY <1>3 DEF Taken
    <2> QED
      BY <1>2, <1>3, <2>1
  <1>5. ~Gone(pos[m])
    BY <1>1 DEF Gone, AtOne, Freeing
  <1>6. OwnRec(pos[m])
    BY <1>4, <1>5 DEF FreeInv, Owned
  <1>7. Marked(sid[pos[m]])
    BY <1>3, <1>4 DEF Taken
  <1>8. Increasing(sid)
    BY <1>1 DEF FreeInv, MaintIndexSorted, AtOne
  <1>9. msg[m].slot \in sha /\ msg[m].slot \in Slots
    BY <1>1, <1>3, <1>6 DEF OwnRec, MaintTypes
  <1> QED
    BY <1>2, <1>3, <1>4, <1>6, <1>7, <1>8, <1>9

\* The header is locked and read again.
LEMMA MaintReads ==
  ASSUME MaintBase, FreeInv, NEW m \in Purgers, MaintLockHdr(m)
  PROVE  FreeInv'
  <1>0. m \in Proc /\ None \notin Proc
    BY MaintRoles
  <1>1. MaintTypes /\ HyTypes /\ MaintKnows(m)
    BY DEF FreeInv, MaintTypes
  <1>2. UNCHANGED <<status, sid, shd, sha, shaEnd, st, buf, pos, hdrLock, haLock>> /\ pc[m] = "mt_lockhdr"
    BY DEF MaintLockHdr, files
  <1>3. pc' = [q \in Proc |-> pc'[q]] /\ pc'[m] = "mt_puthdr" /\ \A q \in Proc \ {m} : pc'[q] = pc[q]
    BY <1>0, <1>1 DEF HyTypes, Goto, MaintLockHdr
  <1>4. /\ OwnRec(pos[m]) /\ msg[m].slot = sid[pos[m]].slot /\ msg[m].slot \in Slots
    BY <1>2, AtRecord DEF AtOne
  <1>5. PICK n, a : n = shd[msg[m].slot].num /\ a = shd[msg[m].slot].attr \cup {"delete"}
    OBVIOUS
  <1>6. n = sid[pos[m]].num /\ n \in Nat /\ a \in SUBSET Attrs /\ "delete" \in a
    <2>1. shd[msg[m].slot] \in Hdrs
      BY <1>1, <1>4 DEF HyTypes
    <2> QED
      BY <1>4, <1>5, <2>1 DEF OwnRec, Hdrs, Attrs
  <1>7. msg' = [msg EXCEPT ![m].num = n, ![m].attr = a]
    BY <1>5 DEF MaintLockHdr
  <1>8. /\ msg' \in [Proc -> Msgs] /\ \A q \in Proc \ {m} : msg'[q] = msg[q]
        /\ msg'[m].num = n /\ msg'[m].slot = msg[m].slot /\ msg'[m].off = msg[m].off /\ msg'[m].attr = a
    <2>1. msg \in [Proc -> Msgs] /\ n \in Nat /\ a \in SUBSET Attrs
      BY <1>1, <1>6 DEF HyTypes
    <2> QED
      BY <1>0, <1>7, <2>1 DEF Msgs
  <1>9. MaintTypes' /\ Others(m)
    BY <1>1, <1>2, <1>3, <1>8 DEF MaintTypes, HyTypes, Others
  <1>10. MaintKnows(m)'
    <2>1. /\ pc[m] \in Working /\ pc'[m] \in Working /\ pc'[m] \in MaintPlaces
          /\ pc[m] \in Taking /\ pc[m] \in Freeing /\ pc[m] \in AtOne /\ pc[m] \in MtHa
      BY <1>2, <1>3 DEF MaintPlaces, Working, Taking, Freeing, AtOne, MtHa
    <2>2. /\ (st[m].last <= status.last)' /\ (Len(buf[m]) <= status.total)' /\ (Len(buf[m]) <= st[m].total)'
          /\ Increasing(buf[m])' /\ (\A i \in 1..Len(buf[m]) : buf[m][i].num <= st[m].last)'
      BY <1>1, <1>2, <2>1 DEF MaintKnows, Increasing
    <2>3. (Kept(buf[m]) # buf[m])'
      <3>1. Kept(buf[m]) # buf[m]
        BY <1>1, <2>1 DEF MaintKnows
      <3>2. buf'[m] = buf[m]
        BY <1>2
      <3> QED
        BY <3>1, <3>2
    <2>4. Taken(buf[m], sid)' /\ (haLock = m)'
      BY <1>1, <1>2, <2>1 DEF MaintKnows, Taken
    <2>5. /\ pos'[m] <= Len(buf'[m]) /\ pos'[m] >= 1 /\ Marked(buf'[m][pos'[m]])
          /\ msg'[m].slot = sid'[pos'[m]].slot /\ msg'[m].off = pos'[m] - 1 /\ msg'[m].num = sid'[pos'[m]].num
          /\ "delete" \in msg'[m].attr
      BY <1>1, <1>2, <1>6, <1>8, <2>1 DEF MaintKnows
    <2> QED
      BY <1>2, <1>3, <2>1, <2>2, <2>3, <2>4, <2>5 DEF MaintKnows
  <1>11. \A i \in 1..Len(sid) : Gone(i) => Gone(i)'
    <2>1. SUFFICES ASSUME NEW i \in 1..Len(sid), Gone(i) PROVE Gone(i)'
      OBVIOUS
    <2>2. i <= pos[m] /\ Marked(buf[m][i]) /\ i # pos[m]
      BY <1>2, <2>1, MaintRoles DEF Gone, AtOne
    <2> QED
      BY <1>2, <1>3, <2>2 DEF Gone, Freeing, AtOne
  <1>12. pc[m] \in Working /\ pc[m] \in MtHa /\ pc[m] # "mt_trunc"
    BY <1>2 DEF Working, Taking, Freeing, AtOne, MtHa
  <1> QED
    BY <1>0, <1>2, <1>9, <1>10, <1>11, <1>12, MaintBeside DEF files

-----------------------------------------------------------------------------
(* The writes of a post.                                                    *)

\* A poster with the lock on the base adds to the files: nothing that maint()
\* knows is touched, and no other poster is at work.
LEMMA PostersWrite ==
  ASSUME MaintBase, FreeInv, NEW p \in Posters, hdrLock = p, Others(p), MaintTypes', haLock' = haLock,
         Len(sid) <= Len(sid'), \A k \in 1..Len(sid) : sid'[k] = sid[k],
         \A m \in Purgers : pc[m] = "mt_putstatus" => sid' = sid,
         \A m \in Purgers : pc[m] \in Working => st[m].last <= status'.last /\ Len(buf[m]) <= status'.total,
         Owned', Numbered', MaintIndexSorted', PostKnows(p)'
  PROVE  FreeInv'
  <1>1. ASSUME NEW q \in Posters, q # p PROVE PostKnows(q)'
    <2>1. pc'[q] = pc[q] /\ PostKnows(q)
      BY <1>1, MaintRoles DEF Others, FreeInv
    <2>2. pc[q] \notin LockedPost
      BY <1>1, <2>1 DEF PostKnows
    <2> QED
      BY <2>1, <2>2 DEF PostKnows, LockedPost, Placed, Posting
  <1>2. ASSUME NEW m \in Purgers PROVE MaintKnows(m)'
    <2>1. /\ pc'[m] = pc[m] /\ st'[m] = st[m] /\ msg'[m] = msg[m] /\ buf'[m] = buf[m] /\ pos'[m] = pos[m]
          /\ m # p
      BY MaintRoles DEF Others
    <2>2. MaintKnows(m) /\ HyTypes /\ m \in Proc
      BY MaintRoles DEF FreeInv, MaintTypes
    <2>3. /\ pc[m] \notin {"mt_load", "mt_da", "mt_ha"}
          /\ pc[m] \in MaintPlaces
          /\ pc[m] \in MtHa => haLock' = m
          /\ pc[m] = "idle" => pos[m] = 0
      BY <2>1, <2>2 DEF MaintKnows
    <2>4. /\ pc[m] \in Working =>
               /\ st[m].last <= status'.last /\ Len(buf[m]) <= status'.total /\ Len(buf[m]) <= st[m].total
               /\ Increasing(buf[m]) /\ Kept(buf[m]) # buf[m]
               /\ \A i \in 1..Len(buf[m]) : buf[m][i].num <= st[m].last
      BY <2>2 DEF MaintKnows
    <2>5. Len(buf[m]) \in Nat /\ Len(sid) \in Nat /\ Len(sid') \in Nat
      BY <2>2, FileTypes DEF MaintTypes, HyTypes
    <2>6. pc[m] \in Taking => Taken(buf[m], sid')
      <3>1. SUFFICES ASSUME Taken(buf[m], sid) PROVE Taken(buf[m], sid')
        BY <2>2 DEF MaintKnows
      <3>2. Len(buf[m]) <= Len(sid') /\ \A k \in 1..Len(buf[m]) : k \in 1..Len(sid)
        BY <2>5, <3>1 DEF Taken
      <3> QED
        BY <3>1, <3>2 DEF Taken
    <2>7. pc[m] \in Freeing => pos[m] <= Len(buf[m])
      BY <2>2 DEF MaintKnows
    <2>8. /\ pc[m] \in AtOne => pos[m] >= 1 /\ Marked(buf[m][pos[m]]) /\ msg[m].slot = sid'[pos[m]].slot
          /\ pc[m] \in {"mt_lockhdr", "mt_puthdr", "mt_putidx"} =>
               msg[m].off = pos[m] - 1 /\ msg[m].num = sid'[pos[m]].num
          /\ pc[m] \in {"mt_puthdr", "mt_putidx"} => "delete" \in msg[m].attr
      <3>1. pc[m] \in AtOne => sid'[pos[m]] = sid[pos[m]]
        BY AtRecord
      <3> QED
        BY <2>2, <3>1 DEF MaintKnows, AtOne
    <2>9. pc[m] = "mt_trunc" => Cut(Kept(buf[m]), sid')
      <3>1. SUFFICES ASSUME Cut(Kept(buf[m]), sid), Len(Kept(buf[m])) \in Nat PROVE Cut(Kept(buf[m]), sid')
        BY <2>2, KeptRecords DEF MaintKnows, FreeInv, Working
      <3>2. PICK b : b = Kept(buf[m])
        OBVIOUS
      <3>3. Len(b) <= Len(sid') /\ \A k \in 1..Len(b) : k \in 1..Len(sid)
        BY <2>5, <3>1, <3>2 DEF Cut
      <3>4. Cut(b, sid')
        BY <3>1, <3>2, <3>3 DEF Cut
      <3> QED
        BY <3>2, <3>4
    <2>10. pc[m] = "mt_putstatus" => sid' = Kept(buf[m])
      BY <2>2 DEF MaintKnows
    <2>11. PICK c, d : c = buf[m] /\ d = buf'[m] /\ d = c
      BY <2>1
    <2> QED
      BY <2>1, <2>3, <2>4, <2>6, <2>7, <2>8, <2>9, <2>10, <2>11 DEF MaintKnows, Increasing, Taken, Cut
  <1> QED
    BY <1>1, <1>2 DEF FreeInv

\* A free slot is taken in the .sha file.
LEMMA PostAllocs ==
  ASSUME MaintBase, FreeInv, NEW p \in Posters, AddAlloc(p)
  PROVE  FreeInv'
  <1>0. p \in Proc /\ p \notin Purgers /\ None \notin Proc
    BY MaintRoles
  <1>1. MaintTypes /\ HyTypes /\ PostKnows(p)
    BY DEF FreeInv, MaintTypes
  <1>2. UNCHANGED <<status, sid, shd, st, buf, pos, hdrLock, haLock>> /\ pc[p] = "add_alloc" /\ haLock = None
    BY DEF AddAlloc, locks, MaintBase
  <1>3. pc' = [q \in Proc |-> pc'[q]] /\ pc'[p] = "add_puthdr" /\ \A q \in Proc \ {p} : pc'[q] = pc[q]
    BY <1>0, <1>1 DEF HyTypes, Goto, AddAlloc
  <1>4. PICK s \in Slots \ sha : /\ msg' = [msg EXCEPT ![p].slot = s] /\ sha' = sha \cup {s}
                                 /\ shaEnd' = IF s <= shaEnd THEN shaEnd ELSE s
    BY DEF AddAlloc, FreeSlots, MaintBase
  <1>5. /\ msg' \in [Proc -> Msgs] /\ \A q \in Proc \ {p} : msg'[q] = msg[q]
        /\ msg'[p].num = msg[p].num /\ msg'[p].slot = s /\ msg'[p].off = msg[p].off
    <2>1. msg \in [Proc -> Msgs] /\ s \in Slots
      BY <1>1 DEF HyTypes
    <2> QED
      BY <1>0, <1>4, <2>1 DEF Msgs
  <1>6. sha' \subseteq Slots /\ shaEnd' \in Nat /\ \A t \in sha' : t <= shaEnd'
    <2>1. s \in Nat /\ sha \subseteq Nat /\ shaEnd \in Nat /\ \A t \in sha : t <= shaEnd
      BY <1>1, SmbBaseAssumption DEF MaintTypes
    <2>2. shaEnd' \in Nat /\ shaEnd <= shaEnd' /\ s <= shaEnd'
      BY <1>4, <2>1
    <2>3. ASSUME NEW t \in sha PROVE t <= shaEnd'
      <3>1. t \in Nat /\ t <= shaEnd
        BY <2>1
      <3> QED
        BY <2>1, <2>2, <3>1
    <2> QED
      BY <1>1, <1>4, <2>2, <2>3 DEF MaintTypes
  <1>7. MaintTypes' /\ Others(p)
    BY <1>1, <1>2, <1>3, <1>5, <1>6 DEF MaintTypes, HyTypes, Others
  <1>8. hdrLock = p
    BY <1>1, <1>2 DEF PostKnows, LockedPost
  <1>9. \A m \in Purgers : pc'[m] = pc[m] /\ st'[m] = st[m] /\ buf'[m] = buf[m] /\ pos'[m] = pos[m]
    BY <1>7, MaintRoles DEF Others
  <1>10. \A i : Gone(i) <=> Gone(i)'
    BY <1>2, <1>9 DEF Gone
  <1>11. Owned' /\ Numbered' /\ MaintIndexSorted'
    <2>1. Owned'
      BY <1>2, <1>4, <1>10 DEF FreeInv, Owned, OwnRec
    <2> QED
      BY <1>2, <1>9, <2>1 DEF FreeInv, Numbered, MaintIndexSorted, Increasing
  <1>12. PostKnows(p)'
    <2>1. \A m \in Purgers : pc[m] \notin MtHa
      BY <1>0, <1>2, MaintRoles DEF FreeInv, MaintKnows
    <2>2. \A i \in 1..Len(sid) : sid[i].slot = s => Gone(i)
      BY <1>4 DEF FreeInv, Owned, OwnRec
    <2>3. /\ msg[p].off = st[p].total /\ msg[p].num = st[p].last + 1
          /\ Len(sid) <= st[p].total
          /\ Len(sid) = st[p].total => status = st[p]
          /\ \A i \in 1..Len(sid) : sid[i].num <= st[p].last
          /\ \A m \in Purgers : pc[m] \in Working => st[m].last <= st[p].last /\ Len(buf[m]) <= st[p].total
      BY <1>1, <1>2 DEF PostKnows, Placed
    <2>4. (\A m \in Purgers : pc[m] \notin MtHa)'
      BY <1>9, <2>1
    <2>5. (\A i \in 1..Len(sid) : sid[i].slot = msg[p].slot => Gone(i))'
      BY <1>2, <1>5, <1>10, <2>2
    <2>6. (\A m \in Purgers : pc[m] \in Working => st[m].last <= st[p].last /\ Len(buf[m]) <= st[p].total)'
      BY <1>2, <1>9, <2>3
    <2>7. /\ (pc[p] \in PostPlaces)' /\ (hdrLock = p)' /\ (msg[p].slot \in sha)'
      BY <1>2, <1>3, <1>4, <1>5, <1>8 DEF PostPlaces, LockedPost
    <2> QED
      BY <1>2, <1>3, <1>5, <2>3, <2>4, <2>5, <2>6, <2>7 DEF PostKnows
  <1>13. \A m \in Purgers : pc[m] \in Working => st[m].last <= status'.last /\ Len(buf[m]) <= status'.total
    BY <1>2 DEF FreeInv, MaintKnows
  <1>14. Len(sid) <= Len(sid')
    BY <1>1, <1>2, FileTypes
  <1> QED
    BY <1>2, <1>7, <1>8, <1>11, <1>12, <1>13, <1>14, PostersWrite

\* The header is written into the slot taken: into that of no other message.
LEMMA PostPutsHdr ==
  ASSUME MaintBase, FreeInv, NEW p \in Posters, AddPutHdr(p)
  PROVE  FreeInv'
  <1>0. p \in Proc /\ p \notin Purgers /\ None \notin Proc
    BY MaintRoles
  <1>1. MaintTypes /\ HyTypes /\ PostKnows(p)
    BY DEF FreeInv, MaintTypes
  <1>2. UNCHANGED <<status, sid, sha, shaEnd, st, msg, buf, pos, hdrLock, haLock>> /\ pc[p] = "add_puthdr"
    BY DEF AddPutHdr, locks, local
  <1>3. pc' = [q \in Proc |-> pc'[q]] /\ pc'[p] = "add_putidx" /\ \A q \in Proc \ {p} : pc'[q] = pc[q]
    BY <1>0, <1>1 DEF HyTypes, Goto, AddPutHdr
  <1>4. msg[p] \in Msgs /\ msg[p].num \in Nat /\ msg[p].attr \in SUBSET Attrs /\ msg[p].slot \in Slots
    <2>1. msg[p] \in Msgs /\ msg[p].slot \in sha
      BY <1>0, <1>1, <1>2 DEF HyTypes, PostKnows
    <2> QED
      BY <1>1, <2>1 DEF Msgs, MaintTypes
  <1>5. PICK h \in Hdrs : h = [num |-> msg[p].num, attr |-> msg[p].attr]
    BY <1>4 DEF Hdrs
  <1>6. /\ shd' \in [Slots -> Hdrs] /\ shd'[msg[p].slot].num = msg[p].num
        /\ \A t \in Slots : t # msg[p].slot => shd'[t] = shd[t]
    <2>1. shd' = [shd EXCEPT ![msg[p].slot] = h] /\ h.num = msg[p].num
      BY <1>5 DEF AddPutHdr
    <2>2. shd \in [Slots -> Hdrs]
      BY <1>1 DEF HyTypes
    <2> QED
      BY <1>4, <2>1, <2>2
  <1>7. MaintTypes' /\ Others(p)
    BY <1>1, <1>2, <1>3, <1>6 DEF MaintTypes, HyTypes, Others
  <1>8. hdrLock = p
    BY <1>1, <1>2 DEF PostKnows, LockedPost
  <1>9. \A m \in Purgers : pc'[m] = pc[m] /\ st'[m] = st[m] /\ buf'[m] = buf[m] /\ pos'[m] = pos[m]
    BY <1>7, MaintRoles DEF Others
  <1>10. \A i : Gone(i) <=> Gone(i)'
    BY <1>2, <1>9 DEF Gone
  <1>11. Owned'
    <2>1. SUFFICES ASSUME NEW i \in 1..Len(sid), ~Gone(i) PROVE OwnRec(i)'
      BY <1>2, <1>10 DEF Owned
    <2>2. OwnRec(i) /\ sid[i].slot \in Slots
      BY <1>1, <2>1, FileTypes DEF FreeInv, Owned
    <2>3. sid[i].slot # msg[p].slot
      BY <1>1, <1>2, <2>1 DEF PostKnows
    <2> QED
      BY <1>2, <1>6, <2>2, <2>3 DEF OwnRec
  <1>12. Numbered' /\ MaintIndexSorted'
    BY <1>2, <1>9 DEF FreeInv, Numbered, MaintIndexSorted, Increasing
  <1>13. PostKnows(p)'
    <2>1. /\ msg[p].off = st[p].total /\ msg[p].num = st[p].last + 1
          /\ Len(sid) <= st[p].total
          /\ Len(sid) = st[p].total => status = st[p]
          /\ \A i \in 1..Len(sid) : sid[i].num <= st[p].last
          /\ \A m \in Purgers : pc[m] \in Working => st[m].last <= st[p].last /\ Len(buf[m]) <= st[p].total
          /\ \A m \in Purgers : pc[m] \notin MtHa
          /\ msg[p].slot \in sha
      BY <1>1, <1>2 DEF PostKnows, Placed, Posting
    <2>2. (\A m \in Purgers : pc[m] \notin MtHa)'
      BY <1>9, <2>1
    <2>3. (\A m \in Purgers : pc[m] \in Working => st[m].last <= st[p].last /\ Len(buf[m]) <= st[p].total)'
      BY <1>2, <1>9, <2>1
    <2>4. /\ (pc[p] \in PostPlaces)' /\ (hdrLock = p)' /\ (shd[msg[p].slot].num = msg[p].num)'
      BY <1>2, <1>3, <1>6, <1>8 DEF PostPlaces, LockedPost
    <2> QED
      BY <1>2, <1>3, <2>1, <2>2, <2>3, <2>4 DEF PostKnows
  <1>14. \A m \in Purgers : pc[m] \in Working => st[m].last <= status'.last /\ Len(buf[m]) <= status'.total
    BY <1>2 DEF FreeInv, MaintKnows
  <1>15. Len(sid) <= Len(sid')
    BY <1>1, <1>2, FileTypes
  <1> QED
    BY <1>2, <1>7, <1>8, <1>11, <1>12, <1>13, <1>14, <1>15, PostersWrite

\* The index record is written at its end, or not at all.
LEMMA PostPutsIdx ==
  ASSUME MaintBase, FreeInv, NEW p \in Posters, AddPutIdx(p)
  PROVE  FreeInv'
  <1>0. p \in Proc /\ p \notin Purgers /\ None \notin Proc
    BY MaintRoles
  <1>1. MaintTypes /\ HyTypes /\ PostKnows(p)
    BY DEF FreeInv, MaintTypes
  <1>2. /\ UNCHANGED <<status, shd, sha, shaEnd, st, msg, buf, pos, haLock>> /\ pc[p] = "add_putidx"
        /\ sid' = PutMsgIdx(sid, msg[p].off, IdxRec(msg[p]))
    BY DEF AddPutIdx, locks, local
  <1>3. /\ pc' = [q \in Proc |-> pc'[q]] /\ \A q \in Proc \ {p} : pc'[q] = pc[q]
        /\ msg[p].off <= Len(sid) => pc'[p] = "add_putstatus" /\ hdrLock' = hdrLock
        /\ ~(msg[p].off <= Len(sid)) => pc'[p] \in {"undo_open", "unlock"}
    BY <1>0, <1>1 DEF HyTypes, Goto, AddPutIdx, AfterFailure
  <1>4. PICK o \in Nat, n \in Nat : o = msg[p].off /\ n = Len(sid)
    <2>1. msg[p] \in Msgs
      BY <1>0, <1>1 DEF HyTypes
    <2>2. msg[p].off \in Nat
      BY <2>1 DEF Msgs
    <2> QED
      BY <1>1, <2>2, FileTypes
  <1>5. hdrLock = p
    BY <1>1, <1>2 DEF PostKnows, LockedPost
  <1>6. /\ msg[p].off = st[p].total /\ msg[p].num = st[p].last + 1
        /\ Len(sid) <= st[p].total
        /\ Len(sid) = st[p].total => status = st[p]
        /\ \A i \in 1..Len(sid) : sid[i].num <= st[p].last
        /\ \A m \in Purgers : pc[m] \in Working => st[m].last <= st[p].last /\ Len(buf[m]) <= st[p].total
        /\ \A m \in Purgers : pc[m] \notin MtHa
        /\ msg[p].slot \in sha /\ shd[msg[p].slot].num = msg[p].num
    BY <1>1, <1>2 DEF PostKnows, Placed, Posting
  <1>7. CASE n < o
    <2>1. sid' = sid /\ pc'[p] \in {"undo_open", "unlock"}
      BY <1>2, <1>3, <1>4, <1>7 DEF PutMsgIdx
    <2>2. MaintTypes' /\ Others(p)
      BY <1>1, <1>2, <1>3, <2>1 DEF MaintTypes, HyTypes, Others
    <2>3. PostKnows(p)'
      BY <2>1 DEF PostKnows, PostPlaces, LockedPost, Placed, Posting
    <2> QED
      BY <1>0, <1>2, <1>5, <2>1, <2>2, <2>3, FreeBeside DEF files
  <1>8. CASE n = o
    <2>1. pc'[p] = "add_putstatus" /\ hdrLock' = hdrLock
      BY <1>3, <1>4, <1>8
    <2>2. /\ status = st[p] /\ n = status.total /\ status.last \in Nat /\ st[p].total = n
      BY <1>1, <1>4, <1>6, <1>8, FileTypes
    <2>3. PICK r \in IdxRecs : r.num = status.last + 1 /\ r.slot = msg[p].slot /\ r = IdxRec(msg[p])
      <3>1. msg[p] \in Msgs /\ msg[p].slot \in Slots
        BY <1>0, <1>1, <1>6 DEF HyTypes, MaintTypes
      <3>2. PICK i \in Nat, s \in Slots, a \in SUBSET Attrs : i = msg[p].num /\ s = msg[p].slot /\ a = msg[p].attr
        BY <3>1 DEF Msgs
      <3>3. IdxRec(msg[p]) = [num |-> i, slot |-> s, attr |-> a]
        BY <3>2 DEF IdxRec
      <3>4. [num |-> i, slot |-> s, attr |-> a] \in IdxRecs
        BY DEF IdxRecs
      <3>5. i = status.last + 1
        BY <1>6, <2>2, <3>2
      <3> QED
        BY <3>2, <3>3, <3>4, <3>5
    <2>4. sid' = Append(sid, r)
      BY <1>2, <1>4, <1>8, <2>3 DEF PutMsgIdx
    <2>5. /\ sid' \in Seq(IdxRecs) /\ Len(sid') = n + 1 /\ sid'[n + 1] = r
          /\ \A k \in 1..n : sid'[k] = sid[k]
      BY <1>1, <1>4, <2>4, FileTypes, AppendProperties
    <2>6. \A k \in 1..Len(sid') : k \in 1..n \/ k = n + 1
      BY <1>4, <2>5
    <2>7. MaintTypes' /\ Others(p)
      BY <1>1, <1>2, <1>3, <2>5 DEF MaintTypes, HyTypes, Others
    <2>8. \A m \in Purgers : pc'[m] = pc[m] /\ st'[m] = st[m] /\ buf'[m] = buf[m] /\ pos'[m] = pos[m]
      BY <2>7, MaintRoles DEF Others
    <2>9. ASSUME NEW i \in 1..n, Gone(i) PROVE Gone(i)'
      BY <1>2, <2>5, <2>8, <2>9 DEF Gone
    <2>10. Owned'
      <3>1. SUFFICES ASSUME NEW i \in 1..Len(sid') PROVE Gone(i)' \/ OwnRec(i)'
        BY DEF Owned
      <3>2. CASE i \in 1..n
        <4>1. Gone(i) \/ OwnRec(i)
          BY <1>4, <3>2 DEF FreeInv, Owned
        <4>2. sid'[i] = sid[i]
          BY <2>5, <3>2
        <4> QED
          BY <1>2, <2>9, <3>2, <4>1, <4>2 DEF OwnRec
      <3>3. CASE i = n + 1
        <4>1. sid'[i] = r
          BY <2>5, <3>3
        <4>2. msg[p].num = r.num /\ r.num >= 1
          BY <1>6, <2>2, <2>3
        <4> QED
          BY <1>2, <1>6, <2>3, <4>1, <4>2 DEF OwnRec
      <3> QED
        BY <2>6, <3>2, <3>3
    <2>11. Numbered'
      <3>1. SUFFICES ASSUME NEW i \in 1..Len(sid'), i <= status.total PROVE sid'[i].num <= status.last
        BY <1>2 DEF Numbered
      <3>2. i \in 1..n
        BY <2>2, <2>6, <3>1
      <3> QED
        BY <1>4, <1>6, <2>2, <2>5, <3>2
    <2>12. MaintIndexSorted'
      <3>1. SUFFICES ASSUME Increasing(sid) PROVE Increasing(sid')
        BY <2>8 DEF FreeInv, MaintIndexSorted, Increasing
      <3>2. SUFFICES ASSUME NEW i \in 1..Len(sid'), NEW j \in 1..Len(sid'), i < j
                     PROVE  sid'[i].num < sid'[j].num
        BY DEF Increasing
      <3>3. i \in 1..n
        BY <1>4, <2>5, <2>6, <3>2
      <3>4. CASE j \in 1..n
        BY <1>4, <2>5, <3>1, <3>2, <3>3, <3>4 DEF Increasing
      <3>5. CASE j = n + 1
        <4>1. sid'[i] = sid[i] /\ sid'[j] = r
          BY <2>5, <3>3, <3>5
        <4>2. sid[i].num <= status.last /\ sid[i].num \in Nat
          BY <1>1, <1>4, <1>6, <2>2, <3>3, FileTypes
        <4> QED
          BY <2>2, <2>3, <4>1, <4>2
      <3> QED
        BY <2>6, <3>4, <3>5
    <2>13. PostKnows(p)'
      <3>1. \A i \in 1..Len(sid') : sid'[i].num <= st[p].last + 1
        <4>1. SUFFICES ASSUME NEW i \in 1..Len(sid') PROVE sid'[i].num <= status.last + 1
          BY <2>2
        <4>2. CASE i \in 1..n
          <5>1. sid'[i] = sid[i] /\ sid[i].num <= status.last /\ sid[i].num \in Nat
            BY <1>1, <1>4, <1>6, <2>2, <2>5, <4>2, FileTypes
          <5> QED
            BY <2>2, <5>1
        <4>3. CASE i = n + 1
          BY <2>2, <2>3, <2>5, <4>3
        <4> QED
          BY <2>6, <4>2, <4>3
      <3>2. (\A m \in Purgers : pc[m] \notin MtHa)'
        BY <1>6, <2>8
      <3>3. (\A m \in Purgers : pc[m] \in Working => st[m].last <= st[p].last /\ Len(buf[m]) <= st[p].total)'
        BY <1>2, <1>6, <2>8
      <3>4. (pc[p] \in PostPlaces)' /\ (hdrLock = p)'
        BY <1>5, <2>1 DEF PostPlaces, LockedPost
      <3>5. (\A i \in 1..Len(sid) : sid[i].num <= st[p].last + 1)'
        BY <1>2, <3>1
      <3> QED
        BY <2>1, <3>2, <3>3, <3>4, <3>5 DEF PostKnows, Placed
    <2>14. \A m \in Purgers : pc[m] \in Working => st[m].last <= status'.last /\ Len(buf[m]) <= status'.total
      BY <1>2 DEF FreeInv, MaintKnows
    <2>15. Len(sid) <= Len(sid') /\ \A k \in 1..Len(sid) : sid'[k] = sid[k]
      BY <1>4, <2>5
    <2>16. ASSUME NEW m \in Purgers, pc[m] = "mt_putstatus" PROVE FALSE
      <3>1. sid = Kept(buf[m]) /\ pc[m] \in Working
        BY <2>16 DEF FreeInv, MaintKnows, Working
      <3>2. Len(Kept(buf[m])) < Len(buf[m]) /\ Len(buf[m]) \in Nat
        BY <1>1, <3>1, KeptRecords DEF FreeInv
      <3>3. Len(buf[m]) <= n
        BY <1>6, <2>2, <3>1
      <3> QED
        BY <1>4, <3>1, <3>2, <3>3
    <2> QED
      BY <1>2, <1>5, <2>7, <2>10, <2>11, <2>12, <2>13, <2>14, <2>15, <2>16, PostersWrite
  <1>9. n <= o
    BY <1>4, <1>6
  <1> QED
    BY <1>4, <1>7, <1>8, <1>9

\* The status is written: its total is one more than the poster has read.
LEMMA PostPutsStatus ==
  ASSUME MaintBase, FreeInv, NEW p \in Posters, AddPutStatus(p)
  PROVE  FreeInv'
  <1>0. p \in Proc /\ p \notin Purgers /\ None \notin Proc
    BY MaintRoles
  <1>1. MaintTypes /\ HyTypes /\ PostKnows(p)
    BY DEF FreeInv, MaintTypes
  <1>2. /\ UNCHANGED <<sid, shd, sha, shaEnd, st, msg, buf, pos, hdrLock, haLock>> /\ pc[p] = "add_putstatus"
        /\ status' = [last |-> st[p].last + 1, total |-> st[p].total + 1]
    BY DEF AddPutStatus, locks, local
  <1>3. pc' = [q \in Proc |-> pc'[q]] /\ pc'[p] = "unlock" /\ \A q \in Proc \ {p} : pc'[q] = pc[q]
    BY <1>0, <1>1 DEF HyTypes, Goto, AddPutStatus
  <1>4. PICK l \in Nat, t \in Nat : l = st[p].last /\ t = st[p].total
    <2>1. st[p] \in Statuses
      BY <1>0, <1>1 DEF HyTypes
    <2> QED
      BY <2>1 DEF Statuses
  <1>5. status' \in Statuses /\ status'.last = l + 1 /\ status'.total = t + 1
    BY <1>2, <1>4 DEF Statuses
  <1>6. MaintTypes' /\ Others(p)
    BY <1>1, <1>2, <1>3, <1>5 DEF MaintTypes, HyTypes, Others
  <1>7. hdrLock = p
    BY <1>1, <1>2 DEF PostKnows, LockedPost
  <1>8. \A m \in Purgers : pc'[m] = pc[m] /\ st'[m] = st[m] /\ buf'[m] = buf[m] /\ pos'[m] = pos[m]
    BY <1>6, MaintRoles DEF Others
  <1>9. \A i : Gone(i) <=> Gone(i)'
    BY <1>2, <1>8 DEF Gone
  <1>10. Owned' /\ MaintIndexSorted'
    <2>1. Owned'
      BY <1>2, <1>9 DEF FreeInv, Owned, OwnRec
    <2> QED
      BY <1>2, <1>8, <2>1 DEF FreeInv, MaintIndexSorted, Increasing
  <1>11. Numbered'
    <2>1. \A i \in 1..Len(sid) : sid[i].num <= l + 1
      BY <1>1, <1>2, <1>4 DEF PostKnows
    <2> QED
      BY <1>2, <1>5, <2>1 DEF Numbered
  <1>12. PostKnows(p)'
    BY <1>3 DEF PostKnows, PostPlaces, LockedPost, Placed, Posting
  <1>13. ASSUME NEW m \in Purgers, pc[m] \in Working
         PROVE  st[m].last <= status'.last /\ Len(buf[m]) <= status'.total
    <2>1. st[m].last <= l /\ Len(buf[m]) <= t
      BY <1>1, <1>2, <1>4, <1>13 DEF PostKnows
    <2>2. st[m].last \in Nat /\ Len(buf[m]) \in Nat
      BY <1>1, <1>13, KeptRecords DEF FreeInv
    <2> QED
      BY <1>5, <2>1, <2>2
  <1>14. Len(sid) <= Len(sid')
    BY <1>1, <1>2, FileTypes
  <1> QED
    BY <1>2, <1>6, <1>7, <1>10, <1>11, <1>12, <1>13, <1>14, PostersWrite

-----------------------------------------------------------------------------
(* maint() at work on the headers.                                          *)

\* While the .sha file is open in maint(), no post can be writing: it waits for
\* that file at the latest.
LEMMA MaintFrees ==
  ASSUME MaintBase, FreeInv, NEW m \in Purgers, pc[m] \in MtHa, pc'[m] \in MtHa, Others(m), MaintTypes',
         UNCHANGED <<status, hdrLock, haLock, st, buf>>,
         Len(sid') = Len(sid), \A k \in 1..Len(sid) : sid'[k].num = sid[k].num,
         Owned', MaintKnows(m)'
  PROVE  FreeInv'
  <1>1. MaintTypes /\ \A n \in Purgers : n = m
    BY MaintRoles DEF FreeInv
  <1>2. pc[m] \in Working /\ pc[m] \notin {"pg_trunc", "mt_trunc"}
    BY DEF MtHa, Working, Taking, Freeing, AtOne
  <1>3. Numbered'
    BY DEF FreeInv, Numbered
  <1>4. MaintIndexSorted'
    <2>1. Increasing(sid)
      BY <1>1, <1>2 DEF FreeInv, MaintIndexSorted
    <2> QED
      BY <2>1 DEF MaintIndexSorted, Increasing
  <1>5. ASSUME NEW q \in Posters PROVE PostKnows(q)'
    <2>1. q \in Proc /\ q # m /\ pc'[q] = pc[q] /\ st'[q] = st[q] /\ msg'[q] = msg[q] /\ PostKnows(q)
      BY MaintRoles DEF Others, FreeInv
    <2>2. pc[q] \notin Posting
      BY <2>1 DEF PostKnows
    <2>3. \A n \in Purgers : pc[n] \in Working /\ pc'[n] \in Working
      BY <1>1 DEF MtHa, Working, Taking, Freeing, AtOne
    <2>4. /\ pc[q] \in PostPlaces /\ pc[q] \in LockedPost => hdrLock = q
          /\ pc[q] \in Placed =>
               /\ msg[q].off = st[q].total /\ msg[q].num = st[q].last + 1
               /\ Len(sid) <= st[q].total
               /\ Len(sid) = st[q].total => status = st[q]
               /\ \A i \in 1..Len(sid) : sid[i].num <= st[q].last
               /\ \A n \in Purgers : st[n].last <= st[q].last /\ Len(buf[n]) <= st[q].total
      BY <2>1, <2>3 DEF PostKnows
    <2>5. pc[q] \in Placed => (\A i \in 1..Len(sid) : sid[i].num <= st[q].last)'
      BY <2>1, <2>4
    <2> QED
      BY <2>1, <2>2, <2>4, <2>5 DEF PostKnows, Posting, Placed
  <1> QED
    BY <1>1, <1>3, <1>4, <1>5 DEF FreeInv

\* What was read from the index stays as it is in maint().
LEMMA MaintRemembers ==
  ASSUME MaintBase, FreeInv, NEW m \in Purgers, pc[m] \in Working, UNCHANGED <<status, st, buf>>
  PROVE  /\ (st[m].last <= status.last)' /\ (Len(buf[m]) <= status.total)' /\ (Len(buf[m]) <= st[m].total)'
         /\ Increasing(buf[m])' /\ (Kept(buf[m]) # buf[m])'
         /\ (\A i \in 1..Len(buf[m]) : buf[m][i].num <= st[m].last)'
  <1>1. /\ st[m].last <= status.last /\ Len(buf[m]) <= status.total /\ Len(buf[m]) <= st[m].total
        /\ Increasing(buf[m]) /\ Kept(buf[m]) # buf[m]
        /\ \A i \in 1..Len(buf[m]) : buf[m][i].num <= st[m].last
    BY DEF FreeInv, MaintKnows
  <1>2. (Kept(buf[m]) # buf[m])'
    <2>1. buf'[m] = buf[m]
      OBVIOUS
    <2> QED
      BY <1>1, <2>1
  <1>3. Increasing(buf[m])' /\ (\A i \in 1..Len(buf[m]) : buf[m][i].num <= st[m].last)'
    BY <1>1 DEF Increasing
  <1> QED
    BY <1>1, <1>2, <1>3

\* The header is written back with its mark, under its own number.
LEMMA MaintPutsHdr ==
  ASSUME MaintBase, FreeInv, NEW m \in Purgers, MaintPutHdr(m)
  PROVE  FreeInv'
  <1>0. m \in Proc /\ None \notin Proc /\ \A n \in Purgers : n = m
    BY MaintRoles
  <1>1. MaintTypes /\ HyTypes /\ MaintKnows(m)
    BY DEF FreeInv, MaintTypes
  <1>2. UNCHANGED <<status, sid, sha, shaEnd, st, msg, buf, pos, hdrLock, haLock>> /\ pc[m] = "mt_puthdr"
    BY DEF MaintPutHdr, locks, local
  <1>3. pc' = [q \in Proc |-> pc'[q]] /\ pc'[m] = "mt_putidx" /\ \A q \in Proc \ {m} : pc'[q] = pc[q]
    BY <1>0, <1>1 DEF HyTypes, Goto, MaintPutHdr
  <1>4. OwnRec(pos[m]) /\ msg[m].slot = sid[pos[m]].slot /\ msg[m].slot \in Slots
    BY <1>2, AtRecord DEF AtOne
  <1>5. /\ msg[m].num = sid[pos[m]].num /\ msg[m].off = pos[m] - 1 /\ "delete" \in msg[m].attr
        /\ pos[m] <= Len(buf[m]) /\ pos[m] >= 1 /\ Marked(buf[m][pos[m]]) /\ haLock = m
        /\ Taken(buf[m], sid)
    BY <1>1, <1>2 DEF MaintKnows, Taking, Freeing, AtOne, MtHa
  <1>6. PICK h \in Hdrs : h = [num |-> msg[m].num, attr |-> msg[m].attr]
    <2>1. msg[m] \in Msgs
      BY <1>0, <1>1 DEF HyTypes
    <2> QED
      BY <2>1 DEF Msgs, Hdrs
  <1>7. shd' \in [Slots -> Hdrs] /\ \A t \in Slots : shd'[t].num = shd[t].num
    <2>1. shd' = [shd EXCEPT ![msg[m].slot] = h] /\ h.num = msg[m].num
      BY <1>6 DEF MaintPutHdr
    <2>2. shd \in [Slots -> Hdrs]
      BY <1>1 DEF HyTypes
    <2>3. h.num = shd[msg[m].slot].num
      BY <1>4, <1>5, <2>1 DEF OwnRec
    <2> QED
      BY <1>4, <2>1, <2>2, <2>3
  <1>8. MaintTypes' /\ Others(m)
    BY <1>1, <1>2, <1>3, <1>7 DEF MaintTypes, HyTypes, Others
  <1>9. \A i \in 1..Len(sid) : Gone(i) => Gone(i)'
    <2>1. SUFFICES ASSUME NEW i \in 1..Len(sid), Gone(i) PROVE Gone(i)'
      OBVIOUS
    <2>2. i <= pos[m] /\ Marked(buf[m][i]) /\ i # pos[m]
      BY <1>0, <1>2, <2>1 DEF Gone, AtOne
    <2> QED
      BY <1>2, <1>3, <2>2 DEF Gone, Freeing, AtOne
  <1>10. Owned'
    <2>1. SUFFICES ASSUME NEW i \in 1..Len(sid), ~Gone(i) PROVE OwnRec(i)'
      BY <1>2, <1>9 DEF Owned
    <2>2. OwnRec(i) /\ sid[i].slot \in Slots
      BY <1>1, <2>1, FileTypes DEF FreeInv, Owned
    <2> QED
      BY <1>2, <1>7, <2>2 DEF OwnRec
  <1>11. MaintKnows(m)'
    <2>1. /\ pc[m] \in Working /\ pc'[m] \in Working /\ pc'[m] \in MaintPlaces
      BY <1>2, <1>3 DEF MaintPlaces, Working, Taking, Freeing, AtOne
    <2>2. /\ (st[m].last <= status.last)' /\ (Len(buf[m]) <= status.total)' /\ (Len(buf[m]) <= st[m].total)'
          /\ Increasing(buf[m])' /\ (Kept(buf[m]) # buf[m])'
          /\ (\A i \in 1..Len(buf[m]) : buf[m][i].num <= st[m].last)'
      BY <1>2, <2>1, MaintRemembers
    <2>3. Taken(buf[m], sid)' /\ (haLock = m)'
      BY <1>2, <1>5 DEF Taken
    <2>4. /\ pos'[m] <= Len(buf'[m]) /\ pos'[m] >= 1 /\ Marked(buf'[m][pos'[m]])
          /\ msg'[m].slot = sid'[pos'[m]].slot /\ msg'[m].off = pos'[m] - 1 /\ msg'[m].num = sid'[pos'[m]].num
          /\ "delete" \in msg'[m].attr
      BY <1>2, <1>4, <1>5
    <2> QED
      BY <1>3, <2>1, <2>2, <2>3, <2>4 DEF MaintKnows
  <1>12. pc[m] \in MtHa /\ pc'[m] \in MtHa
    BY <1>2, <1>3 DEF MtHa
  <1> QED
    BY <1>2, <1>8, <1>10, <1>11, <1>12, MaintFrees

\* Its index record is written over with the mark.
LEMMA MaintPutsIdx ==
  ASSUME MaintBase, FreeInv, NEW m \in Purgers, MaintPutIdx(m)
  PROVE  FreeInv'
  <1>0. m \in Proc /\ None \notin Proc /\ \A n \in Purgers : n = m
    BY MaintRoles
  <1>1. MaintTypes /\ HyTypes /\ MaintKnows(m)
    BY DEF FreeInv, MaintTypes
  <1>2. UNCHANGED <<status, shd, sha, shaEnd, st, msg, buf, pos, hdrLock, haLock>> /\ pc[m] = "mt_putidx"
    BY DEF MaintPutIdx, local
  <1>3. /\ pc' = [q \in Proc |-> pc'[q]] /\ pc'[m] \in {"mt_freedat", "mt_freehdr"}
        /\ \A q \in Proc \ {m} : pc'[q] = pc[q]
    BY <1>0, <1>1 DEF HyTypes, Goto, MaintPutIdx, MaintBase
  <1>4. /\ pos[m] \in 1..Len(sid) /\ pos[m] \in 1..Len(buf[m]) /\ pos[m] \in Nat
        /\ msg[m].slot = sid[pos[m]].slot /\ msg[m].slot \in Slots
    BY <1>2, AtRecord DEF AtOne
  <1>5. /\ msg[m].num = sid[pos[m]].num /\ msg[m].off = pos[m] - 1 /\ "delete" \in msg[m].attr
        /\ pos[m] <= Len(buf[m]) /\ pos[m] >= 1 /\ Marked(buf[m][pos[m]]) /\ haLock = m
        /\ Taken(buf[m], sid)
    BY <1>1, <1>2 DEF MaintKnows, Taking, Freeing, AtOne, MtHa
  <1>6. PICK r \in IdxRecs : r = IdxRec(msg[m]) /\ r.num = sid[pos[m]].num /\ r.slot = sid[pos[m]].slot /\ Marked(r)
    <2>1. msg[m] \in Msgs
      BY <1>0, <1>1 DEF HyTypes
    <2>2. PICK i \in Nat, s \in Slots, a \in SUBSET Attrs : i = msg[m].num /\ s = msg[m].slot /\ a = msg[m].attr
      BY <1>4, <2>1 DEF Msgs
    <2>3. IdxRec(msg[m]) = [num |-> i, slot |-> s, attr |-> a]
      BY <2>2 DEF IdxRec
    <2>4. [num |-> i, slot |-> s, attr |-> a] \in IdxRecs
      BY DEF IdxRecs
    <2> QED
      BY <1>4, <1>5, <2>2, <2>3, <2>4 DEF Marked
  <1>7. PICK o \in Nat : o = msg[m].off /\ o + 1 = pos[m] /\ o < Len(sid)
    <2>1. Len(sid) \in Nat /\ pos[m] - 1 \in Nat /\ (pos[m] - 1) + 1 = pos[m] /\ pos[m] - 1 < Len(sid)
      BY <1>1, <1>4, FileTypes
    <2> QED
      BY <1>5, <2>1
  <1>8. /\ sid' \in Seq(IdxRecs) /\ Len(sid') = Len(sid) /\ sid'[pos[m]] = r
        /\ \A k \in 1..Len(sid) : sid'[k].num = sid[k].num /\ sid'[k].slot = sid[k].slot
        /\ \A k \in 1..Len(sid) : k # pos[m] => sid'[k] = sid[k]
    <2>1. sid' = PutMsgIdx(sid, o, r)
      BY <1>6, <1>7 DEF MaintPutIdx
    <2>2. PICK s \in Seq(IdxRecs) : s = sid
      BY <1>1, FileTypes
    <2>3. o < Len(s) /\ r.num = s[o + 1].num /\ r.slot = s[o + 1].slot
      BY <1>6, <1>7, <2>2
    <2>4. /\ PutMsgIdx(s, o, r) \in Seq(IdxRecs) /\ Len(PutMsgIdx(s, o, r)) = Len(s)
          /\ PutMsgIdx(s, o, r)[o + 1] = r
          /\ \A k \in 1..Len(s) : PutMsgIdx(s, o, r)[k].num = s[k].num /\ PutMsgIdx(s, o, r)[k].slot = s[k].slot
          /\ \A k \in 1..Len(s) : k # o + 1 => PutMsgIdx(s, o, r)[k] = s[k]
      BY <2>3, RecordPut
    <2> QED
      BY <1>7, <2>1, <2>2, <2>4
  <1>9. MaintTypes' /\ Others(m)
    BY <1>1, <1>2, <1>3, <1>8 DEF MaintTypes, HyTypes, Others
  <1>10. \A i \in 1..Len(sid) : Gone(i) => Gone(i)'
    <2>1. SUFFICES ASSUME NEW i \in 1..Len(sid), Gone(i) PROVE Gone(i)'
      OBVIOUS
    <2>2. i <= pos[m] /\ Marked(buf[m][i]) /\ i # pos[m]
      BY <1>0, <1>2, <2>1 DEF Gone, AtOne
    <2> QED
      BY <1>2, <1>3, <2>2 DEF Gone, Freeing, AtOne
  <1>11. Owned'
    <2>1. SUFFICES ASSUME NEW i \in 1..Len(sid), ~Gone(i) PROVE OwnRec(i)'
      BY <1>8, <1>10 DEF Owned
    <2>2. OwnRec(i)
      BY <2>1 DEF FreeInv, Owned
    <2> QED
      BY <1>2, <1>8, <2>2 DEF OwnRec
  <1>12. Taken(buf[m], sid')
    <2>1. PICK c : c = buf[m]
      OBVIOUS
    <2>2. Taken(c, sid) /\ Len(c) \in Nat /\ Len(sid) \in Nat
      BY <1>0, <1>1, <1>5, <2>1, FileTypes DEF HyTypes
    <2>3. \A k \in 1..Len(c) : k \in 1..Len(sid)
      BY <2>2 DEF Taken
    <2>4. ASSUME NEW k \in 1..Len(c)
          PROVE  c[k].num = sid'[k].num /\ IF Marked(c[k]) THEN Marked(sid'[k]) ELSE c[k] = sid'[k]
      <3>1. c[k].num = sid[k].num /\ IF Marked(c[k]) THEN Marked(sid[k]) ELSE c[k] = sid[k]
        BY <2>2 DEF Taken
      <3>2. CASE k = pos[m]
        BY <1>5, <1>6, <1>8, <2>1, <2>3, <3>1, <3>2
      <3>3. CASE k # pos[m]
        BY <1>8, <2>3, <3>1, <3>3
      <3> QED
        BY <3>2, <3>3
    <2>5. Len(c) <= Len(sid')
      BY <1>8, <2>2 DEF Taken
    <2>6. Taken(c, sid')
      BY <2>4, <2>5 DEF Taken
    <2> QED
      BY <2>1, <2>6
  <1>13. MaintKnows(m)'
    <2>1. /\ pc[m] \in Working /\ pc'[m] \in Working /\ pc'[m] \in MaintPlaces
      BY <1>2, <1>3 DEF MaintPlaces, Working, Taking, Freeing, AtOne
    <2>2. /\ (st[m].last <= status.last)' /\ (Len(buf[m]) <= status.total)' /\ (Len(buf[m]) <= st[m].total)'
          /\ Increasing(buf[m])' /\ (Kept(buf[m]) # buf[m])'
          /\ (\A i \in 1..Len(buf[m]) : buf[m][i].num <= st[m].last)'
      BY <1>2, <2>1, MaintRemembers
    <2>3. Taken(buf[m], sid)' /\ (haLock = m)'
      BY <1>2, <1>5, <1>12 DEF Taken
    <2>4. /\ pos'[m] <= Len(buf'[m]) /\ pos'[m] >= 1 /\ Marked(buf'[m][pos'[m]])
          /\ msg'[m].slot = sid'[pos'[m]].slot
      BY <1>2, <1>4, <1>5, <1>8
    <2> QED
      BY <1>3, <2>1, <2>2, <2>3, <2>4 DEF MaintKnows
  <1>14. pc[m] \in MtHa /\ pc'[m] \in MtHa
    BY <1>2, <1>3 DEF MtHa
  <1>15. Len(sid') = Len(sid) /\ \A k \in 1..Len(sid) : sid'[k].num = sid[k].num
    BY <1>8
  <1> QED
    BY <1>2, <1>9, <1>11, <1>13, <1>14, <1>15, MaintFrees

\* The header block is freed: it is the block of no other record, and when the
\* file is cut there no block that is allocated goes with it.
LEMMA MaintFreesHdr ==
  ASSUME MaintBase, FreeInv, NEW m \in Purgers, MaintFreeHdr(m)
  PROVE  FreeInv'
  <1>0. m \in Proc /\ None \notin Proc /\ \A n \in Purgers : n = m
    BY MaintRoles
  <1>1. MaintTypes /\ HyTypes /\ MaintKnows(m)
    BY DEF FreeInv, MaintTypes
  <1>2. UNCHANGED <<status, sid, st, msg, buf, pos, hdrLock, haLock>> /\ pc[m] = "mt_freehdr"
    BY DEF MaintFreeHdr, locks, local
  <1>3. pc' = [q \in Proc |-> pc'[q]] /\ pc'[m] = "mt_scan" /\ \A q \in Proc \ {m} : pc'[q] = pc[q]
    BY <1>0, <1>1 DEF HyTypes, Goto, MaintFreeHdr
  <1>4. PICK f \in Nat : f = msg[m].slot /\ f \in sha /\ f \in Slots /\ f >= 1
    <2>1. msg[m].slot \in sha /\ msg[m].slot \in Slots
      BY <1>2, AtRecord DEF AtOne
    <2>2. msg[m].slot \in Nat /\ msg[m].slot >= 1
      BY <2>1, SmbBaseAssumption
    <2> QED
      BY <2>1, <2>2
  <1>5. /\ pos[m] \in 1..Len(sid) /\ OwnRec(pos[m]) /\ sid[pos[m]].slot = f /\ Increasing(sid)
        /\ Marked(buf[m][pos[m]]) /\ Taken(buf[m], sid)
    BY <1>2, <1>4, AtRecord DEF AtOne
  <1>6. /\ sha' = sha \ {f}
        /\ \/ shaEnd <= f /\ shaEnd' = f - 1 /\ shd' = [s \in Slots |-> IF s < f THEN shd[s] ELSE NoHdr]
           \/ shaEnd' = shaEnd /\ shd' = shd
    BY <1>4 DEF MaintFreeHdr
  <1>7. shd' \in [Slots -> Hdrs] /\ \A s \in sha : s # f => shd'[s] = shd[s]
    <2>1. shd \in [Slots -> Hdrs] /\ NoHdr \in Hdrs
      BY <1>1 DEF HyTypes, NoHdr, Hdrs
    <2>2. CASE shd' = shd
      BY <2>1, <2>2
    <2>3. CASE shaEnd <= f /\ shd' = [s \in Slots |-> IF s < f THEN shd[s] ELSE NoHdr]
      <3>1. shd' \in [Slots -> Hdrs]
        BY <2>1, <2>3
      <3>2. ASSUME NEW s \in sha, s # f PROVE shd'[s] = shd[s]
        <4>1. s \in Slots /\ s \in Nat /\ s <= shaEnd /\ shaEnd \in Nat
          BY <1>1, SmbBaseAssumption DEF MaintTypes
        <4>2. s < f
          BY <2>3, <3>2, <4>1
        <4> QED
          BY <2>3, <4>1, <4>2
      <3> QED
        BY <3>1, <3>2
    <2> QED
      BY <1>6, <2>2, <2>3
  <1>8. sha' \subseteq Slots /\ shaEnd' \in Nat /\ \A s \in sha' : s <= shaEnd'
    <2>1. shaEnd \in Nat /\ \A s \in sha : s \in Nat /\ s <= shaEnd
      BY <1>1, SmbBaseAssumption DEF MaintTypes
    <2>2. CASE shaEnd' = shaEnd
      BY <1>1, <1>6, <2>1, <2>2 DEF MaintTypes
    <2>3. CASE shaEnd <= f /\ shaEnd' = f - 1
      <3>1. shaEnd' \in Nat
        BY <1>4, <2>3
      <3>2. ASSUME NEW s \in sha' PROVE s <= shaEnd'
        <4>1. s \in Nat /\ s <= shaEnd /\ s # f
          BY <1>6, <2>1, <3>2
        <4> QED
          BY <2>1, <2>3, <4>1
      <3> QED
        BY <1>1, <1>6, <3>1, <3>2 DEF MaintTypes
    <2> QED
      BY <1>6, <2>2, <2>3
  <1>9. MaintTypes' /\ Others(m)
    BY <1>1, <1>2, <1>3, <1>7, <1>8 DEF MaintTypes, HyTypes, Others
  <1>10. \A i \in 1..Len(sid) : Gone(i) => Gone(i)'
    <2>1. SUFFICES ASSUME NEW i \in 1..Len(sid), Gone(i) PROVE Gone(i)'
      OBVIOUS
    <2>2. i <= pos[m] /\ Marked(buf[m][i])
      BY <1>0, <1>2, <2>1 DEF Gone, AtOne
    <2> QED
      BY <1>2, <1>3, <2>2 DEF Gone, Freeing, AtOne
  <1>11. Gone(pos[m])'
    <2>1. pos[m] <= pos[m]
      BY <1>5
    <2> QED
      BY <1>2, <1>3, <1>5, <2>1 DEF Gone, Freeing, AtOne
  <1>12. Owned'
    <2>1. SUFFICES ASSUME NEW i \in 1..Len(sid), ~Gone(i), i # pos[m] PROVE OwnRec(i)'
      BY <1>2, <1>10, <1>11 DEF Owned
    <2>2. OwnRec(i)
      BY <2>1 DEF FreeInv, Owned
    <2>3. sid[i].slot # f
      <3>1. SUFFICES ASSUME sid[i].slot = f PROVE FALSE
        OBVIOUS
      <3>2. sid[i].num = sid[pos[m]].num
        BY <1>5, <2>2, <3>1 DEF OwnRec
      <3>3. PICK s \in Seq(IdxRecs) : s = sid
        BY <1>1, FileTypes
      <3>4. PICK k \in 1..Len(s) : k = pos[m]
        BY <1>5, <3>3
      <3>5. Increasing(s) /\ i \in 1..Len(s) /\ s[i].num = s[k].num
        BY <1>5, <3>2, <3>3, <3>4
      <3>6. i = k
        BY <3>5, SameNumber
      <3> QED
        BY <2>1, <3>4, <3>6
    <2> QED
      BY <1>2, <1>6, <1>7, <2>2, <2>3 DEF OwnRec
  <1>13. MaintKnows(m)'
    <2>1. /\ pc[m] \in Working /\ pc'[m] \in Working /\ pc'[m] \in MaintPlaces
      BY <1>2, <1>3 DEF MaintPlaces, Working, Taking, Freeing, AtOne
    <2>2. /\ (st[m].last <= status.last)' /\ (Len(buf[m]) <= status.total)' /\ (Len(buf[m]) <= st[m].total)'
          /\ Increasing(buf[m])' /\ (Kept(buf[m]) # buf[m])'
          /\ (\A i \in 1..Len(buf[m]) : buf[m][i].num <= st[m].last)'
      BY <1>2, <2>1, MaintRemembers
    <2>3. haLock = m /\ pos[m] <= Len(buf[m])
      BY <1>1, <1>2 DEF MaintKnows, Freeing, AtOne, MtHa
    <2>4. Taken(buf[m], sid)' /\ (haLock = m)' /\ (pos[m] <= Len(buf[m]))'
      BY <1>2, <1>5, <2>3 DEF Taken
    <2>5. pc'[m] \notin AtOne /\ pc'[m] \notin {"idle", "mt_load", "mt_da", "mt_ha", "mt_trunc", "mt_putstatus"}
      BY <1>3 DEF AtOne
    <2> QED
      BY <1>3, <2>1, <2>2, <2>4, <2>5 DEF MaintKnows, AtOne
  <1>14. pc[m] \in MtHa /\ pc'[m] \in MtHa
    BY <1>2, <1>3 DEF MtHa
  <1>15. Len(sid') = Len(sid) /\ \A k \in 1..Len(sid) : sid'[k].num = sid[k].num
    BY <1>2
  <1> QED
    BY <1>2, <1>9, <1>12, <1>13, <1>14, <1>15, MaintFrees

-----------------------------------------------------------------------------
(* maint() rewrites the index.                                              *)

\* Every record it writes or leaves was a record of the index, and if its header
\* may be gone afterwards it could be gone before: a post at work finds the
\* index no longer than it was, and its own slot still in no other record.
LEMMA MaintRewrites ==
  ASSUME MaintBase, FreeInv, NEW m \in Purgers, pc[m] \in Working, pc'[m] \notin MtHa, Others(m), MaintTypes',
         UNCHANGED <<shd, sha, shaEnd, hdrLock, haLock, st, buf>>,
         \A i \in 1..Len(sid') : \E k \in 1..Len(sid) : sid'[i] = sid[k] /\ (~Gone(k) \/ Gone(i)'),
         \/ Len(sid') = Len(sid) /\ status' = status
         \/ Len(sid') < Len(buf[m]),
         Numbered', MaintIndexSorted', MaintKnows(m)'
  PROVE  FreeInv'
  <1>1. MaintTypes /\ HyTypes /\ m \in Proc /\ \A n \in Purgers : n = m
    BY MaintRoles DEF FreeInv, MaintTypes
  <1>2. Owned'
    <2>1. SUFFICES ASSUME NEW i \in 1..Len(sid'), ~Gone(i)' PROVE OwnRec(i)'
      BY DEF Owned
    <2>2. PICK k \in 1..Len(sid) : sid'[i] = sid[k] /\ ~Gone(k)
      BY <2>1
    <2>3. OwnRec(k)
      BY <2>2 DEF FreeInv, Owned
    <2> QED
      BY <2>2, <2>3 DEF OwnRec
  <1>3. ASSUME NEW q \in Posters PROVE PostKnows(q)'
    <2>1. q \in Proc /\ q # m /\ pc'[q] = pc[q] /\ st'[q] = st[q] /\ msg'[q] = msg[q] /\ PostKnows(q)
      BY MaintRoles DEF Others, FreeInv
    <2>2. /\ pc[q] \in Placed \cup {"add_putstatus"} => st[m].last <= st[q].last /\ Len(buf[m]) <= st[q].total
          /\ pc[q] \in Placed =>
               /\ msg[q].off = st[q].total /\ msg[q].num = st[q].last + 1
               /\ Len(sid) <= st[q].total
               /\ Len(sid) = st[q].total => status = st[q]
               /\ \A i \in 1..Len(sid) : sid[i].num <= st[q].last
          /\ pc[q] = "add_putstatus" => \A i \in 1..Len(sid) : sid[i].num <= st[q].last + 1
      BY <2>1 DEF PostKnows
    <2>3. pc[q] \in Placed => Len(sid') <= st[q].total /\ (Len(sid') = st[q].total => status' = st[q])
      <3>1. SUFFICES ASSUME pc[q] \in Placed, Len(sid') < Len(buf[m])
                     PROVE  Len(sid') <= st[q].total /\ Len(sid') # st[q].total
        BY <2>2
      <3>2. PICK b \in Nat, l \in Nat, t \in Nat : b = Len(buf[m]) /\ l = Len(sid') /\ t = st[q].total
        <4>1. Len(buf[m]) \in Nat /\ st[q] \in Statuses
          BY <1>1, <2>1 DEF HyTypes
        <4>2. sid' \in Seq(IdxRecs)
          BY DEF MaintTypes, HyTypes
        <4>3. Len(sid') \in Nat
          BY <4>2
        <4>4. st[q].total \in Nat
          BY <4>1 DEF Statuses
        <4> QED
          BY <4>1, <4>3, <4>4
      <3>3. l < b /\ b <= t
        BY <2>2, <3>1, <3>2
      <3>4. l <= t /\ l # t
        BY <3>3
      <3> QED
        BY <3>2, <3>4
    <2>4. /\ pc[q] \in Placed => \A i \in 1..Len(sid') : sid'[i].num <= st[q].last
          /\ pc[q] = "add_putstatus" => \A i \in 1..Len(sid') : sid'[i].num <= st[q].last + 1
      BY <2>2
    <2>5. pc[q] = "add_puthdr" => (\A i \in 1..Len(sid) : sid[i].slot = msg[q].slot => Gone(i))'
      <3>1. SUFFICES ASSUME pc[q] = "add_puthdr", NEW i \in 1..Len(sid'), sid'[i].slot = msg[q].slot, ~Gone(i)'
                     PROVE  FALSE
        BY <2>1
      <3>2. PICK k \in 1..Len(sid) : sid'[i] = sid[k] /\ ~Gone(k)
        BY <3>1
      <3> QED
        BY <2>1, <3>1, <3>2 DEF PostKnows
    <2>6. /\ pc[q] \in PostPlaces /\ (pc[q] \in LockedPost => hdrLock = q)
          /\ (pc[q] \in {"add_puthdr", "add_putidx"} => msg[q].slot \in sha)
          /\ (pc[q] = "add_putidx" => shd[msg[q].slot].num = msg[q].num)
      BY <2>1 DEF PostKnows
    <2>7. /\ (\A n \in Purgers : pc[n] \notin MtHa)'
          /\ pc[q] \in Placed \cup {"add_putstatus"} =>
               (\A n \in Purgers : st[n].last <= st[q].last /\ Len(buf[n]) <= st[q].total)'
      BY <1>1, <2>1, <2>2
    <2> QED
      BY <2>1, <2>2, <2>3, <2>4, <2>5, <2>6, <2>7 DEF PostKnows
  <1> QED
    BY <1>1, <1>2, <1>3 DEF FreeInv

\* t is s with the records of b written over its start.
IsOver(t, b, s) ==
    /\ t \in Seq(IdxRecs) /\ Len(t) = Len(s)
    /\ \A i \in 1..Len(b) : t[i] = b[i]
    /\ \A k \in 1..Len(s) : k \in 1..Len(b) \/ t[k] = s[k]

LEMMA OverIs ==
  ASSUME NEW s \in Seq(IdxRecs), NEW b \in Seq(IdxRecs), Len(b) <= Len(s), NEW t, t = Over(b, s)
  PROVE  IsOver(t, b, s)
  <1>1. Len(b) \in Nat /\ Len(s) \in Nat
    OBVIOUS
  <1> DEFINE r == SubSeq(s, Len(b) + 1, Len(s))
  <1>2. /\ r \in Seq(IdxRecs) /\ Len(r) = Len(s) - Len(b)
        /\ \A i \in 1..Len(r) : r[i] = s[Len(b) + i]
    <2>1. /\ Len(b) + 1 \in 1..Len(s) + 1 /\ Len(s) \in Len(b)..Len(s)
          /\ \A i \in 1..Len(s) - Len(b) : Len(b) + 1 + i - 1 = Len(b) + i
      BY <1>1
    <2> QED
      BY <1>1, <2>1
  <1> HIDE DEF r
  <1>3. t = b \o r
    BY DEF r, Over
  <1>4. t \in Seq(IdxRecs) /\ Len(t) = Len(b) + Len(r)
    BY <1>2, <1>3, ConcatProperties
  <1>5. \A i \in 1..Len(t) : t[i] = IF i <= Len(b) THEN b[i] ELSE r[i - Len(b)]
    BY <1>2, <1>3, ConcatProperties
  <1>6. Len(t) = Len(s)
    BY <1>1, <1>2, <1>4
  <1>7. \A i \in 1..Len(b) : t[i] = b[i]
    BY <1>1, <1>5, <1>6
  <1>8. ASSUME NEW k \in 1..Len(s), k \notin 1..Len(b) PROVE t[k] = s[k]
    <2>1. k \in 1..Len(t) /\ ~(k <= Len(b)) /\ k - Len(b) \in 1..Len(r) /\ Len(b) + (k - Len(b)) = k
      BY <1>1, <1>2, <1>6, <1>8
    <2> QED
      BY <1>2, <1>5, <2>1
  <1> QED
    BY <1>4, <1>6, <1>7, <1>8 DEF IsOver

\* The records kept of what was read are written over the start of the index.
LEMMA MaintWrites ==
  ASSUME MaintBase, FreeInv, NEW m \in Purgers, MaintWrite(m)
  PROVE  FreeInv'
  <1>0. m \in Proc /\ None \notin Proc /\ \A n \in Purgers : n = m
    BY MaintRoles
  <1>1. MaintTypes /\ HyTypes /\ MaintKnows(m) /\ Numbered
    BY DEF FreeInv, MaintTypes
  <1>2. UNCHANGED <<status, shd, sha, shaEnd, st, msg, buf, pos, hdrLock, haLock>> /\ pc[m] = "mt_write"
    BY DEF MaintWrite, locks, local
  <1>3. pc' = [q \in Proc |-> pc'[q]] /\ pc'[m] = "mt_trunc" /\ \A q \in Proc \ {m} : pc'[q] = pc[q]
    BY <1>0, <1>1 DEF HyTypes, Goto, MaintWrite
  <1>4. pc[m] \in Working /\ pc[m] \in Taking /\ pc'[m] \in Working /\ pc'[m] \notin MtHa /\ pc'[m] \in MaintPlaces
    BY <1>2, <1>3 DEF Working, Taking, MtHa, MaintPlaces
  <1>5. /\ buf[m] \in Seq(IdxRecs) /\ Len(buf[m]) \in Nat
        /\ Kept(buf[m]) \in Seq(IdxRecs) /\ Len(Kept(buf[m])) \in Nat /\ Len(Kept(buf[m])) < Len(buf[m])
        /\ Keeps(Kept(buf[m]), buf[m]) /\ st[m].last \in Nat
    BY <1>1, <1>4, KeptRecords
  <1>6. PICK b \in Seq(IdxRecs), c \in Seq(IdxRecs), s \in Seq(IdxRecs) :
          /\ b = Kept(buf[m]) /\ c = buf[m] /\ s = sid
          /\ Len(b) \in Nat /\ Len(c) \in Nat /\ Len(b) < Len(c) /\ Keeps(b, c) /\ Taken(c, s)
    <2>1. sid \in Seq(IdxRecs)
      BY <1>1, FileTypes
    <2>2. Taken(buf[m], sid)
      BY <1>1, <1>4 DEF MaintKnows
    <2> QED
      BY <1>5, <2>1, <2>2
  <1>7. Len(s) \in Nat /\ Len(b) <= Len(s)
    BY <1>6 DEF Taken
  <1>8. PICK t : t = sid'
    OBVIOUS
  <1>9. t = Over(b, s)
    BY <1>6, <1>8 DEF MaintWrite, Over
  <1>10. /\ t \in Seq(IdxRecs) /\ Len(t) = Len(s)
         /\ \A i \in 1..Len(b) : t[i] = b[i]
         /\ \A k \in 1..Len(s) : k \in 1..Len(b) \/ t[k] = s[k]
    <2>1. Len(b) <= Len(s)
      BY <1>7
    <2>2. IsOver(t, b, s)
      BY <1>9, <2>1, OverIs
    <2> QED
      BY <2>2 DEF IsOver
  <1>11. \A i \in 1..Len(b) : ~Marked(b[i]) /\ \E k \in 1..Len(c) : k \in 1..Len(s) /\ b[i] = s[k] /\ b[i] = c[k]
    <2>1. Keeps(b, c) /\ Taken(c, s)
      BY <1>6
    <2>2. ASSUME NEW i \in 1..Len(b)
          PROVE  ~Marked(b[i]) /\ \E k \in 1..Len(c) : k \in 1..Len(s) /\ b[i] = s[k] /\ b[i] = c[k]
      BY <2>1, KeptOfTaken
    <2> QED
      BY <2>2
  <1>12. MaintTypes' /\ Others(m)
    BY <1>1, <1>2, <1>3, <1>8, <1>10 DEF MaintTypes, HyTypes, Others
  <1>13. \A k \in 1..Len(s) : Gone(k) => Marked(s[k])
    BY <1>1, <1>6, GoneMarked DEF FreeInv
  <1>14. \A i \in 1..Len(sid') : \E k \in 1..Len(sid) : sid'[i] = sid[k] /\ (~Gone(k) \/ Gone(i)')
    <2>1. SUFFICES ASSUME NEW i \in 1..Len(s)
                   PROVE  \E k \in 1..Len(s) : t[i] = s[k] /\ (~Gone(k) \/ Gone(i)')
      BY <1>6, <1>8, <1>10
    <2>2. CASE i \in 1..Len(b)
      <3>1. PICK k \in 1..Len(c) : k \in 1..Len(s) /\ b[i] = s[k] /\ ~Marked(b[i])
        BY <1>11, <2>2
      <3>2. t[i] = s[k] /\ ~Gone(k)
        BY <1>10, <1>13, <2>2, <3>1
      <3> QED
        BY <3>1, <3>2
    <2>3. CASE i \notin 1..Len(b)
      <3>1. t[i] = s[i]
        BY <1>10, <2>3
      <3>2. Gone(i) => Gone(i)'
        <4>1. Gone(i) => Marked(t[i])
          BY <1>13, <3>1
        <4> QED
          BY <1>3, <1>8, <4>1 DEF Gone
      <3> QED
        BY <3>1, <3>2
    <2> QED
      BY <2>2, <2>3
  <1>15. /\ st[m].last <= status.last /\ \A i \in 1..Len(c) : c[i].num <= st[m].last
    BY <1>1, <1>4, <1>6 DEF MaintKnows
  <1>16. Numbered'
    <2>1. SUFFICES ASSUME NEW i \in 1..Len(s), i <= status.total PROVE t[i].num <= status.last
      BY <1>2, <1>8, <1>10 DEF Numbered
    <2>2. CASE i \in 1..Len(b)
      <3>1. PICK k \in 1..Len(c) : k \in 1..Len(s) /\ b[i] = c[k]
        BY <1>11, <2>2
      <3>2. t[i] = c[k] /\ c[k].num <= st[m].last /\ c[k] \in IdxRecs
        BY <1>6, <1>10, <1>15, <2>2, <3>1
      <3>3. PICK n \in Nat, o \in Nat, l \in Nat : n = c[k].num /\ o = st[m].last /\ l = status.last
        <4>1. status.last \in Nat
          BY <1>1, FileTypes
        <4> QED
          BY <1>5, <3>2, <4>1 DEF IdxRecs
      <3>4. n <= o /\ o <= l
        BY <1>15, <3>2, <3>3
      <3>5. n <= l
        BY <3>4
      <3> QED
        BY <3>2, <3>3, <3>5
    <2>3. CASE i \notin 1..Len(b)
      BY <1>1, <1>6, <1>10, <2>1, <2>3 DEF Numbered
    <2> QED
      BY <2>2, <2>3
  <1>17. MaintIndexSorted'
    BY <1>3 DEF MaintIndexSorted
  <1>18. MaintKnows(m)'
    <2>1. /\ (st[m].last <= status.last)' /\ (Len(buf[m]) <= status.total)' /\ (Len(buf[m]) <= st[m].total)'
          /\ Increasing(buf[m])' /\ (Kept(buf[m]) # buf[m])'
          /\ (\A i \in 1..Len(buf[m]) : buf[m][i].num <= st[m].last)'
      BY <1>2, <1>4, MaintRemembers
    <2>2. Cut(Kept(buf[m]), sid)'
      <3>1. Cut(b, t)
        BY <1>7, <1>10 DEF Cut
      <3>2. b = Kept(buf'[m])
        BY <1>2, <1>6
      <3> QED
        BY <1>8, <3>1, <3>2
    <2>3. /\ pc'[m] \notin AtOne /\ pc'[m] \notin Freeing /\ pc'[m] \notin Taking
          /\ pc'[m] \notin {"idle", "mt_load", "mt_da", "mt_ha", "mt_lockhdr", "mt_puthdr", "mt_putidx", "mt_putstatus"}
      BY <1>3 DEF AtOne, Freeing, Taking
    <2> QED
      BY <1>4, <2>1, <2>2, <2>3 DEF MaintKnows
  <1>19. Len(sid') = Len(sid) /\ status' = status
    BY <1>2, <1>6, <1>8, <1>10
  <1> QED
    BY <1>2, <1>4, <1>12, <1>14, <1>16, <1>17, <1>18, <1>19, MaintRewrites

\* What is left when the index is cut behind the records kept
LEMMA CutIs ==
  ASSUME NEW s \in Seq(IdxRecs), NEW b \in Seq(IdxRecs), Cut(b, s)
  PROVE  Resize(s, Len(b)) = b
  <1>1. Len(b) \in Nat /\ Len(s) \in Nat /\ Len(b) <= Len(s) /\ \A i \in 1..Len(b) : s[i] = b[i]
    BY DEF Cut
  <1>2. Resize(s, Len(b)) = [i \in 1..Len(b) |-> b[i]]
    BY <1>1 DEF Resize
  <1>3. b = [i \in 1..Len(b) |-> b[i]]
    OBVIOUS
  <1> QED
    BY <1>2, <1>3

\* The index is cut: the records kept are left, and they have their headers.
LEMMA MaintCuts ==
  ASSUME MaintBase, FreeInv, NEW m \in Purgers, MaintTruncate(m)
  PROVE  FreeInv'
  <1>0. m \in Proc /\ None \notin Proc /\ \A n \in Purgers : n = m
    BY MaintRoles
  <1>1. MaintTypes /\ HyTypes /\ MaintKnows(m) /\ Numbered
    BY DEF FreeInv, MaintTypes
  <1>2. UNCHANGED <<status, shd, sha, shaEnd, st, msg, buf, pos, hdrLock, haLock>> /\ pc[m] = "mt_trunc"
    BY DEF MaintTruncate, locks, local
  <1>3. pc' = [q \in Proc |-> pc'[q]] /\ pc'[m] = "mt_putstatus" /\ \A q \in Proc \ {m} : pc'[q] = pc[q]
    BY <1>0, <1>1 DEF HyTypes, Goto, MaintTruncate
  <1>4. pc[m] \in Working /\ pc'[m] \in Working /\ pc'[m] \notin MtHa /\ pc'[m] \in MaintPlaces
    BY <1>2, <1>3 DEF Working, Taking, MtHa, MaintPlaces
  <1>5. /\ buf[m] \in Seq(IdxRecs) /\ Len(buf[m]) \in Nat
        /\ Kept(buf[m]) \in Seq(IdxRecs) /\ Len(Kept(buf[m])) \in Nat /\ Len(Kept(buf[m])) < Len(buf[m])
        /\ Keeps(Kept(buf[m]), buf[m])
    BY <1>1, <1>4, KeptRecords
  <1>6. PICK b \in Seq(IdxRecs), s \in Seq(IdxRecs) :
          b = Kept(buf[m]) /\ s = sid /\ Cut(b, s) /\ Len(b) \in Nat /\ Keeps(b, buf[m])
    <2>1. sid \in Seq(IdxRecs)
      BY <1>1, FileTypes
    <2>2. Cut(Kept(buf[m]), sid)
      BY <1>1, <1>2 DEF MaintKnows
    <2> QED
      BY <1>5, <2>1, <2>2
  <1>7. sid' = b
    <2>1. sid' = Resize(s, Len(b))
      BY <1>6 DEF MaintTruncate
    <2> QED
      BY <1>6, <2>1, CutIs
  <1>8. Len(s) \in Nat /\ \A i \in 1..Len(b) : i \in 1..Len(s) /\ b[i] = s[i]
    BY <1>6 DEF Cut
  <1>9. MaintTypes' /\ Others(m)
    BY <1>1, <1>2, <1>3, <1>6, <1>7 DEF MaintTypes, HyTypes, Others
  <1>10. \A i \in 1..Len(sid') : \E k \in 1..Len(sid) : sid'[i] = sid[k] /\ (~Gone(k) \/ Gone(i)')
    <2>1. SUFFICES ASSUME NEW i \in 1..Len(b) PROVE sid'[i] = sid[i] /\ ~Gone(i)
      BY <1>6, <1>7, <1>8
    <2>2. ~Marked(b[i])
      BY <1>6 DEF Keeps
    <2>3. Gone(i) => Marked(sid[i])
      BY <1>1, <1>6, <1>8, GoneMarked DEF FreeInv
    <2> QED
      BY <1>6, <1>7, <1>8, <2>2, <2>3
  <1>11. Numbered'
    <2>1. SUFFICES ASSUME NEW i \in 1..Len(b), i <= status.total PROVE b[i].num <= status.last
      BY <1>2, <1>7 DEF Numbered
    <2> QED
      BY <1>1, <1>6, <1>8, <2>1 DEF Numbered
  <1>12. MaintIndexSorted'
    <2>1. Increasing(b)
      BY <1>6 DEF Keeps
    <2> QED
      BY <1>7, <2>1 DEF MaintIndexSorted, Increasing
  <1>13. MaintKnows(m)'
    <2>1. /\ (st[m].last <= status.last)' /\ (Len(buf[m]) <= status.total)' /\ (Len(buf[m]) <= st[m].total)'
          /\ Increasing(buf[m])' /\ (Kept(buf[m]) # buf[m])'
          /\ (\A i \in 1..Len(buf[m]) : buf[m][i].num <= st[m].last)'
      BY <1>2, <1>4, MaintRemembers
    <2>2. (sid = Kept(buf[m]))'
      <3>1. b = Kept(buf'[m])
        BY <1>2, <1>6
      <3> QED
        BY <1>7, <3>1
    <2>3. /\ pc'[m] \notin AtOne /\ pc'[m] \notin Freeing /\ pc'[m] \notin Taking
          /\ pc'[m] \notin {"idle", "mt_load", "mt_da", "mt_ha", "mt_lockhdr", "mt_puthdr", "mt_putidx", "mt_trunc"}
      BY <1>3 DEF AtOne, Freeing, Taking
    <2> QED
      BY <1>4, <2>1, <2>2, <2>3 DEF MaintKnows
  <1>14. Len(sid') < Len(buf[m])
    BY <1>5, <1>6, <1>7
  <1> QED
    BY <1>2, <1>4, <1>9, <1>10, <1>11, <1>12, <1>13, <1>14, MaintRewrites

\* The status maint() has read is written, less the messages deleted: no number
\* in the index is above it, and a poster that works at the end of a longer
\* index will not find it.
LEMMA MaintCounts ==
  ASSUME MaintBase, FreeInv, NEW m \in Purgers, MaintPutStatus(m)
  PROVE  FreeInv'
  <1>0. m \in Proc /\ None \notin Proc /\ \A n \in Purgers : n = m
    BY MaintRoles
  <1>1. MaintTypes /\ HyTypes /\ MaintKnows(m)
    BY DEF FreeInv, MaintTypes
  <1>2. UNCHANGED <<sid, shd, sha, shaEnd, st, msg, buf, pos, hdrLock, haLock>> /\ pc[m] = "mt_putstatus"
    BY DEF MaintPutStatus, locks, local
  <1>3. pc' = [q \in Proc |-> pc'[q]] /\ pc'[m] = "unlock" /\ \A q \in Proc \ {m} : pc'[q] = pc[q]
    BY <1>0, <1>1 DEF HyTypes, Goto, MaintPutStatus
  <1>4. pc[m] \in Working /\ pc'[m] \notin MtHa /\ pc'[m] \notin Working /\ pc'[m] \in MaintPlaces
    BY <1>2, <1>3 DEF Working, Taking, Freeing, AtOne, MtHa, MaintPlaces
  <1>5. /\ buf[m] \in Seq(IdxRecs) /\ Len(buf[m]) \in Nat
        /\ Kept(buf[m]) \in Seq(IdxRecs) /\ Len(Kept(buf[m])) \in Nat /\ Len(Kept(buf[m])) < Len(buf[m])
        /\ Keeps(Kept(buf[m]), buf[m]) /\ st[m].last \in Nat /\ st[m].total \in Nat
    BY <1>1, <1>4, KeptRecords
  <1>6. /\ sid = Kept(buf[m]) /\ Len(buf[m]) <= st[m].total
        /\ \A i \in 1..Len(buf[m]) : buf[m][i].num <= st[m].last
    BY <1>1, <1>2, <1>4 DEF MaintKnows
  <1>7. PICK l \in Nat, t \in Nat : /\ l = st[m].last /\ status' = [last |-> l, total |-> t]
    <2>1. PICK n \in Nat, k \in Nat, g \in Nat : n = Len(buf[m]) /\ k = Len(Kept(buf[m])) /\ g = st[m].total
      BY <1>5
    <2>2. k < n /\ n <= g
      BY <1>5, <1>6, <2>1
    <2>a. g - (n - k) \in Nat
      BY <2>2
    <2>3. status' = [last |-> st[m].last, total |-> g - (n - k)]
      BY <2>1 DEF MaintPutStatus
    <2> QED
      BY <1>5, <2>a, <2>3
  <1>8. status' \in Statuses /\ status'.last = l
    BY <1>7 DEF Statuses
  <1>9. MaintTypes' /\ Others(m)
    BY <1>1, <1>2, <1>3, <1>8 DEF MaintTypes, HyTypes, Others
  <1>10. \A i \in 1..Len(sid') : \E k \in 1..Len(sid) : sid'[i] = sid[k] /\ (~Gone(k) \/ Gone(i)')
    <2>1. \A k : ~Gone(k)
      BY <1>0, <1>2 DEF Gone, Freeing, AtOne
    <2> QED
      BY <1>2, <2>1
  <1>11. Numbered'
    <2>1. SUFFICES ASSUME NEW i \in 1..Len(sid) PROVE sid[i].num <= l
      BY <1>2, <1>8 DEF Numbered
    <2>2. PICK k \in 1..Len(buf[m]) : sid[i] = buf[m][k]
      BY <1>5, <1>6 DEF Keeps
    <2> QED
      BY <1>6, <1>7, <2>2
  <1>12. MaintIndexSorted'
    <2>1. Increasing(sid)
      BY <1>5, <1>6 DEF Keeps
    <2> QED
      BY <1>2, <2>1 DEF MaintIndexSorted, Increasing
  <1>13. MaintKnows(m)'
    BY <1>3, <1>4 DEF MaintKnows, MtHa, Working, Taking, Freeing, AtOne
  <1>14. Len(sid') < Len(buf[m])
    BY <1>2, <1>5, <1>6
  <1> QED
    BY <1>2, <1>4, <1>9, <1>10, <1>11, <1>12, <1>13, <1>14, MaintRewrites

-----------------------------------------------------------------------------
\* Every step keeps the invariant.
LEMMA StepFree ==
  ASSUME MaintBase, FreeInv, [MaintNext]_vars
  PROVE  FreeInv'
  <1>1. CASE UNCHANGED vars
    <2>1. UNCHANGED <<hdrLock, haLock, status, sid, shd, sha, shaEnd, pc, st, msg, buf, pos>>
      BY <1>1 DEF vars
    <2>2. MaintTypes'
      BY <2>1 DEF FreeInv, MaintTypes, HyTypes
    <2>3. \A i : Gone(i) <=> Gone(i)'
      BY <2>1 DEF Gone
    <2>4. Owned'
      BY <2>1, <2>3 DEF FreeInv, Owned, OwnRec
    <2>5. Numbered' /\ MaintIndexSorted'
      BY <2>1 DEF FreeInv, Numbered, MaintIndexSorted, Increasing
    <2>6. ASSUME NEW p \in Posters PROVE PostKnows(p)'
      BY <2>1, <2>3 DEF FreeInv, PostKnows
    <2>7. ASSUME NEW m \in Purgers PROVE MaintKnows(m)'
      <3>1. MaintKnows(m)
        BY DEF FreeInv
      <3>2. PICK c, d : c = buf[m] /\ d = buf'[m] /\ d = c
        BY <2>1
      <3> QED
        BY <2>1, <3>1, <3>2 DEF MaintKnows, Increasing, Taken, Cut
    <2> QED
      BY <2>2, <2>4, <2>5, <2>6, <2>7 DEF FreeInv
  <1>2. ASSUME NEW m \in Purgers, MaintLock(m) \/ MaintStep(m) \/ Unlock(m)
        PROVE  FreeInv'
    <2>1. CASE Unlock(m)
      BY <2>1, MaintReturns
    <2>2. CASE MaintLock(m) \/ MaintOpenDa(m) \/ MaintOpenDaTimeout(m) \/ MaintOpenHa(m) \/ MaintLockHdrFails(m)
            \/ MaintFreeDat(m) \/ MaintFreeDatTimeout(m) \/ MaintScanEnd(m) \/ MaintClose(m)
      BY <2>2, MaintWaits
    <2>3. CASE MaintLoad(m)
      BY <2>3, MaintLoads
    <2>4. CASE MaintFind(m)
      BY <2>4, MaintFinds
    <2>5. CASE MaintLockHdr(m)
      BY <2>5, MaintReads
    <2>6. CASE MaintPutHdr(m)
      BY <2>6, MaintPutsHdr
    <2>7. CASE MaintPutIdx(m)
      BY <2>7, MaintPutsIdx
    <2>8. CASE MaintFreeHdr(m)
      BY <2>8, MaintFreesHdr
    <2>9. CASE MaintWrite(m)
      BY <2>9, MaintWrites
    <2>10. CASE MaintTruncate(m)
      BY <2>10, MaintCuts
    <2>11. CASE MaintPutStatus(m)
      BY <2>11, MaintCounts
    <2> QED
      BY <1>2, <2>1, <2>2, <2>3, <2>4, <2>5, <2>6, <2>7, <2>8, <2>9, <2>10, <2>11 DEF MaintStep
  <1>3. ASSUME NEW p \in Proc, p \notin Purgers,
               Unlock(p) \/ CloseBase(p) \/ Crash(p) \/ (p \in Readers /\ LoadMsg(p)) \/ UnlockMsgHdr(p)
        PROVE  FreeInv'
    BY <1>3, OutsideWork
  <1>4. ASSUME NEW p \in Posters, AddLock(p) \/ HeaderLock(p) \/ PostStep(p)
        PROVE  FreeInv'
    <2>1. CASE \/ AddLock(p) \/ HeaderLock(p) \/ AddStatus(p) \/ AddData(p) \/ AddDataTimeout(p) \/ AddHdr(p)
               \/ AddAllocTimeout(p) \/ UndoOpen(p) \/ UndoOpenTimeout(p) \/ UndoLock(p) \/ UndoLockTimeout(p)
      BY <2>1, PosterWork
    <2>2. CASE AddAlloc(p)
      BY <2>2, PostAllocs
    <2>3. CASE AddPutHdr(p)
      BY <2>3, PostPutsHdr
    <2>4. CASE AddPutIdx(p)
      BY <2>4, PostPutsIdx
    <2>5. CASE AddPutStatus(p)
      BY <2>5, PostPutsStatus
    <2> QED
      BY <1>4, <2>1, <2>2, <2>3, <2>4, <2>5 DEF PostStep
  <1>5. ASSUME NEW p \in Maintainers, MaintLock(p) \/ MaintStep(p) \/ Unlock(p) \/ Crash(p)
        PROVE  FreeInv'
    <2>1. p \in Purgers /\ p \notin Crashers
      BY MaintRoles DEF MaintBase
    <2>2. ~Crash(p)
      BY <2>1 DEF Crash
    <2> QED
      BY <1>2, <1>5, <2>1, <2>2
  <1>6. ASSUME NEW p \in Readers, LoadMsg(p) \/ UnlockMsgHdr(p) \/ Crash(p)
        PROVE  FreeInv'
    <2>1. p \in Proc /\ p \notin Purgers
      BY MaintRoles
    <2> QED
      BY <1>3, <1>6, <2>1
  <1>7. ASSUME NEW p \in Proc \ (Maintainers \cup Readers), Start(p) \/ Continue(p) \/ Crash(p)
        PROVE  FreeInv'
    <2>1. /\ p \in Proc /\ p \notin Purgers /\ p \notin Readers /\ p \notin Modifiers
          /\ p \notin Updaters /\ p \notin Senders /\ p \notin Editors
      BY MaintRoles DEF MaintBase
    <2>2. p \in Posters
      BY <2>1, MaintRoles
    <2>3. CASE Start(p)
      <3>1. AddLock(p) \/ HeaderLock(p) \/ CloseBase(p)
        BY <2>1, <2>3 DEF Start
      <3> QED
        BY <1>3, <1>4, <2>1, <2>2, <3>1
    <2>4. CASE Continue(p)
      <3>1. PostStep(p) \/ Unlock(p)
        BY <2>1, <2>4 DEF Continue
      <3> QED
        BY <1>3, <1>4, <2>1, <2>2, <3>1
    <2>5. CASE Crash(p)
      BY <1>3, <2>1, <2>5
    <2> QED
      BY <1>7, <2>3, <2>4, <2>5
  <1> QED
    BY <1>1, <1>5, <1>6, <1>7 DEF MaintNext

\* A base without hyper allocation that any number of programs post to and read
\* headers from, each of which may die at any step, while one maint() deletes
\* the marked messages: no header block is given to two messages and none cut
\* off the file while a record that is not marked leads to it, though maint()
\* gives up the base lock in smb_freemsgdat and rewrites the index and the
\* status as they were before; and the index stays sorted but when it is about
\* to be cut.
THEOREM MaintSafe ==
  ASSUME MaintBase
  PROVE  MaintSpec => [](KeptHasHeader /\ MaintIndexSorted)
  <1>1. Init => FreeInv
    BY InitFree
  <1>2. FreeInv /\ [MaintNext]_vars => FreeInv'
    BY StepFree
  <1>3. FreeInv => KeptHasHeader /\ MaintIndexSorted
    BY FreeKept
  <1> QED
    BY <1>1, <1>2, <1>3, PTL DEF MaintSpec
=============================================================================
