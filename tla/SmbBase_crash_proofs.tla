------------------------- MODULE SmbBase_crash_proofs -------------------------
(* What a base keeps when the processes that post to it and rewrite its    *)
(* headers may die at any step.  Purges are left to base_purge_crash.      *)
EXTENDS SmbBase_proofs

-----------------------------------------------------------------------------
(* Locks.                                                                   *)

\* Who has a lock is at a place in a call where it will be given up
LockInv ==
    /\ \A p \in Proc : hdrLock = p => pc[p] # "idle"
    /\ \A p \in Proc : haLock = p => pc[p] \in PgHa
    /\ \A p \in Proc, s \in Slots :
         msgLock[s] = p => pc[p] \in {"puthdr", "putidx"} /\ msg[p].slot = s

\* The locks of every process but p, and its place in its call, stay
OthersKeepLocks(p) ==
    \A q \in Proc \ {p} :
        /\ pc'[q] = pc[q]
        /\ msg'[q].slot = msg[q].slot
        /\ hdrLock' = q => hdrLock = q
        /\ haLock' = q => haLock = q
        /\ \A s \in Slots : msgLock'[s] = q => msgLock[s] = q

LEMMA LockStep ==
  ASSUME LockInv, NEW p \in Proc, OthersKeepLocks(p),
         hdrLock' = p => pc'[p] # "idle",
         haLock' = p => pc'[p] \in PgHa,
         \A s \in Slots : msgLock'[s] = p => pc'[p] \in {"puthdr", "putidx"} /\ msg'[p].slot = s
  PROVE  LockInv'
  BY DEF LockInv, OthersKeepLocks

\* A step within or into a call that leaves the .sha file and the headers alone
LEMMA PlainLockStep ==
  ASSUME LockInv, NEW p \in Proc, OthersKeepLocks(p),
         pc'[p] # "idle",
         pc[p] \notin {"puthdr", "putidx"},
         haLock' = haLock /\ msgLock' = msgLock,
         pc[p] \in PgHa => pc'[p] \in PgHa
  PROVE  LockInv'
  <1>1. haLock' = p => pc'[p] \in PgHa
    BY DEF LockInv
  <1>2. \A s \in Slots : msgLock'[s] # p
    BY DEF LockInv
  <1> QED
    BY <1>1, <1>2, LockStep

LEMMA InitLocks == Init => LockInv
  <1> SUFFICES ASSUME Init PROVE LockInv
    OBVIOUS
  <1>1. None \notin Proc
    BY SmbBaseAssumption DEF SmbBaseAssumption
  <1> QED
    BY <1>1 DEF Init, LockInv

LEMMA CommonLocks ==
  ASSUME TypeInv, LockInv, NEW p \in Proc, Unlock(p) \/ CloseBase(p) \/ Crash(p)
  PROVE  LockInv'
  <1>0. /\ None \notin Proc
        /\ DOMAIN pc = Proc /\ msg \in [Proc -> Msgs]
        /\ msgLock \in [Slots -> Proc \cup {None}]
    BY SmbBaseAssumption DEF SmbBaseAssumption, TypeInv, TypeOK
  <1> USE <1>0 DEF Goto, Forget, locks, files, local
  <1>1. CASE Unlock(p)
    <2>1. OthersKeepLocks(p)
      BY <1>1 DEF Unlock, OthersKeepLocks
    <2>2. haLock' # p /\ \A s \in Slots : msgLock'[s] # p
      BY <1>1 DEF Unlock, LockInv, PgHa
    <2>3. hdrLock' # p
      BY <1>1 DEF Unlock
    <2> QED
      BY <2>1, <2>2, <2>3, LockStep
  <1>2. CASE CloseBase(p)
    BY <1>2 DEF CloseBase, LockInv
  <1>3. CASE Crash(p)
    <2>1. OthersKeepLocks(p)
      BY <1>3 DEF Crash, OthersKeepLocks
    <2>2. hdrLock' # p /\ haLock' # p /\ \A s \in Slots : msgLock'[s] # p
      BY <1>3 DEF Crash
    <2> QED
      BY <2>1, <2>2, LockStep
  <1> QED
    BY <1>1, <1>2, <1>3

LEMMA PostLocks ==
  ASSUME TypeInv, LockInv, NEW p \in Proc, AddLock(p) \/ HeaderLock(p) \/ PostStep(p)
  PROVE  LockInv'
  <1>0. /\ None \notin Proc
        /\ DOMAIN pc = Proc /\ msg \in [Proc -> Msgs]
    BY SmbBaseAssumption DEF SmbBaseAssumption, TypeInv, TypeOK
  <1> USE <1>0 DEF Goto, locks, files, local
  <1>1. OthersKeepLocks(p)
    <2>1. \A q \in Proc \ {p} : pc'[q] = pc[q]
      BY DEF AddLock, HeaderLock, PostStep, AddStatus, AddData, AddDataTimeout, AddHdr,
             AddAlloc, AddAllocTimeout, AddPutHdr, AddPutIdx, AddPutStatus, UndoOpen,
             UndoOpenTimeout, UndoLock, UndoLockTimeout
    <2>2. \A q \in Proc \ {p} : msg'[q] = msg[q]
      BY DEF AddLock, HeaderLock, PostStep, AddStatus, AddData, AddDataTimeout, AddHdr,
             AddAlloc, AddAllocTimeout, AddPutHdr, AddPutIdx, AddPutStatus, UndoOpen,
             UndoOpenTimeout, UndoLock, UndoLockTimeout
    <2>3. \A q \in Proc \ {p} : hdrLock' = q => hdrLock = q
      BY DEF AddLock, HeaderLock, PostStep, AddStatus, AddData, AddDataTimeout, AddHdr,
             AddAlloc, AddAllocTimeout, AddPutHdr, AddPutIdx, AddPutStatus, UndoOpen,
             UndoOpenTimeout, UndoLock, UndoLockTimeout
    <2>4. haLock' = haLock /\ msgLock' = msgLock
      BY DEF AddLock, HeaderLock, PostStep, AddStatus, AddData, AddDataTimeout, AddHdr,
             AddAlloc, AddAllocTimeout, AddPutHdr, AddPutIdx, AddPutStatus, UndoOpen,
             UndoOpenTimeout, UndoLock, UndoLockTimeout
    <2> QED
      BY <2>1, <2>2, <2>3, <2>4 DEF OthersKeepLocks
  <1>2. haLock' = haLock /\ msgLock' = msgLock
    BY DEF AddLock, HeaderLock, PostStep, AddStatus, AddData, AddDataTimeout, AddHdr,
           AddAlloc, AddAllocTimeout, AddPutHdr, AddPutIdx, AddPutStatus, UndoOpen,
           UndoOpenTimeout, UndoLock, UndoLockTimeout
  <1>3. /\ pc'[p] # "idle"
        /\ pc[p] \notin {"puthdr", "putidx"} /\ pc[p] \notin PgHa
    BY DEF AddLock, HeaderLock, PostStep, AddStatus, AddData, AddDataTimeout, AddHdr,
           AddAlloc, AddAllocTimeout, AddPutHdr, AddPutIdx, AddPutStatus, UndoOpen,
           UndoOpenTimeout, UndoLock, UndoLockTimeout, AfterFailure, PgHa
  <1> QED
    BY <1>1, <1>2, <1>3, PlainLockStep

LEMMA ModifyLocks ==
  ASSUME TypeInv, LockInv, NEW p \in Proc,
         UpdateLock(p) \/ EditBegin(p) \/ SendRead(p) \/ ModifyStep(p)
  PROVE  LockInv'
  <1>0. /\ None \notin Proc
        /\ DOMAIN pc = Proc /\ msg \in [Proc -> Msgs]
        /\ msgLock \in [Slots -> Proc \cup {None}]
    BY SmbBaseAssumption DEF SmbBaseAssumption, TypeInv, TypeOK
  <1>a. pc[p] \in {"lockhdr", "puthdr", "putidx"} => msg[p].slot \in Slots
    BY DEF TypeInv, TypeOK
  <1> USE <1>0 DEF Goto, locks, files, local
  <1>1. CASE UpdateLock(p) \/ EditBegin(p) \/ SendRead(p) \/ SendLock(p) \/ SendTimeout(p)
             \/ GetMsgIdx(p) \/ LockMsgHdrFails(p)
    <2>1. \A q \in Proc \ {p} : pc'[q] = pc[q] /\ msg'[q] = msg[q]
      BY <1>1 DEF UpdateLock, EditBegin, SendRead, SendLock, SendTimeout, GetMsgIdx, LockMsgHdrFails
    <2>2. \A q \in Proc \ {p} : hdrLock' = q => hdrLock = q
      BY <1>1 DEF UpdateLock, EditBegin, SendRead, SendLock, SendTimeout, GetMsgIdx, LockMsgHdrFails
    <2>3. haLock' = haLock /\ msgLock' = msgLock
      BY <1>1 DEF UpdateLock, EditBegin, SendRead, SendLock, SendTimeout, GetMsgIdx, LockMsgHdrFails
    <2>4. /\ pc'[p] # "idle"
          /\ pc[p] \notin {"puthdr", "putidx"} /\ pc[p] \notin PgHa
      BY <1>1 DEF UpdateLock, EditBegin, SendRead, SendLock, SendTimeout, GetMsgIdx, LockMsgHdrFails, PgHa
    <2>5. OthersKeepLocks(p)
      BY <2>1, <2>2, <2>3 DEF OthersKeepLocks
    <2> QED
      BY <2>3, <2>4, <2>5, PlainLockStep
  <1>2. CASE LockMsgHdr(p)
    <2>1. OthersKeepLocks(p)
      BY <1>2, <1>a DEF LockMsgHdr, OthersKeepLocks
    <2>2. msg'[p].slot = msg[p].slot
      BY <1>2 DEF LockMsgHdr, Msgs
    <2>3. \A s \in Slots : msgLock'[s] = p => s = msg[p].slot
      BY <1>2, <1>a DEF LockMsgHdr, LockInv
    <2>4. pc'[p] = "puthdr" /\ haLock' # p
      BY <1>2 DEF LockMsgHdr, LockInv, PgHa
    <2> QED
      BY <2>1, <2>2, <2>3, <2>4, LockStep
  <1>3. CASE PutHdr(p)
    <2>1. OthersKeepLocks(p)
      BY <1>3 DEF PutHdr, OthersKeepLocks
    <2>2. pc'[p] = "putidx" /\ haLock' # p
      BY <1>3 DEF PutHdr, LockInv, PgHa
    <2>3. \A s \in Slots : msgLock'[s] = p => msg'[p].slot = s
      BY <1>3 DEF PutHdr, LockInv
    <2> QED
      BY <2>1, <2>2, <2>3, LockStep
  <1>4. CASE PutIdx(p)
    <2>1. OthersKeepLocks(p)
      BY <1>4, <1>a DEF PutIdx, OthersKeepLocks
    <2>2. pc'[p] = "unlock" /\ haLock' # p
      BY <1>4 DEF PutIdx, LockInv, PgHa
    <2>3. \A s \in Slots : msgLock'[s] # p
      BY <1>4, <1>a DEF PutIdx, LockInv
    <2> QED
      BY <2>1, <2>2, <2>3, LockStep
  <1> QED
    BY <1>1, <1>2, <1>3, <1>4 DEF ModifyStep

LEMMA PurgeLocks ==
  ASSUME TypeInv, LockInv, NEW p \in Proc, PurgeLock(p) \/ PurgeStep(p)
  PROVE  LockInv'
  <1>0. /\ None \notin Proc
        /\ DOMAIN pc = Proc /\ msg \in [Proc -> Msgs]
    BY SmbBaseAssumption DEF SmbBaseAssumption, TypeInv, TypeOK
  <1> USE <1>0 DEF Goto, locks, files, local
  <1>1. \A q \in Proc \ {p} : pc'[q] = pc[q] /\ msg'[q] = msg[q]
    BY DEF PurgeLock, PurgeStep, PurgeStatus, PurgeOpenDa, PurgeOpenDaTimeout, PurgeOpenHa, PurgeKeep,
             PurgeDrop, PurgeDropUnread, PurgeFreeDat, PurgeFreeDatTimeout, PurgeFreeHdr,
             PurgeWrite, PurgeTruncate, PurgePutStatus, PurgeClose
  <1>2. \A q \in Proc \ {p} : (hdrLock' = q => hdrLock = q) /\ (haLock' = q => haLock = q)
    BY DEF PurgeLock, PurgeStep, PurgeStatus, PurgeOpenDa, PurgeOpenDaTimeout, PurgeOpenHa, PurgeKeep,
             PurgeDrop, PurgeDropUnread, PurgeFreeDat, PurgeFreeDatTimeout, PurgeFreeHdr,
             PurgeWrite, PurgeTruncate, PurgePutStatus, PurgeClose
  <1>3. msgLock' = msgLock
    BY DEF PurgeLock, PurgeStep, PurgeStatus, PurgeOpenDa, PurgeOpenDaTimeout, PurgeOpenHa, PurgeKeep,
             PurgeDrop, PurgeDropUnread, PurgeFreeDat, PurgeFreeDatTimeout, PurgeFreeHdr,
             PurgeWrite, PurgeTruncate, PurgePutStatus, PurgeClose
  <1>4. pc[p] \notin {"puthdr", "putidx"} /\ pc'[p] # "idle"
    BY DEF PurgeLock, PurgeStep, PurgeStatus, PurgeOpenDa, PurgeOpenDaTimeout, PurgeOpenHa, PurgeKeep,
             PurgeDrop, PurgeDropUnread, PurgeFreeDat, PurgeFreeDatTimeout, PurgeFreeHdr,
             PurgeWrite, PurgeTruncate, PurgePutStatus, PurgeClose
  <1>5. haLock' = p => pc'[p] \in PgHa
    <2>1. CASE PurgeOpenHa(p) \/ PurgeClose(p)
      BY <2>1 DEF PurgeOpenHa, PurgeClose, PgHa
    <2>2. CASE PurgeLock(p) \/ PurgeStatus(p) \/ PurgeOpenDa(p) \/ PurgeOpenDaTimeout(p)
      BY <2>2 DEF PurgeLock, PurgeStatus, PurgeOpenDa, PurgeOpenDaTimeout, LockInv, PgHa
    <2>3. CASE ~(PurgeOpenHa(p) \/ PurgeClose(p) \/ PurgeLock(p) \/ PurgeStatus(p)
                 \/ PurgeOpenDa(p) \/ PurgeOpenDaTimeout(p))
      BY <2>3 DEF PurgeStep, PurgeKeep, PurgeDrop, PurgeDropUnread, PurgeFreeDat,
                  PurgeFreeDatTimeout, PurgeFreeHdr, PurgeWrite, PurgeTruncate,
                  PurgePutStatus, PgHa
    <2> QED
      BY <2>1, <2>2, <2>3
  <1>6. OthersKeepLocks(p)
    BY <1>1, <1>2, <1>3 DEF OthersKeepLocks
  <1>7. \A s \in Slots : msgLock'[s] # p
    BY <1>3, <1>4 DEF LockInv
  <1> QED
    BY <1>4, <1>5, <1>6, <1>7, LockStep

LEMMA StepLocks == TypeInv /\ LockInv /\ [Next]_vars => LockInv'
  <1> SUFFICES ASSUME TypeInv, LockInv, [Next]_vars PROVE LockInv'
    OBVIOUS
  <1>1. CASE UNCHANGED vars
    BY <1>1 DEF vars, LockInv
  <1>2. CASE Next
    <2>1. PICK p \in Proc : Start(p) \/ Continue(p) \/ Crash(p)
      BY <1>2 DEF Next
    <2> QED
      BY <2>1, CommonLocks, PostLocks, ModifyLocks, PurgeLocks DEF Start, Continue
  <1> QED
    BY <1>1, <1>2

\* Whatever the processes do, fail to get, or die of: one that is between two
\* calls holds neither the lock on the base nor one on a header, and does not
\* have the .sha file open.
THEOREM LocksReturned == Spec => []IdleHoldsNoLock
  <1>1. LockInv => IdleHoldsNoLock
    BY DEF LockInv, IdleHoldsNoLock, PgHa
  <1> QED
    BY <1>1, InitTypeInv, StepTypeInv, InitLocks, StepLocks, PTL DEF Spec

-----------------------------------------------------------------------------
(* The index and the headers, when nobody purges.                           *)

NoPurge == Purgers = {}

\* The steps of a post that has the base locked
Adding == {"add_status", "add_data", "add_hdr", "add_alloc", "add_puthdr", "add_putidx",
           "add_putstatus"}

\* The steps for which a process must have remembered something true
Knowing == {"add_alloc", "add_puthdr", "add_putidx", "add_putstatus",
            "lockhdr", "puthdr", "putidx"}

AddersHold == \A p \in Proc : pc[p] \in Adding => hdrLock = p

\* A post that died may have left an index longer than total_msgs, never shorter
IndexData ==
    /\ Len(sid) >= status.total
    /\ \A k \in 1..Len(sid) : sid[k].num >= 1
    /\ \A k \in 1..status.total : sid[k].num <= status.last
    /\ Increasing(sid)

HeaderData ==
    \A k \in 1..Len(sid) : /\ shd[sid[k].slot].num = sid[k].num
                           /\ Hyper \/ sid[k].slot \in sha

\* What a poster knows of the index and the header it is writing
Poster(p) ==
    /\ pc[p] \in {"add_alloc", "add_puthdr", "add_putidx"} =>
         /\ st[p] = status
         /\ msg[p].off = status.total /\ Len(sid) = status.total
         /\ msg[p].num = status.last + 1
    /\ pc[p] \in {"add_puthdr", "add_putidx"} =>
         /\ \A k \in 1..Len(sid) : sid[k].slot # msg[p].slot
         /\ Hyper \/ msg[p].slot \in sha
    /\ pc[p] = "add_putidx" => shd[msg[p].slot].num = msg[p].num
    /\ pc[p] = "add_putstatus" =>
         /\ st[p] = status
         /\ Len(sid) = status.total + 1
         /\ sid[Len(sid)].num = status.last + 1

\* What a process that rewrites a header knows of its record: records stay
\* where they are, even for one that has not locked the base
Writer(p) ==
    pc[p] \in {"lockhdr", "puthdr", "putidx"} =>
        /\ msg[p].off < Len(sid)
        /\ sid[msg[p].off + 1].num = msg[p].num
        /\ sid[msg[p].off + 1].slot = msg[p].slot

CrashInv ==
    /\ AddersHold /\ IndexData /\ HeaderData
    /\ \A p \in Proc : Poster(p) /\ Writer(p)

\* What a step does to the index: records keep their place, number and slot,
\* and a new one has a new number
Grows ==
    /\ Len(sid') >= Len(sid)
    /\ \A k \in 1..Len(sid) : sid'[k].num = sid[k].num /\ sid'[k].slot = sid[k].slot
    /\ \A k \in Len(sid)+1..Len(sid') : sid'[k].num > status.last
    /\ status'.last >= status.last

-----------------------------------------------------------------------------
LEMMA InitCrashInv == Init => CrashInv
  <1> SUFFICES ASSUME Init PROVE CrashInv
    OBVIOUS
  <1>0. PICK n \in 0..InitMsgs : \E marked \in [1..n -> {{}, {"delete"}}] :
          /\ status = [last |-> n, total |-> n]
          /\ sid = [i \in 1..n |-> [num |-> i, slot |-> i, attr |-> marked[i]]]
          /\ shd = [s \in Slots |-> IF s \in 1..n THEN [num |-> s, attr |-> marked[s]]
                                                 ELSE NoHdr]
          /\ sha = 1..n
    BY DEF Init
  <1>1. PICK marked \in [1..n -> {{}, {"delete"}}] :
          /\ status = [last |-> n, total |-> n]
          /\ sid = [i \in 1..n |-> [num |-> i, slot |-> i, attr |-> marked[i]]]
          /\ shd = [s \in Slots |-> IF s \in 1..n THEN [num |-> s, attr |-> marked[s]]
                                                 ELSE NoHdr]
          /\ sha = 1..n
    BY <1>0
  <1>2. n \in Nat /\ 1..n \subseteq Slots
    BY SmbBaseAssumption DEF SmbBaseAssumption
  <1>3. /\ Len(sid) = n
        /\ \A k \in 1..n : sid[k].num = k /\ sid[k].slot = k
        /\ \A k \in 1..n : shd[k].num = k /\ k \in sha
        /\ status.last = n /\ status.total = n
    BY <1>1, <1>2
  <1>4. IndexData /\ HeaderData
    BY <1>2, <1>3 DEF IndexData, HeaderData, Increasing
  <1>5. \A p \in Proc : pc[p] = "idle"
    BY DEF Init
  <1> QED
    BY <1>4, <1>5 DEF CrashInv, AddersHold, Poster, Writer, Adding

\* A step of p that changes no file and leads to a place where p need know
\* nothing
LEMMA QuietStep ==
  ASSUME TypeInv, CrashInv, NEW p \in Proc,
         \A q \in Proc \ {p} : pc'[q] = pc[q] /\ st'[q] = st[q] /\ msg'[q] = msg[q],
         \A q \in Proc \ {p} : hdrLock = q => hdrLock' = q,
         pc'[p] \notin Knowing, pc'[p] \in Adding => hdrLock' = p,
         UNCHANGED files
  PROVE  CrashInv' /\ Grows
  <1>1. AddersHold'
    BY DEF CrashInv, AddersHold
  <1>2. IndexData' /\ HeaderData'
    BY DEF CrashInv, IndexData, HeaderData, files, Increasing
  <1>3. ASSUME NEW q \in Proc PROVE Poster(q)' /\ Writer(q)'
    <2>1. CASE q = p
      BY <2>1 DEF Poster, Writer, Knowing
    <2>2. CASE q # p
      <3>1. Poster(q) /\ Writer(q)
        BY DEF CrashInv
      <3> QED
        BY <2>2, <3>1 DEF Poster, Writer, files
    <2> QED
      BY <2>1, <2>2
  <1>4. Grows
    <2>1. Len(sid) \in Nat /\ status.last \in Nat
      BY DEF TypeInv, TypeOK, Statuses
    <2> QED
      BY <2>1 DEF Grows, files
  <1> QED
    BY <1>1, <1>2, <1>3, <1>4 DEF CrashInv

LEMMA CommonCrashInv ==
  ASSUME TypeInv, CrashInv, NEW p \in Proc, Unlock(p) \/ CloseBase(p) \/ Crash(p)
  PROVE  CrashInv' /\ Grows
  <1>0. /\ None \notin Proc
        /\ DOMAIN pc = Proc /\ DOMAIN st = Proc /\ DOMAIN msg = Proc
    BY SmbBaseAssumption DEF SmbBaseAssumption, TypeInv, TypeOK
  <1>1. \A q \in Proc \ {p} : pc'[q] = pc[q] /\ st'[q] = st[q] /\ msg'[q] = msg[q]
    BY <1>0 DEF Unlock, CloseBase, Crash, Goto, Forget, local
  <1>2. \A q \in Proc \ {p} : hdrLock = q => hdrLock' = q
    BY DEF Unlock, CloseBase, Crash
  <1>3. pc'[p] = "idle"
    BY <1>0 DEF Unlock, CloseBase, Crash, Goto
  <1>4. UNCHANGED files
    BY DEF Unlock, CloseBase, Crash, files
  <1> QED
    BY <1>1, <1>2, <1>3, <1>4, QuietStep DEF Knowing, Adding

\* The steps of a post that change no file of the model
QuietPost(p) ==
    \/ AddLock(p) \/ HeaderLock(p) \/ AddStatus(p) \/ AddData(p) \/ AddDataTimeout(p)
    \/ AddHdr(p) /\ Len(sid) # status.total
    \/ AddAllocTimeout(p)
    \/ UndoOpen(p) \/ UndoOpenTimeout(p) \/ UndoLock(p) \/ UndoLockTimeout(p)

LEMMA QuietPostCrashInv ==
  ASSUME TypeInv, CrashInv, NEW p \in Proc, QuietPost(p)
  PROVE  CrashInv' /\ Grows
  <1>0. /\ None \notin Proc
        /\ DOMAIN pc = Proc /\ DOMAIN st = Proc /\ DOMAIN msg = Proc
    BY SmbBaseAssumption DEF SmbBaseAssumption, TypeInv, TypeOK
  <1>a. pc[p] \in Adding => hdrLock = p
    BY DEF CrashInv, AddersHold
  <1> USE <1>0, <1>a DEF QuietPost, AddLock, HeaderLock, AddStatus, AddData, AddDataTimeout,
          AddHdr, AddAllocTimeout, UndoOpen, UndoOpenTimeout, UndoLock, UndoLockTimeout, Goto
  <1>1. \A q \in Proc \ {p} : pc'[q] = pc[q] /\ st'[q] = st[q] /\ msg'[q] = msg[q]
    BY DEF local
  <1>2. \A q \in Proc \ {p} : hdrLock = q => hdrLock' = q
    BY DEF locks, Adding
  <1>3. pc'[p] \notin Knowing
    BY DEF Knowing, AfterFailure
  <1>4. pc'[p] \in Adding => hdrLock' = p
    BY DEF Adding, AfterFailure, locks
  <1>5. UNCHANGED files
    BY DEF files
  <1> QED
    BY <1>1, <1>2, <1>3, <1>4, <1>5, QuietStep

\* The steps of a rewriter that change no file and find nothing
QuietModify(p) ==
    \/ UpdateLock(p) \/ EditBegin(p) \/ SendRead(p) \/ SendLock(p) \/ SendTimeout(p)
    \/ GetMsgIdx(p) /\ \A k \in 1..Len(sid) : sid[k].num # msg[p].num
    \/ LockMsgHdrFails(p)

LEMMA QuietModifyCrashInv ==
  ASSUME TypeInv, CrashInv, NEW p \in Proc, QuietModify(p)
  PROVE  CrashInv' /\ Grows
  <1>0. /\ None \notin Proc
        /\ DOMAIN pc = Proc /\ DOMAIN st = Proc /\ DOMAIN msg = Proc
    BY SmbBaseAssumption DEF SmbBaseAssumption, TypeInv, TypeOK
  <1> USE <1>0 DEF QuietModify, UpdateLock, EditBegin, SendRead, SendLock, SendTimeout,
          GetMsgIdx, LockMsgHdrFails, Goto
  <1>1. \A q \in Proc \ {p} : pc'[q] = pc[q] /\ st'[q] = st[q] /\ msg'[q] = msg[q]
    BY DEF local
  <1>2. \A q \in Proc \ {p} : hdrLock = q => hdrLock' = q
    BY DEF locks
  <1>3. pc'[p] \notin Knowing /\ pc'[p] \notin Adding
    BY DEF Knowing, Adding
  <1>4. UNCHANGED files
    BY DEF files
  <1> QED
    BY <1>1, <1>2, <1>3, <1>4, QuietStep

-----------------------------------------------------------------------------
\* While p is posting, what the others know does not depend on its header
LEMMA OthersKnow ==
  ASSUME TypeInv, TypeInv', CrashInv, NEW p \in Proc, pc[p] \in Adding, Grows,
         \A q \in Proc \ {p} : pc'[q] = pc[q] /\ st'[q] = st[q] /\ msg'[q] = msg[q],
         hdrLock' = hdrLock
  PROVE  /\ \A q \in Proc \ {p} : Poster(q)' /\ Writer(q)'
         /\ AddersHold'
  <1>1. \A q \in Proc \ {p} : pc[q] \notin Adding
    BY DEF CrashInv, AddersHold
  <1>2. ASSUME NEW q \in Proc \ {p} PROVE Poster(q)' /\ Writer(q)'
    <2>1. Poster(q)'
      BY <1>1 DEF Poster, Adding
    <2>2. ASSUME pc[q] \in {"lockhdr", "puthdr", "putidx"}
          PROVE  /\ msg[q].off < Len(sid')
                 /\ sid'[msg[q].off + 1].num = msg[q].num
                 /\ sid'[msg[q].off + 1].slot = msg[q].slot
      <3>1. /\ msg[q].off < Len(sid)
            /\ sid[msg[q].off + 1].num = msg[q].num
            /\ sid[msg[q].off + 1].slot = msg[q].slot
        BY <2>2 DEF CrashInv, Writer
      <3>2. msg[q].off \in Nat /\ Len(sid) \in Nat
        <4>1. msg[q] \in Msgs /\ sid \in Seq(IdxRecs)
          BY DEF TypeInv, TypeOK
        <4> QED
          BY <4>1 DEF Msgs
      <3>3. Len(sid') >= Len(sid) /\ Len(sid') \in Nat
        <4>1. sid' \in Seq(IdxRecs)
          BY DEF TypeInv, TypeOK
        <4> QED
          BY <4>1 DEF Grows
      <3>4. msg[q].off + 1 \in 1..Len(sid)
        BY <3>1, <3>2
      <3> QED
        BY <3>1, <3>2, <3>3, <3>4 DEF Grows
    <2> QED
      BY <2>1, <2>2 DEF Writer
  <1>3. AddersHold'
    BY <1>1 DEF CrashInv, AddersHold
  <1> QED
    BY <1>2, <1>3

LEMMA SameIndexGrows ==
  ASSUME TypeInv, UNCHANGED <<status, sid>>
  PROVE  Grows
  <1>1. Len(sid) \in Nat /\ status.last \in Nat
    BY DEF TypeInv, TypeOK, Statuses
  <1> QED
    BY <1>1 DEF Grows

LEMMA AddHdrCrashInv ==
  ASSUME TypeInv, TypeInv', CrashInv, NEW p \in Proc, AddHdr(p), Len(sid) = status.total
  PROVE  CrashInv' /\ Grows
  <1>0. DOMAIN pc = Proc /\ DOMAIN st = Proc /\ DOMAIN msg = Proc
    BY DEF TypeInv, TypeOK
  <1>1. /\ pc[p] = "add_hdr" /\ pc' = [pc EXCEPT ![p] = "add_alloc"]
        /\ st' = [st EXCEPT ![p] = status]
        /\ msg' = [msg EXCEPT ![p] = NewMsg(status.last + 1, 0, status.total)]
        /\ UNCHANGED hdrLock
        /\ UNCHANGED files
    BY DEF AddHdr, Goto
  <1>2. Grows
    BY <1>1, SameIndexGrows DEF files
  <1>3. Poster(p)' /\ Writer(p)'
    BY <1>0, <1>1 DEF Poster, Writer, NewMsg, files
  <1>4. /\ \A q \in Proc \ {p} : Poster(q)' /\ Writer(q)'
        /\ AddersHold'
    BY <1>0, <1>1, <1>2, OthersKnow DEF Adding
  <1>5. IndexData' /\ HeaderData'
    BY <1>1 DEF CrashInv, IndexData, HeaderData, files, Increasing
  <1> QED
    BY <1>2, <1>3, <1>4, <1>5 DEF CrashInv

\* The slot is not that of any message: its header is empty, or its block free
LEMMA AddAllocCrashInv ==
  ASSUME TypeInv, TypeInv', CrashInv, NEW p \in Proc, AddAlloc(p)
  PROVE  CrashInv' /\ Grows
  <1>0. DOMAIN pc = Proc /\ DOMAIN st = Proc /\ msg \in [Proc -> Msgs]
    BY DEF TypeInv, TypeOK
  <1>1. PICK s \in FreeSlots :
          /\ pc[p] = "add_alloc" /\ pc' = [pc EXCEPT ![p] = "add_puthdr"]
          /\ msg' = [msg EXCEPT ![p].slot = s]
          /\ sha' = IF Hyper THEN sha ELSE sha \cup {s}
          /\ UNCHANGED <<hdrLock, status, sid, shd, st>>
    BY DEF AddAlloc, Goto, locks
  <1>2. Grows
    BY <1>1, SameIndexGrows
  <1>3. \A k \in 1..Len(sid) : sid[k].slot # s
    <2>1. CASE Hyper
      BY <2>1 DEF CrashInv, IndexData, HeaderData, FreeSlots, NoHdr
    <2>2. CASE ~Hyper
      BY <2>2 DEF CrashInv, HeaderData, FreeSlots
    <2> QED
      BY <2>1, <2>2
  <1>4. /\ msg'[p].slot = s /\ msg'[p].off = msg[p].off /\ msg'[p].num = msg[p].num
        /\ \A q \in Proc \ {p} : msg'[q] = msg[q]
    BY <1>0, <1>1 DEF Msgs
  <1>5. Poster(p)' /\ Writer(p)'
    <2>1. Poster(p)
      BY DEF CrashInv
    <2> QED
      BY <1>0, <1>1, <1>3, <1>4, <2>1 DEF Poster, Writer
  <1>6. /\ \A q \in Proc \ {p} : Poster(q)' /\ Writer(q)'
        /\ AddersHold'
    BY <1>0, <1>1, <1>2, <1>4, OthersKnow DEF Adding
  <1>7. IndexData' /\ HeaderData'
    BY <1>1 DEF CrashInv, IndexData, HeaderData, Increasing
  <1> QED
    BY <1>2, <1>5, <1>6, <1>7 DEF CrashInv

LEMMA AddPutHdrCrashInv ==
  ASSUME TypeInv, TypeInv', CrashInv, NEW p \in Proc, AddPutHdr(p)
  PROVE  CrashInv' /\ Grows
  <1>0. /\ DOMAIN pc = Proc /\ DOMAIN shd = Slots
        /\ \A k \in 1..Len(sid) : sid[k].slot \in Slots
    BY FileTypes DEF TypeInv, TypeOK
  <1>1. /\ pc[p] = "add_puthdr" /\ pc' = [pc EXCEPT ![p] = "add_putidx"]
        /\ shd' = [shd EXCEPT ![msg[p].slot] = [num |-> msg[p].num, attr |-> msg[p].attr]]
        /\ UNCHANGED <<hdrLock, status, sid, sha, st, msg>>
    BY DEF AddPutHdr, Goto, locks, local
  <1>2. Grows
    BY <1>1, SameIndexGrows
  <1>3. Poster(p) /\ msg[p].slot \in Slots
    BY <1>1 DEF CrashInv, TypeInv, TypeOK
  <1>4. Poster(p)' /\ Writer(p)'
    BY <1>0, <1>1, <1>3 DEF Poster, Writer
  <1>5. /\ \A q \in Proc \ {p} : Poster(q)' /\ Writer(q)'
        /\ AddersHold'
    BY <1>0, <1>1, <1>2, OthersKnow DEF Adding
  <1>6. IndexData'
    BY <1>1 DEF CrashInv, IndexData, Increasing
  <1>7. HeaderData'
    <2>1. \A k \in 1..Len(sid) : shd'[sid[k].slot] = shd[sid[k].slot]
      BY <1>0, <1>1, <1>3 DEF Poster
    <2> QED
      BY <1>1, <2>1 DEF CrashInv, HeaderData
  <1> QED
    BY <1>2, <1>4, <1>5, <1>6, <1>7 DEF CrashInv

\* The record goes to the end of the index, not over another one
LEMMA AddPutIdxCrashInv ==
  ASSUME TypeInv, TypeInv', CrashInv, NEW p \in Proc, AddPutIdx(p)
  PROVE  CrashInv' /\ Grows
  <1>0. /\ DOMAIN pc = Proc /\ sid \in Seq(IdxRecs) /\ Len(sid) \in Nat
        /\ status.last \in Nat /\ status.total \in Nat
        /\ \A k \in 1..Len(sid) : sid[k].num \in Nat
    BY FileTypes DEF TypeInv, TypeOK
  <1>1. pc[p] = "add_putidx" /\ Poster(p)
    BY DEF AddPutIdx, CrashInv
  <1>2. /\ msg[p].off = Len(sid) /\ status.total = Len(sid) /\ st[p] = status
        /\ msg[p].num = status.last + 1
        /\ Hyper \/ msg[p].slot \in sha
        /\ shd[msg[p].slot].num = msg[p].num
    BY <1>1 DEF Poster
  <1>3. /\ pc' = [pc EXCEPT ![p] = "add_putstatus"]
        /\ UNCHANGED <<hdrLock, status, shd, sha, st, msg>>
    BY <1>0, <1>2 DEF AddPutIdx, Goto, local
  <1>4. sid' = Append(sid, IdxRec(msg[p]))
    BY <1>0, <1>2 DEF AddPutIdx, PutMsgIdx
  <1>5. /\ Len(sid') = Len(sid) + 1
        /\ \A k \in 1..Len(sid) : sid'[k] = sid[k]
        /\ sid'[Len(sid) + 1] = IdxRec(msg[p])
    <2>1. IdxRec(msg[p]) \in IdxRecs
      <3>1. msg[p] \in Msgs /\ msg[p].slot \in Slots
        BY <1>1 DEF TypeInv, TypeOK
      <3> QED
        BY <3>1 DEF IdxRec, Msgs, IdxRecs
    <2> QED
      BY <1>0, <1>4, <2>1, AppendProperties
  <1>6. IdxRec(msg[p]).num = status.last + 1 /\ IdxRec(msg[p]).slot = msg[p].slot
    BY <1>2 DEF IdxRec
  <1>7. Grows
    BY <1>0, <1>3, <1>5, <1>6 DEF Grows
  <1>8. Poster(p)' /\ Writer(p)'
    BY <1>0, <1>2, <1>3, <1>5, <1>6 DEF Poster, Writer
  <1>9. /\ \A q \in Proc \ {p} : Poster(q)' /\ Writer(q)'
        /\ AddersHold'
    BY <1>0, <1>1, <1>3, <1>7, OthersKnow DEF Adding
  <1>10. IndexData'
    <2>1. /\ \A k \in 1..Len(sid) : sid[k].num >= 1 /\ sid[k].num <= status.last
          /\ \A i, j \in 1..Len(sid) : i < j => sid[i].num < sid[j].num
      BY <1>2 DEF CrashInv, IndexData, Increasing
    <2>2. \A k \in 1..Len(sid') : k \in 1..Len(sid) \/ k = Len(sid) + 1
      BY <1>0, <1>5
    <2>3. \A k \in 1..Len(sid') : sid'[k].num >= 1
      BY <1>0, <1>5, <1>6, <2>1, <2>2
    <2>4. \A k \in 1..status'.total : sid'[k].num <= status'.last
      BY <1>0, <1>2, <1>3, <1>5, <2>1
    <2>5. Len(sid') >= status'.total
      BY <1>0, <1>2, <1>3, <1>5
    <2>6. Increasing(sid)'
      <3> SUFFICES ASSUME NEW i \in 1..Len(sid'), NEW j \in 1..Len(sid'), i < j
                   PROVE  sid'[i].num < sid'[j].num
        BY DEF Increasing
      <3>1. i \in 1..Len(sid)
        BY <1>0, <1>5
      <3>2. CASE j \in 1..Len(sid)
        BY <1>5, <2>1, <3>1, <3>2
      <3>3. CASE j = Len(sid) + 1
        BY <1>0, <1>5, <1>6, <2>1, <3>1, <3>3
      <3> QED
        BY <2>2, <3>2, <3>3
    <2> QED
      BY <2>3, <2>4, <2>5, <2>6 DEF IndexData
  <1>11. HeaderData'
    <2>1. \A k \in 1..Len(sid') : k \in 1..Len(sid) \/ k = Len(sid) + 1
      BY <1>0, <1>5
    <2> QED
      BY <1>2, <1>3, <1>5, <1>6, <2>1 DEF CrashInv, HeaderData
  <1> QED
    BY <1>7, <1>8, <1>9, <1>10, <1>11 DEF CrashInv

LEMMA AddPutStatusCrashInv ==
  ASSUME TypeInv, TypeInv', CrashInv, NEW p \in Proc, AddPutStatus(p)
  PROVE  CrashInv' /\ Grows
  <1>0. /\ DOMAIN pc = Proc /\ Len(sid) \in Nat
        /\ status.last \in Nat /\ status.total \in Nat
        /\ \A k \in 1..Len(sid) : sid[k].num \in Nat
    BY FileTypes DEF TypeInv, TypeOK
  <1>1. pc[p] = "add_putstatus" /\ Poster(p)
    BY DEF AddPutStatus, CrashInv
  <1>2. /\ st[p] = status /\ Len(sid) = status.total + 1
        /\ sid[Len(sid)].num = status.last + 1
    BY <1>1 DEF Poster
  <1>3. /\ pc' = [pc EXCEPT ![p] = "unlock"]
        /\ status'.last = status.last + 1 /\ status'.total = status.total + 1
        /\ UNCHANGED <<hdrLock, sid, shd, sha, st, msg>>
    BY <1>2 DEF AddPutStatus, Goto, locks, local
  <1>4. Grows
    BY <1>0, <1>3 DEF Grows
  <1>5. Poster(p)' /\ Writer(p)'
    BY <1>0, <1>3 DEF Poster, Writer
  <1>6. /\ \A q \in Proc \ {p} : Poster(q)' /\ Writer(q)'
        /\ AddersHold'
    BY <1>0, <1>1, <1>3, <1>4, OthersKnow DEF Adding
  <1>7. IndexData'
    <2>1. \A k \in 1..status.total : sid[k].num <= status.last
      BY DEF CrashInv, IndexData
    <2>2. \A k \in 1..status'.total : k \in 1..status.total \/ k = Len(sid)
      BY <1>0, <1>2, <1>3
    <2>3. \A k \in 1..status'.total : sid[k].num <= status.last + 1
      BY <1>0, <1>2, <2>1, <2>2
    <2> QED
      BY <1>0, <1>2, <1>3, <2>3 DEF CrashInv, IndexData, Increasing
  <1>8. HeaderData'
    BY <1>3 DEF CrashInv, HeaderData
  <1> QED
    BY <1>4, <1>5, <1>6, <1>7, <1>8 DEF CrashInv

-----------------------------------------------------------------------------
\* What a process knows when p rewrites the header or the record of a message
\* in its place
LEMMA WritersKnow ==
  ASSUME TypeInv, TypeInv', CrashInv, NEW p \in Proc, Grows, Len(sid') = Len(sid),
         pc[p] \notin Adding, pc'[p] \notin Adding,
         \A q \in Proc \ {p} : pc'[q] = pc[q] /\ msg'[q] = msg[q],
         \A q \in Proc \ {p} : pc[q] = "add_putidx" => shd'[msg[q].slot].num = shd[msg[q].slot].num,
         UNCHANGED <<hdrLock, status, sha, st>>
  PROVE  /\ \A q \in Proc \ {p} : Poster(q)' /\ Writer(q)'
         /\ AddersHold' /\ IndexData'
  <1>0. /\ sid \in Seq(IdxRecs) /\ Len(sid) \in Nat
        /\ status.last \in Nat /\ status.total \in Nat
        /\ \A q \in Proc : msg[q].off \in Nat
    <2>1. \A q \in Proc : msg[q] \in Msgs
      BY DEF TypeInv, TypeOK
    <2> QED
      BY <2>1, FileTypes DEF Msgs
  <1>1. \A k \in 1..Len(sid) : sid'[k].num = sid[k].num /\ sid'[k].slot = sid[k].slot
    BY DEF Grows
  <1>2. ASSUME NEW q \in Proc \ {p} PROVE Poster(q)' /\ Writer(q)'
    <2>1. Poster(q) /\ Writer(q)
      BY DEF CrashInv
    <2>2. ASSUME pc[q] = "add_putstatus" PROVE sid'[Len(sid)].num = status.last + 1
      <3>1. Len(sid) = status.total + 1 /\ sid[Len(sid)].num = status.last + 1
        BY <2>1, <2>2 DEF Poster
      <3>2. Len(sid) \in 1..Len(sid)
        BY <1>0, <3>1
      <3> QED
        BY <1>1, <3>1, <3>2
    <2>3. Poster(q)'
      BY <1>1, <2>1, <2>2 DEF Poster
    <2>4. msg[q].off < Len(sid) => msg[q].off + 1 \in 1..Len(sid)
      BY <1>0
    <2>5. Writer(q)'
      BY <1>1, <2>1, <2>4 DEF Writer
    <2> QED
      BY <2>3, <2>5
  <1>3. AddersHold'
    BY DEF CrashInv, AddersHold
  <1>4. IndexData'
    <2>1. 1..status.total \subseteq 1..Len(sid)
      BY <1>0 DEF CrashInv, IndexData
    <2> QED
      BY <1>1, <2>1 DEF CrashInv, IndexData, Increasing
  <1> QED
    BY <1>2, <1>3, <1>4

LEMMA GetMsgIdxCrashInv ==
  ASSUME TypeInv, TypeInv', CrashInv, NEW p \in Proc, GetMsgIdx(p),
         \E k \in 1..Len(sid) : sid[k].num = msg[p].num
  PROVE  CrashInv' /\ Grows
  <1>0. /\ DOMAIN pc = Proc /\ msg \in [Proc -> Msgs]
        /\ Len(sid) \in Nat
    BY FileTypes DEF TypeInv, TypeOK
  <1>1. /\ pc[p] = "getidx" /\ pc' = [pc EXCEPT ![p] = "lockhdr"]
        /\ UNCHANGED <<hdrLock, status, sid, shd, sha, st>>
    BY DEF GetMsgIdx, Goto, locks, files
  <1>2. PICK k \in 1..Len(sid) :
          /\ sid[k].num = msg[p].num
          /\ msg' = [msg EXCEPT ![p].slot = sid[k].slot, ![p].off = k - 1]
    BY DEF GetMsgIdx
  <1>3. Grows
    BY <1>1, SameIndexGrows
  <1>4. /\ msg'[p].num = msg[p].num /\ msg'[p].slot = sid[k].slot /\ msg'[p].off = k - 1
        /\ \A q \in Proc \ {p} : msg'[q] = msg[q]
    BY <1>0, <1>2 DEF Msgs
  <1>5. Poster(p)' /\ Writer(p)'
    <2>1. pc'[p] = "lockhdr"
      BY <1>0, <1>1
    <2>2. k - 1 < Len(sid) /\ (k - 1) + 1 = k
      BY <1>0
    <2> QED
      BY <1>1, <1>2, <1>4, <2>1, <2>2 DEF Poster, Writer
  <1>6. /\ \A q \in Proc \ {p} : Poster(q)' /\ Writer(q)'
        /\ AddersHold' /\ IndexData'
    BY <1>0, <1>1, <1>3, <1>4, WritersKnow DEF Adding
  <1>7. HeaderData'
    BY <1>1 DEF CrashInv, HeaderData
  <1> QED
    BY <1>5, <1>6, <1>7, <1>3 DEF CrashInv

\* The number read from the header is that of the record that led there
LEMMA LockMsgHdrCrashInv ==
  ASSUME TypeInv, TypeInv', CrashInv, NEW p \in Proc, LockMsgHdr(p)
  PROVE  CrashInv' /\ Grows
  <1>0. /\ DOMAIN pc = Proc /\ msg \in [Proc -> Msgs] /\ msg[p].off \in Nat
        /\ Len(sid) \in Nat
    <2>1. DOMAIN pc = Proc /\ msg \in [Proc -> Msgs]
      BY DEF TypeInv, TypeOK
    <2> QED
      BY <2>1, FileTypes DEF Msgs
  <1>1. /\ pc[p] = "lockhdr" /\ pc' = [pc EXCEPT ![p] = "puthdr"]
        /\ UNCHANGED <<hdrLock, status, sid, shd, sha, st>>
    BY DEF LockMsgHdr, Goto, locks, files
  <1>2. Grows
    BY <1>1, SameIndexGrows
  <1>3. /\ msg[p].off < Len(sid)
        /\ sid[msg[p].off + 1].num = msg[p].num
        /\ sid[msg[p].off + 1].slot = msg[p].slot
    BY <1>1 DEF CrashInv, Writer
  <1>4. shd[msg[p].slot].num = msg[p].num
    <2>1. msg[p].off + 1 \in 1..Len(sid)
      BY <1>0, <1>3
    <2> QED
      BY <1>3, <2>1 DEF CrashInv, HeaderData
  <1>5. /\ msg'[p].num = msg[p].num /\ msg'[p].slot = msg[p].slot /\ msg'[p].off = msg[p].off
        /\ \A q \in Proc \ {p} : msg'[q] = msg[q]
    <2>1. CASE p \in Senders
      BY <2>1 DEF LockMsgHdr
    <2>2. CASE p \notin Senders
      <3>1. PICK a \in Attrs :
              msg' = [msg EXCEPT ![p].num = shd[msg[p].slot].num,
                                 ![p].attr = shd[msg[p].slot].attr \cup {a}]
        BY <2>2 DEF LockMsgHdr
      <3> QED
        BY <1>0, <1>4, <3>1 DEF Msgs
    <2> QED
      BY <2>1, <2>2
  <1>6. Poster(p)' /\ Writer(p)'
    BY <1>0, <1>1, <1>3, <1>5 DEF Poster, Writer
  <1>7. /\ \A q \in Proc \ {p} : Poster(q)' /\ Writer(q)'
        /\ AddersHold' /\ IndexData'
    BY <1>0, <1>1, <1>2, <1>5, WritersKnow DEF Adding
  <1>8. HeaderData'
    BY <1>1 DEF CrashInv, HeaderData
  <1> QED
    BY <1>2, <1>6, <1>7, <1>8 DEF CrashInv

\* A header is rewritten with the number it has, and not that of a post
LEMMA PutHdrCrashInv ==
  ASSUME TypeInv, TypeInv', CrashInv, NEW p \in Proc, PutHdr(p)
  PROVE  CrashInv' /\ Grows
  <1>0. /\ DOMAIN pc = Proc /\ DOMAIN shd = Slots /\ msg[p].off \in Nat
        /\ Len(sid) \in Nat
    <2>1. DOMAIN pc = Proc /\ DOMAIN shd = Slots /\ msg[p] \in Msgs
      BY DEF TypeInv, TypeOK
    <2> QED
      BY <2>1, FileTypes DEF Msgs
  <1>1. /\ pc[p] = "puthdr" /\ pc' = [pc EXCEPT ![p] = "putidx"]
        /\ shd' = [shd EXCEPT ![msg[p].slot] = [num |-> msg[p].num, attr |-> msg[p].attr]]
        /\ UNCHANGED <<hdrLock, status, sid, sha, st, msg>>
    BY DEF PutHdr, Goto, locks, local
  <1>2. Grows
    BY <1>1, SameIndexGrows
  <1>3. /\ msg[p].off < Len(sid)
        /\ sid[msg[p].off + 1].num = msg[p].num
        /\ sid[msg[p].off + 1].slot = msg[p].slot
        /\ msg[p].off + 1 \in 1..Len(sid)
    <2>1. Writer(p)
      BY DEF CrashInv
    <2> QED
      BY <1>0, <1>1, <2>1 DEF Writer
  <1>4. shd[msg[p].slot].num = msg[p].num
    BY <1>3 DEF CrashInv, HeaderData
  <1>5. \A s \in Slots : shd'[s].num = shd[s].num
    BY <1>0, <1>1, <1>4
  <1>6. Poster(p)' /\ Writer(p)'
    BY <1>0, <1>1, <1>3 DEF Poster, Writer
  <1>7. /\ \A q \in Proc \ {p} : Poster(q)' /\ Writer(q)'
        /\ AddersHold' /\ IndexData'
    <2>1. \A q \in Proc \ {p} : pc[q] = "add_putidx" => msg[q].slot \in Slots
      BY DEF TypeInv, TypeOK
    <2> QED
      BY <1>0, <1>1, <1>2, <1>5, <2>1, WritersKnow DEF Adding
  <1>8. HeaderData'
    <2>1. \A k \in 1..Len(sid) : sid[k].slot \in Slots
      BY FileTypes
    <2> QED
      BY <1>1, <1>5, <2>1 DEF CrashInv, HeaderData
  <1> QED
    BY <1>2, <1>6, <1>7, <1>8 DEF CrashInv

\* The record is written over the one with its number
LEMMA PutIdxCrashInv ==
  ASSUME TypeInv, TypeInv', CrashInv, NEW p \in Proc, PutIdx(p)
  PROVE  CrashInv' /\ Grows
  <1>0. /\ DOMAIN pc = Proc /\ msg[p].off \in Nat
        /\ sid \in Seq(IdxRecs) /\ Len(sid) \in Nat /\ status.last \in Nat
    <2>1. DOMAIN pc = Proc /\ msg[p] \in Msgs
      BY DEF TypeInv, TypeOK
    <2> QED
      BY <2>1, FileTypes DEF Msgs
  <1>1. /\ pc[p] = "putidx" /\ pc' = [pc EXCEPT ![p] = "unlock"]
        /\ sid' = PutMsgIdx(sid, msg[p].off, IdxRec(msg[p]))
        /\ UNCHANGED <<hdrLock, status, shd, sha, st, msg>>
    BY DEF PutIdx, Goto, local
  <1>2. /\ msg[p].off < Len(sid)
        /\ sid[msg[p].off + 1].num = msg[p].num
        /\ sid[msg[p].off + 1].slot = msg[p].slot
    BY <1>1 DEF CrashInv, Writer
  <1>3. sid' = [sid EXCEPT ![msg[p].off + 1] = IdxRec(msg[p])]
    BY <1>1, <1>2 DEF PutMsgIdx
  <1>4. /\ Len(sid') = Len(sid)
        /\ \A k \in 1..Len(sid) :
             sid'[k] = IF k = msg[p].off + 1 THEN IdxRec(msg[p]) ELSE sid[k]
    BY <1>0, <1>2, <1>3
  <1>5. \A k \in 1..Len(sid) : sid'[k].num = sid[k].num /\ sid'[k].slot = sid[k].slot
    BY <1>2, <1>4 DEF IdxRec
  <1>6. Grows
    BY <1>0, <1>1, <1>4, <1>5 DEF Grows
  <1>7. Poster(p)' /\ Writer(p)'
    BY <1>0, <1>1 DEF Poster, Writer
  <1>8. /\ \A q \in Proc \ {p} : Poster(q)' /\ Writer(q)'
        /\ AddersHold' /\ IndexData'
    BY <1>0, <1>1, <1>4, <1>6, WritersKnow DEF Adding
  <1>9. HeaderData'
    BY <1>1, <1>4, <1>5 DEF CrashInv, HeaderData
  <1> QED
    BY <1>6, <1>7, <1>8, <1>9 DEF CrashInv

LEMMA StepCrashInv ==
  ASSUME NoPurge, TypeInv, TypeInv', CrashInv, [Next]_vars
  PROVE  CrashInv' /\ Grows
  <1>1. CASE UNCHANGED vars
    <2>1. Grows
      BY <1>1, SameIndexGrows DEF vars
    <2>2. CrashInv'
      BY <1>1 DEF vars, CrashInv, AddersHold, IndexData, HeaderData, Increasing, Poster, Writer
    <2> QED
      BY <2>1, <2>2
  <1>2. CASE Next
    <2>1. PICK p \in Proc : Start(p) \/ Continue(p) \/ Crash(p)
      BY <1>2 DEF Next
    <2>2. p \notin Purgers
      BY DEF NoPurge
    <2>3. CASE AddHdr(p)
      BY <2>3, AddHdrCrashInv, QuietPostCrashInv DEF QuietPost
    <2>4. CASE GetMsgIdx(p)
      <3>1. CASE \E k \in 1..Len(sid) : sid[k].num = msg[p].num
        BY <2>4, <3>1, GetMsgIdxCrashInv
      <3>2. CASE ~\E k \in 1..Len(sid) : sid[k].num = msg[p].num
        BY <2>4, <3>2, QuietModifyCrashInv DEF QuietModify
      <3> QED
        BY <3>1, <3>2
    <2>5. CASE AddAlloc(p) \/ AddPutHdr(p) \/ AddPutIdx(p) \/ AddPutStatus(p)
      BY <2>5, AddAllocCrashInv, AddPutHdrCrashInv, AddPutIdxCrashInv, AddPutStatusCrashInv
    <2>6. CASE LockMsgHdr(p) \/ PutHdr(p) \/ PutIdx(p)
      BY <2>6, LockMsgHdrCrashInv, PutHdrCrashInv, PutIdxCrashInv
    <2>7. CASE \/ AddLock(p) \/ HeaderLock(p)
               \/ PostStep(p) /\ ~(AddHdr(p) \/ AddAlloc(p) \/ AddPutHdr(p) \/ AddPutIdx(p)
                                   \/ AddPutStatus(p))
      BY <2>7, QuietPostCrashInv DEF PostStep, QuietPost
    <2>8. CASE \/ UpdateLock(p) \/ EditBegin(p) \/ SendRead(p)
               \/ ModifyStep(p) /\ ~(GetMsgIdx(p) \/ LockMsgHdr(p) \/ PutHdr(p) \/ PutIdx(p))
      BY <2>8, QuietModifyCrashInv DEF ModifyStep, QuietModify
    <2>9. CASE Unlock(p) \/ CloseBase(p) \/ Crash(p)
      BY <2>9, CommonCrashInv
    <2> QED
      BY <2>1, <2>2, <2>3, <2>4, <2>5, <2>6, <2>7, <2>8, <2>9 DEF Start, Continue
  <1> QED
    BY <1>1, <1>2

LEMMA GrowsKeeps ==
  ASSUME TypeInv, TypeInv', Grows
  PROVE  /\ \A k \in 1..Len(sid) : "delete" \notin sid[k].attr =>
               \E j \in 1..Len(sid') : sid'[j].num = sid[k].num
         /\ status'.last >= status.last
         /\ \A j \in 1..Len(sid') :
               (\A k \in 1..Len(sid) : sid[k].num # sid'[j].num)
                   => sid'[j].num > status.last
  <1>1. Len(sid) \in Nat /\ Len(sid') \in Nat
    <2>1. sid \in Seq(IdxRecs) /\ sid' \in Seq(IdxRecs)
      BY DEF TypeInv, TypeOK
    <2> QED
      BY <2>1
  <1>2. \A k \in 1..Len(sid) : k \in 1..Len(sid')
    BY <1>1 DEF Grows
  <1>3. \A j \in 1..Len(sid') : j \in 1..Len(sid) \/ j \in Len(sid)+1..Len(sid')
    BY <1>1
  <1> QED
    BY <1>2, <1>3 DEF Grows

\* Where nobody purges, and whoever posts, rewrites a header with or without
\* the lock on the base, and dies doing it: the index is sorted and every
\* record leads to its own header.
THEOREM CrashSafe == ASSUME NoPurge PROVE Spec => [](IndexSorted /\ OwnHeader)
  <1>1. CrashInv => IndexSorted /\ OwnHeader
    BY DEF CrashInv, IndexData, HeaderData, IndexSorted, OwnHeader
  <1>2. TypeInv /\ CrashInv /\ [Next]_vars => (TypeInv /\ CrashInv)'
    BY StepTypeInv, StepCrashInv
  <1>3. Init => TypeInv /\ CrashInv
    BY InitTypeInv, InitCrashInv
  <1> QED
    BY <1>1, <1>2, <1>3, PTL DEF Spec

\* And whoever dies, no message leaves the index and no number is given to a
\* second one.
THEOREM CrashKeeps == ASSUME NoPurge PROVE Spec => NoMessageLost /\ NumbersNeverReused
  <1> DEFINE Keeps == \A k \in 1..Len(sid) : "delete" \notin sid[k].attr =>
                          \E j \in 1..Len(sid') : sid'[j].num = sid[k].num
             New == /\ status'.last >= status.last
                    /\ \A j \in 1..Len(sid') :
                         (\A k \in 1..Len(sid) : sid[k].num # sid'[j].num)
                             => sid'[j].num > status.last
  <1>1. TypeInv /\ CrashInv /\ [Next]_vars
          => (TypeInv /\ CrashInv)' /\ [Keeps]_sid /\ [New]_<<sid, status>>
    BY StepTypeInv, StepCrashInv, GrowsKeeps
  <1>2. Init => TypeInv /\ CrashInv
    BY InitTypeInv, InitCrashInv
  <1>3. Spec => [][Keeps]_sid /\ [][New]_<<sid, status>>
    BY <1>1, <1>2, PTL DEF Spec
  <1> QED
    BY <1>3 DEF NoMessageLost, NumbersNeverReused

-----------------------------------------------------------------------------
(* Marks, when nobody purges and nobody writes a header he has not read     *)
(* under its lock.                                                          *)

NoSenders == Senders = {}

\* A mark in the index is one of the header as well.
Marks == \A k \in 1..Len(sid) : "delete" \in sid[k].attr => "delete" \in shd[sid[k].slot].attr

\* What a process is about to write: a poster a message without marks, another
\* program one that has all the marks of the header, which it has locked
Hand(p) ==
    /\ pc[p] \in {"add_alloc", "add_puthdr", "add_putidx"} => msg[p].attr = {}
    /\ pc[p] \in {"puthdr", "putidx"} =>
         /\ msgLock[msg[p].slot] = p
         /\ "delete" \in shd[msg[p].slot].attr => "delete" \in msg[p].attr
    /\ pc[p] = "putidx" => shd[msg[p].slot].attr = msg[p].attr

MarkInv == Marks /\ \A p \in Proc : Hand(p)

\* What a step does to the marks in the index
MarksStay == \A k \in 1..Len(sid) : "delete" \in sid[k].attr => "delete" \in sid'[k].attr

LEMMA InitMarkInv == Init => MarkInv
  <1> SUFFICES ASSUME Init PROVE MarkInv
    OBVIOUS
  <1>0. PICK n \in 0..InitMsgs : \E marked \in [1..n -> {{}, {"delete"}}] :
          /\ sid = [i \in 1..n |-> [num |-> i, slot |-> i, attr |-> marked[i]]]
          /\ shd = [s \in Slots |-> IF s \in 1..n THEN [num |-> s, attr |-> marked[s]]
                                                 ELSE NoHdr]
    BY DEF Init
  <1>1. PICK marked \in [1..n -> {{}, {"delete"}}] :
          /\ sid = [i \in 1..n |-> [num |-> i, slot |-> i, attr |-> marked[i]]]
          /\ shd = [s \in Slots |-> IF s \in 1..n THEN [num |-> s, attr |-> marked[s]]
                                                 ELSE NoHdr]
    BY <1>0
  <1>2. n \in Nat /\ 1..n \subseteq Slots
    BY SmbBaseAssumption
  <1>3. /\ Len(sid) = n
        /\ \A k \in 1..n : sid[k].slot = k /\ sid[k].attr = marked[k] /\ shd[k].attr = marked[k]
    BY <1>1, <1>2
  <1>4. \A p \in Proc : pc[p] = "idle"
    BY DEF Init
  <1> QED
    BY <1>3, <1>4 DEF MarkInv, Marks, Hand

\* A step of p that writes neither file and leaves it nothing to write
LEMMA MarkQuiet ==
  ASSUME MarkInv, NEW p \in Proc, UNCHANGED <<sid, shd>>,
         \A q \in Proc \ {p} : pc'[q] = pc[q] /\ msg'[q] = msg[q],
         \A q \in Proc \ {p}, s \in Slots : msgLock[s] = q => msgLock'[s] = q,
         \A q \in Proc : pc[q] \in {"puthdr", "putidx"} => msg[q].slot \in Slots,
         Hand(p)'
  PROVE  MarkInv' /\ MarksStay
  <1>1. Marks' /\ MarksStay
    BY DEF MarkInv, Marks, MarksStay
  <1>2. \A q \in Proc \ {p} : Hand(q)'
    BY DEF MarkInv, Hand
  <1> QED
    BY <1>1, <1>2 DEF MarkInv

\* What TypeInv says of messages and headers, for the lemmas that follow
LEMMA MarkTypes ==
  ASSUME TypeInv
  PROVE  /\ None \notin Proc
         /\ DOMAIN pc = Proc /\ msg \in [Proc -> Msgs] /\ shd \in [Slots -> Hdrs]
         /\ msgLock \in [Slots -> Proc \cup {None}]
         /\ \A q \in Proc : pc[q] \in {"puthdr", "putidx", "lockhdr", "add_puthdr", "add_putidx"}
                               => msg[q].slot \in Slots
  BY SmbBaseAssumption DEF TypeInv, TypeOK

LEMMA CommonMarkInv ==
  ASSUME TypeInv, MarkInv, NEW p \in Proc, Unlock(p) \/ CloseBase(p) \/ Crash(p)
  PROVE  MarkInv' /\ MarksStay
  <1>1. \A q \in Proc \ {p} : pc'[q] = pc[q] /\ msg'[q] = msg[q]
    BY MarkTypes DEF Unlock, CloseBase, Crash, Goto, Forget, local
  <1>2. pc'[p] = "idle" /\ UNCHANGED <<sid, shd>>
    BY MarkTypes DEF Unlock, CloseBase, Crash, Goto, files
  <1>3. \A q \in Proc \ {p}, s \in Slots : msgLock[s] = q => msgLock'[s] = q
    BY MarkTypes DEF Unlock, CloseBase, Crash
  <1>4. Hand(p)'
    BY <1>2 DEF Hand
  <1> QED
    BY <1>1, <1>2, <1>3, <1>4, MarkTypes, MarkQuiet

LEMMA PostMarkInv ==
  ASSUME TypeInv, CrashInv, MarkInv, NEW p \in Proc, AddLock(p) \/ HeaderLock(p) \/ PostStep(p)
  PROVE  MarkInv' /\ MarksStay
  <1>1. pc' = [pc EXCEPT ![p] = pc'[p]] /\ \A q \in Proc \ {p} : pc'[q] = pc[q]
    BY MarkTypes DEF AddLock, HeaderLock, PostStep, AddStatus, AddData, AddDataTimeout, AddHdr,
           AddAlloc, AddAllocTimeout, AddPutHdr, AddPutIdx, AddPutStatus, UndoOpen,
           UndoOpenTimeout, UndoLock, UndoLockTimeout, Goto
  <1>2. \A q \in Proc \ {p} : msg'[q] = msg[q]
    BY MarkTypes DEF AddLock, HeaderLock, PostStep, AddStatus, AddData, AddDataTimeout, AddHdr,
           AddAlloc, AddAllocTimeout, AddPutHdr, AddPutIdx, AddPutStatus, UndoOpen,
           UndoOpenTimeout, UndoLock, UndoLockTimeout, local
  <1>3. msgLock' = msgLock
    BY DEF AddLock, HeaderLock, PostStep, AddStatus, AddData, AddDataTimeout, AddHdr,
           AddAlloc, AddAllocTimeout, AddPutHdr, AddPutIdx, AddPutStatus, UndoOpen,
           UndoOpenTimeout, UndoLock, UndoLockTimeout, locks
  <1>4. pc'[p] \in {"add_alloc", "add_puthdr", "add_putidx"} => msg'[p].attr = {}
    <2>1. CASE AddHdr(p)
      BY <2>1, MarkTypes DEF AddHdr, NewMsg, Goto, AfterFailure
    <2>2. CASE AddAlloc(p)
      <3>1. msg[p].attr = {}
        BY <2>2 DEF AddAlloc, MarkInv, Hand
      <3>2. PICK s \in FreeSlots : msg' = [msg EXCEPT ![p].slot = s]
        BY <2>2 DEF AddAlloc
      <3> QED
        BY <3>1, <3>2, MarkTypes DEF Msgs
    <2>3. CASE AddPutHdr(p)
      BY <2>3 DEF AddPutHdr, local, MarkInv, Hand
    <2>4. CASE ~(AddHdr(p) \/ AddAlloc(p) \/ AddPutHdr(p))
      <3>1. pc'[p] \notin {"add_alloc", "add_puthdr", "add_putidx"}
        BY <2>4, MarkTypes DEF AddLock, HeaderLock, PostStep, AddStatus, AddData, AddDataTimeout,
           AddAllocTimeout, AddPutIdx, AddPutStatus, UndoOpen,
           UndoOpenTimeout, UndoLock, UndoLockTimeout, Goto, AfterFailure
      <3> QED
        BY <3>1
    <2> QED
      BY <2>1, <2>2, <2>3, <2>4
  <1>5. pc'[p] \notin {"puthdr", "putidx"}
    BY MarkTypes DEF AddLock, HeaderLock, PostStep, AddStatus, AddData, AddDataTimeout, AddHdr,
           AddAlloc, AddAllocTimeout, AddPutHdr, AddPutIdx, AddPutStatus, UndoOpen,
           UndoOpenTimeout, UndoLock, UndoLockTimeout, Goto, AfterFailure
  <1>6. Hand(p)'
    BY <1>4, <1>5 DEF Hand
  <1>7. CASE AddPutHdr(p)
    <2>1. /\ pc[p] = "add_puthdr" /\ sid' = sid /\ msg[p].slot \in Slots
          /\ shd' = [shd EXCEPT ![msg[p].slot] = [num |-> msg[p].num, attr |-> msg[p].attr]]
      BY <1>7, MarkTypes DEF AddPutHdr
    <2>2. \A k \in 1..Len(sid) : sid[k].slot # msg[p].slot
      BY <2>1 DEF CrashInv, Poster
    <2>3. \A s \in Slots : s # msg[p].slot => shd'[s] = shd[s]
      BY <2>1, MarkTypes
    <2>4. Marks' /\ MarksStay
      BY <2>1, <2>2, <2>3, FileTypes DEF MarkInv, Marks, MarksStay
    <2>5. ASSUME NEW q \in Proc \ {p} PROVE Hand(q)'
      <3>1. ASSUME pc[q] \in {"puthdr", "putidx"} PROVE msg[q].slot \in Slots /\ msg[q].slot # msg[p].slot
        <4>1. msg[q].off < Len(sid) /\ sid[msg[q].off + 1].slot = msg[q].slot
          BY <3>1 DEF CrashInv, Writer
        <4>2. msg[q].off \in Nat /\ Len(sid) \in Nat
          BY MarkTypes, FileTypes DEF Msgs
        <4> QED
          BY <2>2, <3>1, <4>1, <4>2, MarkTypes
      <3> QED
        BY <1>1, <1>2, <1>3, <2>3, <3>1 DEF MarkInv, Hand
    <2> QED
      BY <1>6, <2>4, <2>5 DEF MarkInv
  <1>8. CASE AddPutIdx(p)
    <2>1. pc[p] = "add_putidx" /\ shd' = shd
          /\ sid' = PutMsgIdx(sid, msg[p].off, IdxRec(msg[p]))
      BY <1>8 DEF AddPutIdx
    <2>2. msg[p].off = Len(sid) /\ msg[p].attr = {} /\ Len(sid) \in Nat /\ sid \in Seq(IdxRecs)
      BY <2>1, FileTypes DEF CrashInv, Poster, MarkInv, Hand
    <2>3. /\ Len(sid') = Len(sid) + 1
          /\ \A k \in 1..Len(sid) : sid'[k] = sid[k]
          /\ sid'[Len(sid) + 1] = IdxRec(msg[p])
      <3>1. IdxRec(msg[p]) \in IdxRecs
        <4>1. msg[p] \in Msgs /\ msg[p].slot \in Slots
          BY <2>1, MarkTypes
        <4> QED
          BY <4>1 DEF IdxRec, Msgs, IdxRecs
      <3>2. sid' = Append(sid, IdxRec(msg[p]))
        BY <2>1, <2>2 DEF PutMsgIdx
      <3> QED
        BY <2>2, <3>1, <3>2, AppendProperties
    <2>4. IdxRec(msg[p]).attr = {}
      BY <2>2 DEF IdxRec
    <2>5. \A k \in 1..Len(sid') : k \in 1..Len(sid) \/ k = Len(sid) + 1
      BY <2>2, <2>3
    <2>6. Marks' /\ MarksStay
      BY <2>1, <2>3, <2>4, <2>5 DEF MarkInv, Marks, MarksStay
    <2>7. \A q \in Proc \ {p} : Hand(q)'
      BY <1>1, <1>2, <1>3, <2>1 DEF MarkInv, Hand
    <2> QED
      BY <1>6, <2>6, <2>7 DEF MarkInv
  <1>9. CASE ~(AddPutHdr(p) \/ AddPutIdx(p))
    <2>1. UNCHANGED <<sid, shd>>
      BY <1>9 DEF AddLock, HeaderLock, PostStep, AddStatus, AddData, AddDataTimeout, AddHdr,
           AddAlloc, AddAllocTimeout, AddPutStatus, UndoOpen,
           UndoOpenTimeout, UndoLock, UndoLockTimeout, files
    <2> QED
      BY <1>1, <1>2, <1>3, <1>6, <2>1, MarkTypes, MarkQuiet
  <1> QED
    BY <1>7, <1>8, <1>9

LEMMA ModifyMarkInv ==
  ASSUME NoSenders, TypeInv, CrashInv, MarkInv, NEW p \in Proc,
         UpdateLock(p) \/ EditBegin(p) \/ SendRead(p) \/ ModifyStep(p)
  PROVE  MarkInv' /\ MarksStay
  <1>1. \A q \in Proc \ {p} : pc'[q] = pc[q] /\ msg'[q] = msg[q]
    <2>1. \A q \in Proc \ {p} : pc'[q] = pc[q]
      BY MarkTypes DEF UpdateLock, EditBegin, SendRead, ModifyStep, SendLock, SendTimeout, GetMsgIdx,
             LockMsgHdr, LockMsgHdrFails, PutHdr, PutIdx, Goto
    <2>2. \A q \in Proc \ {p} : msg'[q] = msg[q]
      BY MarkTypes DEF UpdateLock, EditBegin, SendRead, ModifyStep, SendLock, SendTimeout, GetMsgIdx,
             LockMsgHdr, LockMsgHdrFails, PutHdr, PutIdx, local
    <2> QED
      BY <2>1, <2>2
  <1>2. CASE LockMsgHdr(p)
    <2>1. /\ pc[p] = "lockhdr" /\ msgLock[msg[p].slot] = None /\ msg[p].slot \in Slots
          /\ msgLock' = [msgLock EXCEPT ![msg[p].slot] = p] /\ UNCHANGED <<sid, shd>>
          /\ pc'[p] = "puthdr"
      BY <1>2, MarkTypes DEF LockMsgHdr, files, Goto
    <2>2. PICK a \in Attrs :
            msg' = [msg EXCEPT ![p].num = shd[msg[p].slot].num,
                               ![p].attr = shd[msg[p].slot].attr \cup {a}]
      BY <1>2 DEF LockMsgHdr, NoSenders
    <2>3. msg'[p].slot = msg[p].slot /\ msg'[p].attr = shd[msg[p].slot].attr \cup {a}
      BY <2>2, MarkTypes DEF Msgs
    <2>4. Hand(p)'
      BY <2>1, <2>3, MarkTypes DEF Hand
    <2>5. \A q \in Proc \ {p}, s \in Slots : msgLock[s] = q => msgLock'[s] = q
      BY <2>1, MarkTypes
    <2> QED
      BY <1>1, <2>1, <2>4, <2>5, MarkTypes, MarkQuiet
  <1>3. CASE PutHdr(p)
    <2>1. /\ pc[p] = "puthdr" /\ pc'[p] = "putidx" /\ msg[p].slot \in Slots
          /\ shd' = [shd EXCEPT ![msg[p].slot] = [num |-> msg[p].num, attr |-> msg[p].attr]]
          /\ UNCHANGED <<sid, msg, msgLock>>
      BY <1>3, MarkTypes DEF PutHdr, locks, local, Goto
    <2>2. /\ msgLock[msg[p].slot] = p
          /\ "delete" \in shd[msg[p].slot].attr => "delete" \in msg[p].attr
      BY <2>1 DEF MarkInv, Hand
    <2>3. \A s \in Slots : shd'[s].attr = IF s = msg[p].slot THEN msg[p].attr ELSE shd[s].attr
      BY <2>1, MarkTypes
    <2>4. Marks' /\ MarksStay
      BY <2>1, <2>2, <2>3, FileTypes DEF MarkInv, Marks, MarksStay
    <2>5. Hand(p)'
      BY <2>1, <2>2, <2>3 DEF Hand
    <2>6. ASSUME NEW q \in Proc \ {p} PROVE Hand(q)'
      <3>1. pc[q] \in {"puthdr", "putidx"} => msg[q].slot \in Slots /\ msg[q].slot # msg[p].slot
        BY <2>2, MarkTypes DEF MarkInv, Hand
      <3> QED
        BY <1>1, <2>1, <2>3, <3>1 DEF MarkInv, Hand
    <2> QED
      BY <2>4, <2>5, <2>6 DEF MarkInv
  <1>4. CASE PutIdx(p)
    <2>1. /\ pc[p] = "putidx" /\ pc'[p] = "unlock" /\ msg[p].slot \in Slots
          /\ sid' = PutMsgIdx(sid, msg[p].off, IdxRec(msg[p]))
          /\ msgLock' = [msgLock EXCEPT ![msg[p].slot] = None]
          /\ UNCHANGED <<shd, msg>>
      BY <1>4, MarkTypes DEF PutIdx, local, Goto
    <2>2. /\ msgLock[msg[p].slot] = p
          /\ "delete" \in shd[msg[p].slot].attr => "delete" \in msg[p].attr
      BY <2>1 DEF MarkInv, Hand
    <2>3. /\ msg[p].off \in Nat /\ Len(sid) \in Nat /\ sid \in Seq(IdxRecs)
          /\ msg[p].off < Len(sid) /\ sid[msg[p].off + 1].slot = msg[p].slot
      BY <2>1, MarkTypes, FileTypes DEF Msgs, CrashInv, Writer
    <2>4. /\ Len(sid') = Len(sid)
          /\ \A k \in 1..Len(sid) : sid'[k] = IF k = msg[p].off + 1 THEN IdxRec(msg[p]) ELSE sid[k]
      <3>1. sid' = [sid EXCEPT ![msg[p].off + 1] = IdxRec(msg[p])]
        BY <2>1, <2>3 DEF PutMsgIdx
      <3> QED
        BY <2>3, <3>1
    <2>5. IdxRec(msg[p]).attr = msg[p].attr /\ IdxRec(msg[p]).slot = msg[p].slot
      BY DEF IdxRec
    <2>6. MarksStay
      BY <2>2, <2>3, <2>4, <2>5 DEF MarkInv, Marks, MarksStay
    <2>7. "delete" \in msg[p].attr => "delete" \in shd[msg[p].slot].attr
      BY <2>1 DEF MarkInv, Hand
    <2>8. Marks'
      BY <2>1, <2>3, <2>4, <2>5, <2>7 DEF MarkInv, Marks
    <2>9. ASSUME NEW q \in Proc \ {p} PROVE Hand(q)'
      <3>1. pc[q] \in {"puthdr", "putidx"} => msg[q].slot \in Slots /\ msg[q].slot # msg[p].slot
        BY <2>2, MarkTypes DEF MarkInv, Hand
      <3> QED
        BY <1>1, <2>1, <3>1, MarkTypes DEF MarkInv, Hand
    <2>10. Hand(p)'
      BY <2>1 DEF Hand
    <2> QED
      BY <2>6, <2>8, <2>9, <2>10 DEF MarkInv
  <1>5. CASE ~(LockMsgHdr(p) \/ PutHdr(p) \/ PutIdx(p))
    <2>1. /\ UNCHANGED <<sid, shd, msgLock>>
          /\ pc'[p] \notin {"puthdr", "putidx", "add_alloc", "add_puthdr", "add_putidx"}
      BY <1>5, MarkTypes DEF UpdateLock, EditBegin, SendRead, ModifyStep, SendLock, SendTimeout, GetMsgIdx,
         LockMsgHdrFails, files, locks, Goto
    <2>2. Hand(p)'
      BY <2>1 DEF Hand
    <2> QED
      BY <1>1, <2>1, <2>2, MarkTypes, MarkQuiet
  <1> QED
    BY <1>2, <1>3, <1>4, <1>5

LEMMA StepMarkInv ==
  ASSUME NoPurge, NoSenders, TypeInv, CrashInv, MarkInv, [Next]_vars
  PROVE  MarkInv' /\ MarksStay
  <1>1. CASE UNCHANGED vars
    BY <1>1 DEF vars, MarkInv, Marks, Hand, MarksStay
  <1>2. CASE Next
    <2>1. PICK p \in Proc : Start(p) \/ Continue(p) \/ Crash(p)
      BY <1>2 DEF Next
    <2>2. p \notin Purgers
      BY DEF NoPurge
    <2>3. CASE AddLock(p) \/ HeaderLock(p) \/ PostStep(p)
      BY <2>3, PostMarkInv
    <2>4. CASE UpdateLock(p) \/ EditBegin(p) \/ SendRead(p) \/ ModifyStep(p)
      BY <2>4, ModifyMarkInv
    <2>5. CASE Unlock(p) \/ CloseBase(p) \/ Crash(p)
      BY <2>5, CommonMarkInv
    <2> QED
      BY <2>1, <2>2, <2>3, <2>4, <2>5 DEF Start, Continue
  <1> QED
    BY <1>1, <1>2

\* Records keep their places, their numbers differ, and so a mark that stays in
\* its place stays with its message.
LEMMA MarkedStays ==
  ASSUME TypeInv, CrashInv', Grows, MarksStay, TypeInv'
  PROVE  \A k \in 1..Len(sid), j \in 1..Len(sid') :
            (sid[k].num = sid'[j].num /\ "delete" \in sid[k].attr) => "delete" \in sid'[j].attr
  <1>1. SUFFICES ASSUME NEW k \in 1..Len(sid), NEW j \in 1..Len(sid'),
                        "delete" \in sid[k].attr, sid'[j].num = sid[k].num
                 PROVE  "delete" \in sid'[j].attr
    OBVIOUS
  <1>2. Len(sid) \in Nat /\ Len(sid') \in Nat /\ sid'[j].num \in Nat
    <2>1. sid \in Seq(IdxRecs) /\ sid' \in Seq(IdxRecs)
      BY DEF TypeInv, TypeOK
    <2>2. sid'[j] \in IdxRecs
      BY <2>1
    <2> QED
      BY <2>1, <2>2 DEF IdxRecs
  <1>3. k \in 1..Len(sid') /\ sid'[k].num = sid[k].num
    BY <1>2 DEF Grows
  <1>4. \A a, b \in 1..Len(sid') : a < b => sid'[a].num < sid'[b].num
    <2>1. Increasing(sid)'
      BY DEF CrashInv, IndexData
    <2> QED
      BY <2>1 DEF Increasing
  <1>5. j = k
    BY <1>1, <1>2, <1>3, <1>4
  <1> QED
    BY <1>1, <1>5 DEF MarksStay

\* Where nobody purges and whoever rewrites a header reads it under its lock, a
\* mark once in the index stays, whoever dies: readers who set marks at the
\* same time, with or without the lock on the base, lose none.
THEOREM MarksStick == ASSUME NoPurge, NoSenders PROVE Spec => MarkSticks
  <1> DEFINE Stay == \A k \in 1..Len(sid), j \in 1..Len(sid') :
            (sid[k].num = sid'[j].num /\ "delete" \in sid[k].attr) => "delete" \in sid'[j].attr
  <1>1. TypeInv /\ CrashInv /\ MarkInv /\ [Next]_vars
          => (TypeInv /\ CrashInv /\ MarkInv)' /\ [Stay]_sid
    BY StepTypeInv, StepCrashInv, StepMarkInv, MarkedStays
  <1>2. Init => TypeInv /\ CrashInv /\ MarkInv
    BY InitTypeInv, InitCrashInv, InitMarkInv
  <1>3. Spec => [][Stay]_sid
    BY <1>1, <1>2, PTL DEF Spec
  <1> QED
    BY <1>3 DEF MarkSticks
=============================================================================
