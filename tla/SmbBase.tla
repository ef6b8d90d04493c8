------------------------------- MODULE SmbBase -------------------------------
(***************************************************************************)
(* One Synchronet message base (smblib) shared by several programs: the    *)
(* BBS, the mail server, SBBSecho, smbutil and JavaScript programs all     *)
(* open the same files and synchronise only through                        *)
(*                                                                         *)
(*   hdrLock     the byte-range lock on the status header (smb_locksmbhdr), *)
(*   daLock      the exclusive (DENY ALL) opening of the .sda file,        *)
(*   haLock      the exclusive opening of the .sha file,                   *)
(*   msgLock[s]  the byte-range lock on the header record in slot s.       *)
(*                                                                         *)
(* Every wait for one of them gives up after smb->retry_time: such a       *)
(* timeout is an action of its own, enabled while another process holds    *)
(* the lock.  A timeout of a call that has changed nothing yet is a        *)
(* stuttering step.  Data blocks are the subject of SmbStore; here a       *)
(* message is its header record and its index record.                      *)
(***************************************************************************)
EXTENDS Integers, Sequences

CONSTANTS
    Adders,     \* post messages with text: smb_addmsg
    Headers,    \* add a header only: smb_addmsghdr for a vote, or for one more
                \* recipient of a text already stored
    Updaters,   \* lock the base, look up, re-read, rewrite a header (POP3, readmail)
    Senders,    \* read a header, work without locks, then smb_updatemsg (sendmail)
    Editors,    \* rewrite a header under its own lock only (MsgBase.put_msg_header)
    Purgers,    \* delete marked messages from the base: delmail
    Crashers,   \* the processes that may die in the middle of a call
    Slots,      \* header offsets (idx.offset), numbered in file order
    Hyper,      \* TRUE: the base has attribute SMB_HYPERALLOC
    InitMsgs,   \* at most this many messages exist initially
    MaxMsgs,    \* bound on message numbers (guards AddLock only)
    None        \* "no process"

Posters == Adders \cup Headers
Modifiers == Updaters \cup Senders \cup Editors
Proc == Posters \cup Modifiers \cup Purgers

ASSUME SmbBaseAssumption ==
    /\ None \notin Proc
    /\ Slots \subseteq Nat \ {0}
    /\ InitMsgs \in Nat /\ MaxMsgs \in Nat
    /\ 1..InitMsgs \subseteq Slots
    /\ Hyper \in BOOLEAN
    /\ \A p \in Posters : p \notin Modifiers \cup Purgers
    /\ \A p \in Purgers : p \notin Modifiers
    /\ \A p \in Adders : p \notin Headers
    /\ \A p \in Updaters : p \notin Senders \cup Editors
    /\ \A p \in Senders : p \notin Editors

Attrs == {"read", "delete"}     \* MSG_READ, MSG_DELETE of hdr.attr / idx.attr

NoHdr == [num |-> 0, attr |-> {}]
NewMsg(n, s, o) == [num |-> n, slot |-> s, off |-> o, attr |-> {}]
NoMsg == NewMsg(0, 0, 0)
NoStatus == [last |-> 0, total |-> 0]

VARIABLES
    hdrLock, daLock, haLock, msgLock,
    status,     \* smbstatus_t in the .shd file: last_msg, total_msgs
    sid,        \* the index file: a sequence of records
    shd,        \* header records by slot
    sha,        \* slots allocated in the .sha file
    shaEnd,     \* its length: no header beyond this slot
    pc,
    st,         \* each process's own copy of the status (smb->status)
    msg,        \* each process's smbmsg_t: number, idx.offset, offset, attr
    buf,        \* delmail's idxbuf
    pos         \* delmail's read position in the index file

locks == <<hdrLock, daLock, haLock, msgLock>>
files == <<status, sid, shd, sha, shaEnd>>
local == <<st, msg, buf, pos>>
vars == <<hdrLock, daLock, haLock, msgLock, status, sid, shd, sha, shaEnd,
          pc, st, msg, buf, pos>>

-----------------------------------------------------------------------------
(* A base of n messages, some of them already marked; nobody is using it.   *)

Init ==
    \E n \in 0..InitMsgs : \E marked \in [1..n -> {{}, {"delete"}}] :
        /\ status = [last |-> n, total |-> n]
        /\ sid = [i \in 1..n |-> [num |-> i, slot |-> i, attr |-> marked[i]]]
        /\ shd = [s \in Slots |-> IF s \in 1..n THEN [num |-> s, attr |-> marked[s]]
                                               ELSE NoHdr]
        /\ sha = 1..n /\ shaEnd = n
        /\ hdrLock = None /\ daLock = None /\ haLock = None
        /\ msgLock = [s \in Slots |-> None]
        /\ pc = [p \in Proc |-> "idle"]
        /\ st = [p \in Proc |-> NoStatus]
        /\ msg = [p \in Proc |-> NoMsg]
        /\ buf = [p \in Proc |-> <<>>]
        /\ pos = [p \in Proc |-> 0]

-----------------------------------------------------------------------------
Goto(p, l) == pc' = [pc EXCEPT ![p] = l]

IdxRec(m) == [num |-> m.num, slot |-> m.slot, attr |-> m.attr]

-----------------------------------------------------------------------------
(* Plausible mistakes.  No specification uses these operators: each is an  *)
(* action (or helper) below with one thing wrong, and shows that a property *)
(* depends on that thing being right.                                      *)

FreeSlotsOfDeleted ==                      \* a marked header counts as free
    {s \in Slots : shd[s] = NoHdr \/ "delete" \in shd[s].attr}

AddHdrNumberFromTotal(p) ==                \* number from total_msgs
    /\ pc[p] = "add_hdr"
    /\ st' = [st EXCEPT ![p] = status]
    /\ Len(sid) = status.total
    /\ msg' = [msg EXCEPT ![p] = NewMsg(status.total + 1, 0, status.total)]
    /\ Goto(p, "add_alloc")
    /\ UNCHANGED <<locks, files, buf, pos>>

AddHdrUnchecked(p) ==                      \* no check of the index length
    /\ pc[p] = "add_hdr"
    /\ st' = [st EXCEPT ![p] = status]
    /\ msg' = [msg EXCEPT ![p] = NewMsg(status.last + 1, 0, Len(sid))]
    /\ Goto(p, "add_alloc")
    /\ UNCHANGED <<locks, files, buf, pos>>

AddAllocUnmarked(p) ==                     \* the .sha file is not written
    /\ pc[p] = "add_alloc"
    /\ Hyper \/ haLock = None
    /\ \E s \in Slots \ sha : /\ \A t \in Slots \ sha : s <= t
                              /\ msg' = [msg EXCEPT ![p].slot = s]
    /\ Goto(p, "add_puthdr")
    /\ UNCHANGED <<locks, files, st, buf, pos>>

AddAllocTimeoutIgnored(p) ==               \* the error of smb_open_ha is lost
    /\ pc[p] = "add_alloc"
    /\ ~Hyper /\ haLock # None
    /\ Goto(p, "add_puthdr")
    /\ UNCHANGED <<locks, files, local>>

AddPutStatusNoTotal(p) ==                  \* total_msgs not counted up
    /\ pc[p] = "add_putstatus"
    /\ status' = [status EXCEPT !.last = st[p].last + 1]
    /\ Goto(p, "unlock")
    /\ UNCHANGED <<locks, sid, shd, sha, shaEnd, local>>

GetMsgIdxOneOff(p) ==                      \* offset of the next record
    /\ pc[p] = "getidx"
    /\ \E k \in 1..Len(sid) :
         /\ sid[k].num = msg[p].num
         /\ msg' = [msg EXCEPT ![p].slot = sid[k].slot, ![p].off = k]
    /\ Goto(p, "lockhdr")
    /\ UNCHANGED <<locks, files, st, buf, pos>>

LockMsgHdrReplacesMarks(p) ==              \* attr = a, not attr |= a
    /\ pc[p] = "lockhdr"
    /\ msgLock[msg[p].slot] = None
    /\ msgLock' = [msgLock EXCEPT ![msg[p].slot] = p]
    /\ \E a \in Attrs : msg' = [msg EXCEPT ![p].num = shd[msg[p].slot].num, ![p].attr = {a}]
    /\ Goto(p, "puthdr")
    /\ UNCHANGED <<hdrLock, daLock, haLock, files, st, buf, pos>>

PutIdxKeepsHeader(p) ==                    \* no smb_unlockmsghdr
    /\ pc[p] = "putidx"
    /\ sid' = [sid EXCEPT ![msg[p].off + 1] = IdxRec(msg[p])]
    /\ Goto(p, "unlock")
    /\ UNCHANGED <<locks, status, shd, sha, shaEnd, local>>

PurgeStatusUnlocks(p) ==                   \* the caller's lock given up too early
    /\ pc[p] = "pg_status"
    /\ st' = [st EXCEPT ![p] = status]
    /\ hdrLock' = None
    /\ Goto(p, IF status.total = 0 THEN "unlock" ELSE "pg_da")
    /\ UNCHANGED <<daLock, haLock, msgLock, files, msg, buf, pos>>

PurgeOpenHaShared(p) ==                    \* .sha opened without DENY ALL
    /\ pc[p] = "pg_ha"
    /\ Goto(p, "pg_scan")
    /\ UNCHANGED <<locks, files, local>>

PurgeDropRereads(p) ==                     \* the file position is not kept
    /\ pc[p] = "pg_scan"
    /\ pos[p] < Len(sid) /\ "delete" \in sid[pos[p] + 1].attr
    /\ msg' = [msg EXCEPT ![p] = NewMsg(0, sid[pos[p] + 1].slot, 0)]
    /\ Goto(p, "pg_freehdr")
    /\ UNCHANGED <<locks, files, st, buf, pos>>

PurgeTruncateShort(p) ==                   \* one record too many cut off
    /\ pc[p] = "pg_trunc"
    /\ sid' = SubSeq(sid, 1, Len(buf[p]) - 1)
    /\ Goto(p, "pg_putstatus")
    /\ UNCHANGED <<locks, status, shd, sha, shaEnd, local>>

PurgePutStatusRenumbers(p) ==              \* last_msg recounted as well
    /\ pc[p] = "pg_putstatus"
    /\ status' = [last |-> Len(buf[p]), total |-> Len(buf[p])]
    /\ Goto(p, "pg_close")
    /\ UNCHANGED <<locks, sid, shd, sha, shaEnd, local>>

-----------------------------------------------------------------------------
(* Common steps.                                                            *)

\* smb_putmsgidx: write record r at offset off, at most one past the end
PutMsgIdx(s, off, r) ==
    IF off < Len(s) THEN [s EXCEPT ![off + 1] = r]
    ELSE IF off = Len(s) THEN Append(s, r) ELSE s

Forget(p) ==      \* the call returns: its locals are gone
    /\ st' = [st EXCEPT ![p] = NoStatus]
    /\ msg' = [msg EXCEPT ![p] = NoMsg]
    /\ buf' = [buf EXCEPT ![p] = <<>>]
    /\ pos' = [pos EXCEPT ![p] = 0]

\* smb_unlocksmbhdr as the last step of every call; unlocking a header that
\* is not locked by this process is harmless
Unlock(p) ==
    /\ pc[p] = "unlock"
    /\ hdrLock' = IF hdrLock = p THEN None ELSE hdrLock
    /\ Goto(p, "idle")
    /\ Forget(p)
    /\ UNCHANGED <<daLock, haLock, msgLock, files>>

\* smb_close: whatever the process still holds open is released
CloseBase(p) ==
    /\ pc[p] = "idle"
    /\ daLock = p
    /\ daLock' = None
    /\ UNCHANGED <<hdrLock, haLock, msgLock, files, pc, local>>

\* The operating system closes the files of a process that dies
Crash(p) ==
    /\ p \in Crashers
    /\ pc[p] # "idle"
    /\ hdrLock' = IF hdrLock = p THEN None ELSE hdrLock
    /\ daLock' = IF daLock = p THEN None ELSE daLock
    /\ haLock' = IF haLock = p THEN None ELSE haLock
    /\ msgLock' = [s \in Slots |-> IF msgLock[s] = p THEN None ELSE msgLock[s]]
    /\ Goto(p, "idle")
    /\ Forget(p)
    /\ UNCHANGED files

-----------------------------------------------------------------------------
(* smb_addmsg and smb_addmsghdr.                                            *)

\* Slots a new header may take: past the last record ever written in a
\* hyper-allocated base, else whatever the .sha file says is free
FreeSlots == IF Hyper THEN {s \in Slots : shd[s] = NoHdr} ELSE Slots \ sha

AddLock(p) ==
    /\ pc[p] = "idle"
    /\ hdrLock = None
    /\ status.last < MaxMsgs /\ FreeSlots # {}         \* bounds of the model
    /\ hdrLock' = p
    /\ Goto(p, "add_status")
    /\ UNCHANGED <<daLock, haLock, msgLock, files, local>>

\* smb_addmsghdr called by itself starts with its own lock
HeaderLock(p) ==
    /\ pc[p] = "idle"
    /\ hdrLock = None
    /\ status.last < MaxMsgs /\ FreeSlots # {}         \* bounds of the model
    /\ hdrLock' = p
    /\ Goto(p, "add_hdr")
    /\ UNCHANGED <<daLock, haLock, msgLock, files, local>>

AddStatus(p) ==
    /\ pc[p] = "add_status"
    /\ st' = [st EXCEPT ![p] = status]
    /\ msg' = [msg EXCEPT ![p] = NewMsg(status.last + 1, 0, 0)]
    /\ Goto(p, IF Hyper THEN "add_hdr" ELSE "add_data")
    /\ UNCHANGED <<locks, files, buf, pos>>

\* smb_open_da, smb_allocdat, smb_close_da: nobody sees the file in between.
\* A process that still has it open (see UndoLockTimeout) opens it at once.
AddData(p) ==
    /\ pc[p] = "add_data"
    /\ daLock \in {None, p}
    /\ daLock' = None
    /\ Goto(p, "add_hdr")
    /\ UNCHANGED <<hdrLock, haLock, msgLock, files, local>>

AddDataTimeout(p) ==
    /\ pc[p] = "add_data"
    /\ daLock \notin {None, p}
    /\ Goto(p, "unlock")
    /\ UNCHANGED <<locks, files, local>>

\* smb_addmsghdr failed with the header unlocked: smb_addmsg gives the data
\* blocks it has allocated back, the other callers just report the error
AfterFailure(p) == IF p \in Adders /\ ~Hyper THEN "undo_open" ELSE "unlock"

\* smb_addmsghdr: the status is read again and the index length checked
AddHdr(p) ==
    /\ pc[p] = "add_hdr"
    /\ st' = [st EXCEPT ![p] = status]
    /\ IF Len(sid) = status.total
       THEN /\ msg' = [msg EXCEPT ![p] = NewMsg(status.last + 1, 0, status.total)]
            /\ Goto(p, "add_alloc")
            /\ UNCHANGED hdrLock
       ELSE /\ hdrLock' = None                         \* SMB_ERR_FILE_LEN
            /\ Goto(p, AfterFailure(p))
            /\ UNCHANGED msg
    /\ UNCHANGED <<daLock, haLock, msgLock, files, buf, pos>>

\* smb_open_ha, smb_allochdr (first fit), smb_close_ha
AddAlloc(p) ==
    /\ pc[p] = "add_alloc"
    /\ Hyper \/ haLock = None
    /\ \E s \in FreeSlots :
        /\ \A t \in FreeSlots : s <= t
        /\ msg' = [msg EXCEPT ![p].slot = s]
        /\ sha' = IF Hyper THEN sha ELSE sha \cup {s}
        /\ shaEnd' = IF Hyper \/ s <= shaEnd THEN shaEnd ELSE s
    /\ Goto(p, "add_puthdr")
    /\ UNCHANGED <<locks, status, sid, shd, st, buf, pos>>

AddAllocTimeout(p) ==
    /\ pc[p] = "add_alloc"
    /\ ~Hyper /\ haLock # None
    /\ hdrLock' = None
    /\ Goto(p, AfterFailure(p))
    /\ UNCHANGED <<daLock, haLock, msgLock, files, local>>

AddPutHdr(p) ==
    /\ pc[p] = "add_puthdr"
    /\ shd' = [shd EXCEPT ![msg[p].slot] = [num |-> msg[p].num, attr |-> msg[p].attr]]
    /\ Goto(p, "add_putidx")
    /\ UNCHANGED <<locks, status, sid, sha, shaEnd, local>>

\* at the offset taken from the status: the index may have been cut since
AddPutIdx(p) ==
    /\ pc[p] = "add_putidx"
    /\ sid' = PutMsgIdx(sid, msg[p].off, IdxRec(msg[p]))
    /\ IF msg[p].off <= Len(sid)
       THEN Goto(p, "add_putstatus") /\ UNCHANGED hdrLock
       ELSE Goto(p, AfterFailure(p)) /\ hdrLock' = None  \* SMB_ERR_HDR_OFFSET
    /\ UNCHANGED <<daLock, haLock, msgLock, status, shd, sha, shaEnd, local>>

AddPutStatus(p) ==
    /\ pc[p] = "add_putstatus"
    /\ status' = [last |-> st[p].last + 1, total |-> st[p].total + 1]
    /\ Goto(p, "unlock")
    /\ UNCHANGED <<locks, sid, shd, sha, shaEnd, local>>

\* smb_freemsg_dfields opens the .sda file before it locks the header
UndoOpen(p) ==
    /\ pc[p] = "undo_open"
    /\ daLock \in {None, p}
    /\ daLock' = p
    /\ Goto(p, "undo_lock")
    /\ UNCHANGED <<hdrLock, haLock, msgLock, files, local>>

UndoOpenTimeout(p) ==
    /\ pc[p] = "undo_open"
    /\ daLock \notin {None, p}
    /\ Goto(p, "unlock")
    /\ UNCHANGED <<locks, files, local>>

\* lock, free, smb_close_da, unlock
UndoLock(p) ==
    /\ pc[p] = "undo_lock"
    /\ hdrLock = None
    /\ daLock' = None
    /\ Goto(p, "unlock")
    /\ UNCHANGED <<hdrLock, haLock, msgLock, files, local>>

\* SMB_ERR_LOCK: the .sda file that smb_freemsgdat opened stays open
UndoLockTimeout(p) ==
    /\ pc[p] = "undo_lock"
    /\ hdrLock # None
    /\ Goto(p, "unlock")
    /\ UNCHANGED <<locks, files, local>>

-----------------------------------------------------------------------------
(* Rewriting a header and its index record.                                 *)

\* smb_locksmbhdr first, then everything else (POP3 DELE and RETR, readmail)
UpdateLock(p) ==
    /\ pc[p] = "idle"
    /\ hdrLock = None
    /\ hdrLock' = p
    /\ \E n \in 1..status.last : msg' = [msg EXCEPT ![p] = NewMsg(n, 0, 0)]
    /\ Goto(p, "getidx")
    /\ UNCHANGED <<daLock, haLock, msgLock, files, st, buf, pos>>

\* js_put_msg_header: no lock on the base
EditBegin(p) ==
    /\ pc[p] = "idle"
    /\ \E n \in 1..status.last : msg' = [msg EXCEPT ![p] = NewMsg(n, 0, 0)]
    /\ Goto(p, "getidx")
    /\ UNCHANGED <<locks, files, st, buf, pos>>

\* sendmail_thread reads the header of a message of its list; the network
\* transfer that follows decides what to add to its attributes
SendRead(p) ==
    /\ pc[p] = "idle"
    /\ \E k \in 1..Len(sid), a \in Attrs :
        /\ sid[k].slot \in Slots /\ msgLock[sid[k].slot] = None
        /\ shd[sid[k].slot] # NoHdr
        /\ "delete" \notin shd[sid[k].slot].attr
        /\ msg' = [msg EXCEPT ![p] = [num |-> shd[sid[k].slot].num, slot |-> sid[k].slot,
                                      off |-> k - 1,
                                      attr |-> shd[sid[k].slot].attr \cup {a}]]
    /\ Goto(p, "send_lock")
    /\ UNCHANGED <<locks, files, st, buf, pos>>

\* smb_updatemsg, with the header as it was read
SendLock(p) ==
    /\ pc[p] = "send_lock"
    /\ hdrLock = None
    /\ hdrLock' = p
    /\ Goto(p, "getidx")
    /\ UNCHANGED <<daLock, haLock, msgLock, files, local>>

SendTimeout(p) ==
    /\ pc[p] = "send_lock"
    /\ hdrLock # None
    /\ Goto(p, "unlock")
    /\ UNCHANGED <<locks, files, local>>

\* smb_getmsgidx by number (its binary search is SmbIdxSearch)
GetMsgIdx(p) ==
    /\ pc[p] = "getidx"
    /\ IF \E k \in 1..Len(sid) : sid[k].num = msg[p].num
       THEN /\ \E k \in 1..Len(sid) :
                /\ sid[k].num = msg[p].num
                /\ msg' = [msg EXCEPT ![p].slot = sid[k].slot, ![p].off = k - 1]
            /\ Goto(p, "lockhdr")
       ELSE /\ Goto(p, "unlock")                       \* SMB_ERR_NOT_FOUND
            /\ UNCHANGED msg
    /\ UNCHANGED <<locks, files, st, buf, pos>>

\* smb_lockmsghdr; all but smb_updatemsg then read the header again, taking
\* the number it holds, and add a mark
LockMsgHdr(p) ==
    /\ pc[p] = "lockhdr"
    /\ msgLock[msg[p].slot] = None
    /\ p \in Senders \/ shd[msg[p].slot] # NoHdr
    /\ msgLock' = [msgLock EXCEPT ![msg[p].slot] = p]
    /\ IF p \in Senders
       THEN UNCHANGED msg
       ELSE \E a \in Attrs :
              msg' = [msg EXCEPT ![p].num = shd[msg[p].slot].num,
                                 ![p].attr = shd[msg[p].slot].attr \cup {a}]
    /\ Goto(p, "puthdr")
    /\ UNCHANGED <<hdrLock, daLock, haLock, files, st, buf, pos>>

\* not locked in time, or unlocked again because the header cannot be read
LockMsgHdrFails(p) ==
    /\ pc[p] = "lockhdr"
    /\ msgLock[msg[p].slot] # None \/ (p \notin Senders /\ shd[msg[p].slot] = NoHdr)
    /\ Goto(p, "unlock")
    /\ UNCHANGED <<locks, files, local>>

PutHdr(p) ==
    /\ pc[p] = "puthdr"
    /\ shd' = [shd EXCEPT ![msg[p].slot] = [num |-> msg[p].num, attr |-> msg[p].attr]]
    /\ Goto(p, "putidx")
    /\ UNCHANGED <<locks, status, sid, sha, shaEnd, local>>

\* smb_putmsgidx at the offset found by GetMsgIdx, then smb_unlockmsghdr
PutIdx(p) ==
    /\ pc[p] = "putidx"
    /\ sid' = PutMsgIdx(sid, msg[p].off, IdxRec(msg[p]))
    /\ msgLock' = [msgLock EXCEPT ![msg[p].slot] = None]
    /\ Goto(p, "unlock")
    /\ UNCHANGED <<hdrLock, daLock, haLock, status, shd, sha, shaEnd, local>>

-----------------------------------------------------------------------------
(* delmail, called with the base locked.                                    *)

PurgeLock(p) ==
    /\ pc[p] = "idle"
    /\ hdrLock = None
    /\ hdrLock' = p
    /\ Goto(p, "pg_status")
    /\ UNCHANGED <<daLock, haLock, msgLock, files, local>>

PurgeStatus(p) ==
    /\ pc[p] = "pg_status"
    /\ st' = [st EXCEPT ![p] = status]
    /\ Goto(p, IF status.total = 0 THEN "unlock" ELSE "pg_da")
    /\ UNCHANGED <<locks, files, msg, buf, pos>>

PurgeOpenDa(p) ==
    /\ pc[p] = "pg_da"
    /\ daLock = None
    /\ daLock' = p
    /\ Goto(p, "pg_ha")
    /\ UNCHANGED <<hdrLock, haLock, msgLock, files, local>>

PurgeOpenDaTimeout(p) ==
    /\ pc[p] = "pg_da"
    /\ daLock # None
    /\ Goto(p, "unlock")
    /\ UNCHANGED <<locks, files, local>>

\* smb_open_ha cannot find the file taken: every holder has the .sda file too
PurgeOpenHa(p) ==
    /\ pc[p] = "pg_ha"
    /\ haLock = None
    /\ haLock' = p
    /\ Goto(p, "pg_scan")
    /\ UNCHANGED <<hdrLock, daLock, msgLock, files, local>>

Scanning(p) == pos[p] < Len(sid) /\ Len(buf[p]) < st[p].total

\* A record that is kept is copied to idxbuf
PurgeKeep(p) ==
    /\ pc[p] = "pg_scan" /\ Scanning(p)
    /\ "delete" \notin sid[pos[p] + 1].attr
    /\ buf' = [buf EXCEPT ![p] = Append(@, sid[pos[p] + 1])]
    /\ pos' = [pos EXCEPT ![p] = @ + 1]
    /\ UNCHANGED <<locks, files, pc, st, msg>>

\* A marked one is not; the header gets the same attributes, then smb_freemsg
\* frees it.  A message without data fields (a vote) has no data to free.
PurgeDrop(p) ==
    /\ pc[p] = "pg_scan" /\ Scanning(p)
    /\ "delete" \in sid[pos[p] + 1].attr
    /\ shd[sid[pos[p] + 1].slot] # NoHdr
    /\ msg' = [msg EXCEPT ![p] = NewMsg(0, sid[pos[p] + 1].slot, 0)]
    /\ shd' = [shd EXCEPT ![sid[pos[p] + 1].slot].attr = sid[pos[p] + 1].attr]
    /\ pos' = [pos EXCEPT ![p] = @ + 1]
    /\ \E l \in IF Hyper THEN {"pg_scan"} ELSE {"pg_freedat", "pg_freehdr"} : Goto(p, l)
    /\ UNCHANGED <<locks, status, sid, sha, shaEnd, st, buf>>

\* nor is one whose header cannot be read
PurgeDropUnread(p) ==
    /\ pc[p] = "pg_scan" /\ Scanning(p)
    /\ "delete" \in sid[pos[p] + 1].attr
    /\ shd[sid[pos[p] + 1].slot] = NoHdr
    /\ pos' = [pos EXCEPT ![p] = @ + 1]
    /\ UNCHANGED <<locks, files, pc, st, msg, buf>>

\* smb_freemsgdat: "Always unlocks the SMB header"
PurgeFreeDat(p) ==
    /\ pc[p] = "pg_freedat"
    /\ hdrLock \in {None, p}
    /\ hdrLock' = None
    /\ Goto(p, "pg_freehdr")
    /\ UNCHANGED <<daLock, haLock, msgLock, files, local>>

\* SMB_ERR_LOCK from smb_freemsg: the record is dropped all the same
PurgeFreeDatTimeout(p) ==
    /\ pc[p] = "pg_freedat"
    /\ hdrLock \notin {None, p}
    /\ Goto(p, "pg_scan")
    /\ UNCHANGED <<locks, files, local>>

\* smb_freemsghdr: if it is the last header of the file, both the .sha and
\* the .shd file are cut there
PurgeFreeHdr(p) ==
    /\ pc[p] = "pg_freehdr"
    /\ sha' = sha \ {msg[p].slot}
    /\ IF shaEnd <= msg[p].slot
       THEN /\ shaEnd' = msg[p].slot - 1
            /\ shd' = [s \in Slots |-> IF s < msg[p].slot THEN shd[s] ELSE NoHdr]
       ELSE UNCHANGED <<shaEnd, shd>>
    /\ Goto(p, "pg_scan")
    /\ UNCHANGED <<locks, status, sid, local>>

\* The kept records are written from the start of the index ...
PurgeWrite(p) ==
    /\ pc[p] = "pg_scan" /\ ~Scanning(p)
    /\ sid' = buf[p] \o SubSeq(sid, Len(buf[p]) + 1, Len(sid))
    /\ Goto(p, "pg_trunc")
    /\ UNCHANGED <<locks, status, shd, sha, shaEnd, local>>

\* ... which is then cut to their number ...
PurgeTruncate(p) ==
    /\ pc[p] = "pg_trunc"
    /\ sid' = SubSeq(sid, 1, Len(buf[p]))
    /\ Goto(p, "pg_putstatus")
    /\ UNCHANGED <<locks, status, shd, sha, shaEnd, local>>

\* ... and the status read at the start is written back with the new total
PurgePutStatus(p) ==
    /\ pc[p] = "pg_putstatus"
    /\ status' = [last |-> st[p].last, total |-> Len(buf[p])]
    /\ Goto(p, "pg_close")
    /\ UNCHANGED <<locks, sid, shd, sha, shaEnd, local>>

PurgeClose(p) ==
    /\ pc[p] = "pg_close"
    /\ haLock' = None
    /\ daLock' = None
    /\ Goto(p, "unlock")
    /\ UNCHANGED <<hdrLock, msgLock, files, local>>

-----------------------------------------------------------------------------
PostStep(p) ==
    \/ AddStatus(p) \/ AddData(p) \/ AddDataTimeout(p) \/ AddHdr(p)
    \/ AddAlloc(p) \/ AddAllocTimeout(p) \/ AddPutHdr(p) \/ AddPutIdx(p)
    \/ AddPutStatus(p) \/ UndoOpen(p) \/ UndoOpenTimeout(p) \/ UndoLock(p)
    \/ UndoLockTimeout(p)

ModifyStep(p) ==
    \/ SendLock(p) \/ SendTimeout(p)
    \/ GetMsgIdx(p) \/ LockMsgHdr(p) \/ LockMsgHdrFails(p) \/ PutHdr(p) \/ PutIdx(p)

PurgeStep(p) ==
    \/ PurgeStatus(p) \/ PurgeOpenDa(p) \/ PurgeOpenDaTimeout(p) \/ PurgeOpenHa(p)
    \/ PurgeKeep(p) \/ PurgeDrop(p) \/ PurgeDropUnread(p)
    \/ PurgeFreeDat(p) \/ PurgeFreeDatTimeout(p)
    \/ PurgeFreeHdr(p) \/ PurgeWrite(p) \/ PurgeTruncate(p) \/ PurgePutStatus(p)
    \/ PurgeClose(p)

\* A call in progress goes on
Continue(p) ==
    \/ p \in Posters /\ PostStep(p)
    \/ p \in Modifiers /\ ModifyStep(p)
    \/ p \in Purgers /\ PurgeStep(p)
    \/ Unlock(p)

Start(p) ==
    \/ p \in Adders /\ AddLock(p)
    \/ p \in Headers /\ HeaderLock(p)
    \/ p \in Updaters /\ UpdateLock(p)
    \/ p \in Senders /\ SendRead(p)
    \/ p \in Editors /\ EditBegin(p)
    \/ p \in Purgers /\ PurgeLock(p)
    \/ CloseBase(p)

Next == \E p \in Proc : Start(p) \/ Continue(p) \/ Crash(p)

Spec == Init /\ [][Next]_vars

\* A running program goes on with its call: every wait in it is bounded by
\* retry_time.  Nothing makes a program start a call.
FairSpec == Spec /\ \A p \in Proc : WF_vars(Continue(p))
-----------------------------------------------------------------------------
(* What a user of the base relies on.                                       *)

\* The variables have their types, and a process in the middle of a step
\* that needs a slot has one.
IdxRecs == [num : Nat, slot : Slots, attr : SUBSET Attrs]
Hdrs == [num : Nat, attr : SUBSET Attrs]
Msgs == [num : Nat, slot : Slots \cup {0}, off : Nat, attr : SUBSET Attrs]
Statuses == [last : Nat, total : Nat]

TypeOK ==
    /\ hdrLock \in Proc \cup {None}
    /\ daLock \in Proc \cup {None}
    /\ haLock \in Proc \cup {None}
    /\ msgLock \in [Slots -> Proc \cup {None}]
    /\ status \in Statuses
    /\ sid \in Seq(IdxRecs)
    /\ shd \in [Slots -> Hdrs]
    /\ sha \subseteq Slots
    /\ shaEnd \in Nat
    /\ pc \in [Proc -> {"idle", "unlock",
                        "add_status", "add_data", "add_hdr", "add_alloc",
                        "add_puthdr", "add_putidx", "add_putstatus",
                        "undo_open", "undo_lock",
                        "send_lock", "getidx", "lockhdr", "puthdr", "putidx",
                        "pg_status", "pg_da", "pg_ha", "pg_scan", "pg_freedat",
                        "pg_freehdr", "pg_trunc", "pg_putstatus", "pg_close"}]
    /\ st \in [Proc -> Statuses]
    /\ msg \in [Proc -> Msgs]
    /\ buf \in [Proc -> Seq(IdxRecs)]
    /\ pos \in [Proc -> Nat]
    /\ \A p \in Proc :
         pc[p] \in {"add_puthdr", "add_putidx", "lockhdr", "puthdr", "putidx",
                   "pg_freedat", "pg_freehdr"}
            => msg[p].slot \in Slots

\* The index is in increasing order of message number, without duplicates:
\* smb_getmsgidx finds a message by binary search.  Only a purge that has
\* written the kept records and not yet cut the file leaves it otherwise.
Increasing(s) == \A i, j \in 1..Len(s) : i < j => s[i].num < s[j].num

IndexSorted == (\A p \in Purgers : pc[p] # "pg_trunc") => Increasing(sid)

\* Every index record leads to the header of its own message: no slot is given
\* to another message, and no header cut off the file, while a record refers to
\* it.  Only a record that delmail is about to remove may lead past the end.
OwnHeader ==
    \A k \in 1..Len(sid) :
        \/ shd[sid[k].slot].num = sid[k].num
        \/ haLock # None /\ shd[sid[k].slot] = NoHdr /\ "delete" \in sid[k].attr

\* When nobody is writing, the status header describes the index: this is
\* what smb_addmsghdr checks before it adds, and refuses to add without.
StatusAgrees ==
    (hdrLock = None /\ haLock = None) =>
        /\ status.total = Len(sid)
        /\ \A k \in 1..Len(sid) : sid[k].num <= status.last

\* A call that has returned, by whatever path, has left no lock on the base
\* or on a header and no .sha file open.
IdleHoldsNoLock ==
    \A p \in Proc : pc[p] = "idle" =>
        hdrLock # p /\ haLock # p /\ \A s \in Slots : msgLock[s] # p

\* A message that is not marked for deletion stays in the index, whatever
\* the others add, rewrite or purge.
NoMessageLost ==
    [][\A k \in 1..Len(sid) : "delete" \notin sid[k].attr =>
          \E j \in 1..Len(sid') : sid'[j].num = sid[k].num]_sid

\* A number once given to a message is never given to another one, even
\* after the message is gone: last_msg never decreases and every new index
\* record has a number above it.
NumbersNeverReused ==
    [][/\ status'.last >= status.last
       /\ \A j \in 1..Len(sid') :
            (\A k \in 1..Len(sid) : sid[k].num # sid'[j].num)
                => sid'[j].num > status.last]_<<sid, status>>

\* A message marked for deletion does not come back.
MarkSticks ==
    [][\A k \in 1..Len(sid), j \in 1..Len(sid') :
         (sid[k].num = sid'[j].num /\ "delete" \in sid[k].attr)
            => "delete" \in sid'[j].attr]_sid

\* The index file is written only by the process that has the base locked.
IndexWrittenUnderLock ==
    [][hdrLock # None /\ pc'[hdrLock] # pc[hdrLock]]_sid

\* While delmail has an index to rewrite in its buffer, nobody else changes
\* the index.
PurgeOwnsIndex ==
    [][\A q \in Purgers :
         pc[q] \in {"pg_scan", "pg_freedat", "pg_freehdr", "pg_trunc"}
            => pc'[q] # pc[q]]_sid

\* Every call returns, also when two processes wait for each other (one with
\* the base locked and waiting for the .sda file, the other the reverse).
CallsReturn == \A p \in Proc : pc[p] # "idle" ~> pc[p] = "idle"
=============================================================================
