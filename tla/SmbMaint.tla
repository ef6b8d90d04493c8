------------------------------ MODULE SmbMaint ------------------------------
(***************************************************************************)
(* "smbutil m": maint() deletes marked messages from a message base that   *)
(* the BBS, the mail server and SBBSecho go on using.  It does what delmail *)
(* does (see the Purge actions of SmbBase) in another order: the whole     *)
(* index is read first, each marked message is looked up again and freed,  *)
(* the .sha and .sda files are closed, and only then the index is          *)
(* rewritten.  The messages that maint() marks itself, for their age or    *)
(* because there are too many, are those marked from the start.            *)
(***************************************************************************)
EXTENDS SmbBase

CONSTANTS
    Maintainers,    \* the processes that run maint() instead of delmail
    Readers         \* those that only read a header, under its lock (loadmsg)

ASSUME SmbMaintAssumption == Maintainers \subseteq Purgers /\ Readers \subseteq Updaters

Marked(r) == "delete" \in r.attr
KeptNone(s) == SelectSeq(s, Marked)         \* a mistake: see below

\* The loop that writes the records that are not marked, after n records of s
Kept(s) ==
    LET kept[n \in 0..Len(s)] ==
            IF n = 0 THEN <<>>
            ELSE IF Marked(s[n]) THEN kept[n - 1] ELSE Append(kept[n - 1], s[n])
    IN  kept[Len(s)]

\* fread of total_msgs index records
Loaded == SubSeq(sid, 1, IF Len(sid) < status.total THEN Len(sid) ELSE status.total)

\* chsize of the index file to n records
NoIdx == [num |-> 0, slot |-> 0, attr |-> {}]
Resize(s, n) == [i \in 1..n |-> IF i <= Len(s) THEN s[i] ELSE NoIdx]

-----------------------------------------------------------------------------
(* Plausible mistakes: see the section of this name in SmbBase.             *)

MaintLoadUnlocks(p) ==                      \* unlocked once the index is read
    /\ pc[p] = "mt_load"
    /\ st' = [st EXCEPT ![p] = status]
    /\ buf' = [buf EXCEPT ![p] = sid]
    /\ hdrLock' = None
    /\ Goto(p, IF Kept(sid) = sid THEN "unlock" ELSE "mt_write")
    /\ UNCHANGED <<daLock, haLock, msgLock, files, msg, pos>>

MaintPutStatusOfKept(p) ==                  \* flagged counted as kept
    /\ pc[p] = "mt_putstatus"
    /\ status' = [last |-> st[p].last, total |-> st[p].total]
    /\ Goto(p, "unlock")
    /\ UNCHANGED <<locks, sid, shd, sha, shaEnd, local>>

MaintFreeHdrCutsLow(p) ==                   \* .shd cut one block too low
    /\ pc[p] = "mt_freehdr"
    /\ sha' = sha \ {msg[p].slot}
    /\ IF shaEnd <= msg[p].slot
       THEN /\ shaEnd' = msg[p].slot - 1
            /\ shd' = [s \in Slots |-> IF s < msg[p].slot - 1 THEN shd[s] ELSE NoHdr]
       ELSE UNCHANGED <<shaEnd, shd>>
    /\ Goto(p, "mt_scan")
    /\ UNCHANGED <<locks, status, sid, local>>

MaintPutIdxKeepsHeader(p) ==                \* no smb_unlockmsghdr
    /\ pc[p] = "mt_putidx"
    /\ sid' = PutMsgIdx(sid, msg[p].off, IdxRec(msg[p]))
    /\ Goto(p, "mt_freehdr")
    /\ UNCHANGED <<locks, status, shd, sha, shaEnd, local>>

MaintCloseForgotten(p) ==                   \* the .sha and .sda files stay open
    /\ pc[p] = "mt_close"
    /\ Goto(p, "mt_write")
    /\ UNCHANGED <<locks, files, local>>

-----------------------------------------------------------------------------
MaintLock(p) ==
    /\ pc[p] = "idle"
    /\ hdrLock = None
    /\ hdrLock' = p
    /\ Goto(p, "mt_load")
    /\ UNCHANGED <<daLock, haLock, msgLock, files, local>>

\* Status and index are read; nothing to do when no message is marked.
\* With the option -a the blocks are not freed (NOANALYSIS).
MaintLoad(p) ==
    /\ pc[p] = "mt_load"
    /\ st' = [st EXCEPT ![p] = status]
    /\ buf' = [buf EXCEPT ![p] = Loaded]
    /\ IF Kept(Loaded) # Loaded
       THEN \E l \in {IF Hyper THEN "mt_scan" ELSE "mt_da", "mt_write"} : Goto(p, l)
       ELSE Goto(p, "unlock")
    /\ UNCHANGED <<locks, files, msg, pos>>

MaintOpenDa(p) ==
    /\ pc[p] = "mt_da"
    /\ daLock = None
    /\ daLock' = p
    /\ Goto(p, "mt_ha")
    /\ UNCHANGED <<hdrLock, haLock, msgLock, files, local>>

MaintOpenDaTimeout(p) ==
    /\ pc[p] = "mt_da"
    /\ daLock # None
    /\ Goto(p, "unlock")
    /\ UNCHANGED <<locks, files, local>>

\* Every holder of the .sha file has the .sda file too: no timeout
MaintOpenHa(p) ==
    /\ pc[p] = "mt_ha"
    /\ haLock = None
    /\ haLock' = p
    /\ Goto(p, "mt_scan")
    /\ UNCHANGED <<hdrLock, daLock, msgLock, files, local>>

\* The next marked message is looked up by its number in the index as it is
\* now: "continue" when it is not there
MaintFind(p) ==
    /\ pc[p] = "mt_scan"
    /\ \E k \in pos[p]+1..Len(buf[p]) :
        /\ Marked(buf[p][k])
        /\ \A i \in pos[p]+1..k-1 : ~Marked(buf[p][i])
        /\ pos' = [pos EXCEPT ![p] = k]
        /\ IF \E j \in 1..Len(sid) : sid[j].num = buf[p][k].num
           THEN /\ \E j \in 1..Len(sid) :
                    /\ sid[j].num = buf[p][k].num
                    /\ msg' = [msg EXCEPT ![p] = NewMsg(sid[j].num, sid[j].slot, j - 1)]
                /\ Goto(p, "mt_lockhdr")
           ELSE UNCHANGED <<msg, pc>>
    /\ UNCHANGED <<locks, files, st, buf>>

\* smb_lockmsghdr, smb_getmsghdr: the mark is added to what is read
MaintLockHdr(p) ==
    /\ pc[p] = "mt_lockhdr"
    /\ msgLock[msg[p].slot] = None
    /\ shd[msg[p].slot] # NoHdr
    /\ msgLock' = [msgLock EXCEPT ![msg[p].slot] = p]
    /\ msg' = [msg EXCEPT ![p].num = shd[msg[p].slot].num,
                          ![p].attr = shd[msg[p].slot].attr \cup {"delete"}]
    /\ Goto(p, "mt_puthdr")
    /\ UNCHANGED <<hdrLock, daLock, haLock, files, st, buf, pos>>

\* "break": no more messages are freed, but the index is rewritten
MaintLockHdrFails(p) ==
    /\ pc[p] = "mt_lockhdr"
    /\ msgLock[msg[p].slot] # None \/ shd[msg[p].slot] = NoHdr
    /\ Goto(p, "mt_close")
    /\ UNCHANGED <<locks, files, local>>

MaintPutHdr(p) ==
    /\ pc[p] = "mt_puthdr"
    /\ shd' = [shd EXCEPT ![msg[p].slot] = [num |-> msg[p].num, attr |-> msg[p].attr]]
    /\ Goto(p, "mt_putidx")
    /\ UNCHANGED <<locks, status, sid, sha, shaEnd, local>>

\* smb_putmsgidx, smb_unlockmsghdr; then smb_freemsg (see PurgeDrop)
MaintPutIdx(p) ==
    /\ pc[p] = "mt_putidx"
    /\ sid' = PutMsgIdx(sid, msg[p].off, IdxRec(msg[p]))
    /\ msgLock' = [msgLock EXCEPT ![msg[p].slot] = None]
    /\ \E l \in IF Hyper THEN {"mt_scan"} ELSE {"mt_freedat", "mt_freehdr"} : Goto(p, l)
    /\ UNCHANGED <<hdrLock, daLock, haLock, status, shd, sha, shaEnd, local>>

\* smb_freemsgdat: the base is unlocked
MaintFreeDat(p) ==
    /\ pc[p] = "mt_freedat"
    /\ hdrLock \in {None, p}
    /\ hdrLock' = None
    /\ Goto(p, "mt_freehdr")
    /\ UNCHANGED <<daLock, haLock, msgLock, files, local>>

MaintFreeDatTimeout(p) ==
    /\ pc[p] = "mt_freedat"
    /\ hdrLock \notin {None, p}
    /\ Goto(p, "mt_close")
    /\ UNCHANGED <<locks, files, local>>

MaintFreeHdr(p) ==
    /\ pc[p] = "mt_freehdr"
    /\ sha' = sha \ {msg[p].slot}
    /\ IF shaEnd <= msg[p].slot
       THEN /\ shaEnd' = msg[p].slot - 1
            /\ shd' = [s \in Slots |-> IF s < msg[p].slot THEN shd[s] ELSE NoHdr]
       ELSE UNCHANGED <<shaEnd, shd>>
    /\ Goto(p, "mt_scan")
    /\ UNCHANGED <<locks, status, sid, local>>

MaintScanEnd(p) ==
    /\ pc[p] = "mt_scan"
    /\ \A k \in pos[p]+1..Len(buf[p]) : ~Marked(buf[p][k])
    /\ Goto(p, "mt_close")
    /\ UNCHANGED <<locks, files, local>>

\* From here on nothing keeps the other programs out of a base whose header
\* MaintFreeDat has unlocked
MaintClose(p) ==
    /\ pc[p] = "mt_close"
    /\ haLock' = IF haLock = p THEN None ELSE haLock
    /\ daLock' = IF daLock = p THEN None ELSE daLock
    /\ Goto(p, "mt_write")
    /\ UNCHANGED <<hdrLock, msgLock, files, local>>

MaintWrite(p) ==
    /\ pc[p] = "mt_write"
    /\ sid' = Kept(buf[p]) \o SubSeq(sid, Len(Kept(buf[p])) + 1, Len(sid))
    /\ Goto(p, "mt_trunc")
    /\ UNCHANGED <<locks, status, shd, sha, shaEnd, local>>

MaintTruncate(p) ==
    /\ pc[p] = "mt_trunc"
    /\ sid' = Resize(sid, Len(Kept(buf[p])))
    /\ Goto(p, "mt_putstatus")
    /\ UNCHANGED <<locks, status, shd, sha, shaEnd, local>>

\* total_msgs -= flagged
MaintPutStatus(p) ==
    /\ pc[p] = "mt_putstatus"
    /\ status' = [last |-> st[p].last,
                  total |-> st[p].total - (Len(buf[p]) - Len(Kept(buf[p])))]
    /\ Goto(p, "unlock")
    /\ UNCHANGED <<locks, sid, shd, sha, shaEnd, local>>

-----------------------------------------------------------------------------
\* loadmsg: the index is searched as it is now, without the lock on the base
LoadMsg(p) ==
    /\ pc[p] = "idle"
    /\ \E k \in 1..Len(sid) :
        /\ sid[k].slot \in Slots /\ msgLock[sid[k].slot] = None /\ shd[sid[k].slot] # NoHdr
        /\ msgLock' = [msgLock EXCEPT ![sid[k].slot] = p]
        /\ msg' = [msg EXCEPT ![p] = NewMsg(sid[k].num, sid[k].slot, k - 1)]
    /\ Goto(p, "loaded")
    /\ UNCHANGED <<hdrLock, daLock, haLock, files, st, buf, pos>>

\* smb_unlockmsghdr, by the caller of loadmsg
UnlockMsgHdr(p) ==
    /\ pc[p] = "loaded"
    /\ msgLock' = [msgLock EXCEPT ![msg[p].slot] = None]
    /\ Goto(p, "idle") /\ Forget(p)
    /\ UNCHANGED <<hdrLock, daLock, haLock, files>>

-----------------------------------------------------------------------------
MaintStep(p) ==
    \/ MaintLoad(p) \/ MaintOpenDa(p) \/ MaintOpenDaTimeout(p) \/ MaintOpenHa(p)
    \/ MaintFind(p) \/ MaintLockHdr(p) \/ MaintLockHdrFails(p)
    \/ MaintPutHdr(p) \/ MaintPutIdx(p)
    \/ MaintFreeDat(p) \/ MaintFreeDatTimeout(p) \/ MaintFreeHdr(p)
    \/ MaintScanEnd(p) \/ MaintClose(p)
    \/ MaintWrite(p) \/ MaintTruncate(p) \/ MaintPutStatus(p)

MaintNext ==
    \/ \E p \in Maintainers : MaintLock(p) \/ MaintStep(p) \/ Unlock(p) \/ Crash(p)
    \/ \E p \in Readers : LoadMsg(p) \/ UnlockMsgHdr(p) \/ Crash(p)
    \/ \E p \in Proc \ (Maintainers \cup Readers) : Start(p) \/ Continue(p) \/ Crash(p)

MaintSpec == Init /\ [][MaintNext]_vars

-----------------------------------------------------------------------------
\* The index is sorted whenever neither delmail nor maint() is about to cut it.
MaintIndexSorted ==
    (\A p \in Purgers : pc[p] \notin {"pg_trunc", "mt_trunc"}) => Increasing(sid)

\* A message that is not marked keeps its own header: no header block is given
\* to two messages and none cut off the file while an unmarked record leads to
\* it, though maint() writes back records it read before it gave up the base
\* lock and new messages are given the blocks it has freed.
KeptHasHeader ==
    \A k \in 1..Len(sid) : Marked(sid[k]) \/ shd[sid[k].slot].num = sid[k].num

\* The .sha and .sda files are open in one program at a time, and in none that
\* is not at work in them.
OneInTables ==
    /\ haLock # None => haLock = daLock
    /\ \A p \in Maintainers : pc[p] \in {"idle", "unlock", "mt_write", "mt_trunc"}
                                 => p \notin {haLock, daLock}
=============================================================================
