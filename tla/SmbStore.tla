------------------------------ MODULE SmbStore ------------------------------
(***************************************************************************)
(* The texts of a message base without hyper allocation: the .sdt file     *)
(* holds them in blocks, the .sda file has a 16-bit reference count for    *)
(* each block.  A mail to several recipients is stored once, with one      *)
(* header each; smb_incmsg_dfields counts the headers, smb_freemsg gives   *)
(* one reference back.  A text has one or two data fields (body and tail)  *)
(* which are counted and freed one after the other; two fields may share a *)
(* block.                                                                  *)
(*                                                                         *)
(* Here a header and its index record are one record, and the steps in     *)
(* which they are written one step: those are the subject of SmbBase.      *)
(* Lengths are in units, BlockLen of which fill a block; blocks count from *)
(* zero.                                                                   *)
(***************************************************************************)
EXTENDS Integers, Sequences, FiniteSets

CONSTANTS
    Senders,    \* smb_addmsg for a message to one recipient
    Mailers,    \* bulkmail: smb_addmsg without one, then a header for each
    Listers,    \* MsgBase.save_msg and inetmail: the same, the library opening the .sda file
    Forwarders, \* forwardmail: one more header for an existing text
    Purgers,    \* delmail
    SendLayouts,    \* the lengths of the data fields of a sender's text
    MailLayouts,    \* ... and of a mailer's
    BlockLen,   \* SDT_BLOCK_LEN in units
    RefWidth,   \* 2^16: values of a reference count
    QuietPurge, \* TRUE: no purge begins while a text has uncounted headers, or
                \* frees a message that was marked while it is being forwarded
    MaxTexts,   \* bounds: texts ever stored,
    MaxMsgs,    \* message numbers,
    None

Proc == Senders \cup Mailers \cup Listers \cup Forwarders \cup Purgers
Layouts == SendLayouts \cup MailLayouts

ASSUME SmbStoreAssumption ==
    /\ None \notin Proc
    /\ \A p \in Senders : p \notin Mailers \cup Listers \cup Forwarders \cup Purgers
    /\ \A p \in Mailers : p \notin Listers \cup Forwarders \cup Purgers
    /\ \A p \in Listers : p \notin Forwarders \cup Purgers
    /\ \A p \in Forwarders : p \notin Purgers
    /\ BlockLen \in Nat \ {0} /\ RefWidth \in Nat \ {0}
    /\ Layouts \subseteq Seq(Nat \ {0})
    /\ QuietPurge \in BOOLEAN
    /\ MaxTexts \in Nat /\ MaxMsgs \in Nat

VARIABLES
    hdrLock, daLock, haLock,    \* as in SmbBase
    sda,        \* reference counts
    sdt,        \* block contents: <<text, part>>
    hdrs,       \* message headers: number, text, offset (block), layout, marked
    last,       \* status.last_msg
    texts,      \* number of texts stored so far
    late,       \* messages marked during a purge that it has not come to see
    pc,
    msg,        \* each process's smbmsg_t: text, offset, layout
    fld,        \* the data field to free next
    cnt,        \* headers a mailer has added; number of the header delmail is at
    leaked,     \* blocks that a call has failed to give back or counted too often
    short       \* blocks of a text whose headers a call has failed to count

locks == <<hdrLock, daLock, haLock>>
data == <<sda, sdt>>
base == <<hdrs, last, texts, late>>
local == <<msg, fld, cnt>>
errors == <<leaked, short>>
vars == <<hdrLock, daLock, haLock, sda, sdt, hdrs, last, texts, late, pc, msg, fld, cnt,
          leaked, short>>

NoText == [txt |-> 0, off |-> 0, lay |-> <<>>]

Init ==
    /\ hdrLock = None /\ daLock = None /\ haLock = None
    /\ sda = <<>> /\ sdt = <<>>
    /\ hdrs = {} /\ last = 0 /\ texts = 0 /\ late = {}
    /\ pc = [p \in Proc |-> "idle"]
    /\ msg = [p \in Proc |-> NoText]
    /\ fld = [p \in Proc |-> 1]
    /\ cnt = [p \in Proc |-> 0]
    /\ leaked = {} /\ short = {}

-----------------------------------------------------------------------------
(* Blocks and reference counts.                                             *)

\* smb_datblocks
DatBlocks(len) == (len + BlockLen - 1) \div BlockLen

\* dfield[x].offset: the lengths of the fields before it
FieldStart(lay, x) == IF x = 1 THEN 0 ELSE lay[1]

TextLen(lay) == FieldStart(lay, Len(lay)) + lay[Len(lay)]

\* The blocks smb_incdat and smb_freemsgdat take field x for
FieldBlocks(m, x) ==
    LET first == m.off + FieldStart(m.lay, x) \div BlockLen
    IN  first..first + DatBlocks(m.lay[x]) - 1

TextBlocks(m) == m.off..m.off + DatBlocks(TextLen(m.lay)) - 1

Fields(m, b) == Cardinality({x \in 1..Len(m.lay) : b \in FieldBlocks(m, x)})

Least(S) == CHOOSE x \in S : \A y \in S : x <= y
Greatest(S) == CHOOSE x \in S : \A y \in S : y <= x

\* smb_allocdat: the first n free blocks in a row, or the end of the file
FirstFit(n) ==
    LET free == {o \in 0..Len(sda) - n : \A b \in o..o + n - 1 : sda[b + 1] = 0}
    IN  IF free = {} THEN Len(sda) ELSE Least(free)

\* A file with v[b] written in every block b of B; a gap before it is pad
Written(s, B, v, pad) ==
    LET len == IF Greatest(B) < Len(s) THEN Len(s) ELSE Greatest(B) + 1
    IN  [i \in 1..len |-> IF i - 1 \in B THEN v[i - 1]
                          ELSE IF i <= Len(s) THEN s[i] ELSE pad]

AllRefs == 0                    \* SMB_ALL_REFS
Minus(i, refs) == IF refs = AllRefs \/ refs > i THEN 0 ELSE i - refs

\* smb_freemsgdat frees from the last block to the first, and cuts the file
\* as long as it gets a zero at the end.  Past the end it gets a read error.
FreeFits(B) == Greatest(B) < Len(sda)

FreeDatCutsUsed(B, refs) ==     \* a mistake: cut without looking at the count
    IF Greatest(B) + 1 < Len(sda)
    THEN [i \in 1..Len(sda) |-> IF i - 1 \in B THEN Minus(sda[i], refs) ELSE sda[i]]
    ELSE SubSeq(sda, 1, Least(B))

FreeDat(B, refs) ==
    LET s == [i \in 1..Len(sda) |-> IF i - 1 \in B THEN Minus(sda[i], refs) ELSE sda[i]]
        kept == {b + 1 : b \in {c \in B : s[c + 1] # 0}}
    IN  IF Greatest(B) + 1 < Len(sda) THEN s
        ELSE SubSeq(s, 1, Greatest(kept \cup {Least(B)}))

\* smb_incdat of every field in turn, up to the first block past the end
IncDatOnce(m, refs) ==          \* a mistake: as if no block belonged to two fields
    [i \in 1..Len(sda) |-> IF i - 1 \in TextBlocks(m) THEN (sda[i] + refs) % RefWidth ELSE sda[i]]

IncDat(m, refs) ==
    [i \in 1..Len(sda) |-> (sda[i] + refs * Fields(m, i - 1)) % RefWidth]

IncFits(m) == \A x \in 1..Len(m.lay) : FreeFits(FieldBlocks(m, x))

-----------------------------------------------------------------------------
Goto(p, l) == pc' = [pc EXCEPT ![p] = l]

Finish(p) ==      \* the call returns: its locals are gone
    /\ Goto(p, "idle")
    /\ msg' = [msg EXCEPT ![p] = NoText]
    /\ fld' = [fld EXCEPT ![p] = 1]
    /\ cnt' = [cnt EXCEPT ![p] = 0]

\* smb_locksmbhdr by p; a process that has it locked does not lock it again
CanLock(p) == hdrLock \in {None, p}
Unlocked(p) == IF hdrLock = p THEN None ELSE hdrLock

\* smb_open_da: the file may still be open from an earlier call of this process
CanOpenDa(p) == daLock \in {None, p}

\* The blocks smb_freemsg_dfields has not come to
Unfreed(p) == UNION {FieldBlocks(msg[p], x) : x \in fld[p]..Len(msg[p].lay)}

Free(p, x, refs) ==
    LET B == FieldBlocks(msg[p], x)
    IN  IF FreeFits(B)
        THEN /\ sda' = FreeDat(B, refs)
             /\ sdt' = SubSeq(sdt, 1, IF Len(sda') < Len(sdt) THEN Len(sda') ELSE Len(sdt))
             /\ UNCHANGED leaked
        ELSE /\ leaked' = IF sda = <<>> THEN leaked ELSE leaked \cup Unfreed(p)
             /\ UNCHANGED data

NewHdr(m) == [num |-> last + 1, txt |-> m.txt, off |-> m.off, lay |-> m.lay, marked |-> FALSE]

\* smb_close: an .sda file left open by a call that failed is released
CloseBase(p) ==
    /\ pc[p] = "idle"
    /\ daLock = p
    /\ daLock' = None
    /\ UNCHANGED <<hdrLock, haLock, data, base, pc, local, errors>>

\* A reader deletes a message: smb_updatemsg, or the same steps in readmail.
\* The base lock is all that it takes; a purge has lost it after the first
\* text it has freed.
Mark ==
    /\ hdrLock = None
    /\ \E h \in hdrs :
        /\ ~h.marked
        /\ hdrs' = (hdrs \ {h}) \cup {[h EXCEPT !.marked = TRUE]}
        /\ late' = IF haLock = None THEN late ELSE late \cup {h.num}
    /\ UNCHANGED <<locks, data, last, texts, pc, local, errors>>

-----------------------------------------------------------------------------
(* smb_addmsg and the loops that add a header for each recipient.           *)

AddLock(p) ==
    /\ pc[p] = "idle"
    /\ hdrLock = None
    /\ texts < MaxTexts /\ last < MaxMsgs           \* bounds of the model
    /\ hdrLock' = p
    /\ Goto(p, "store")
    /\ UNCHANGED <<daLock, haLock, data, base, local, errors>>

\* smb_open_da, smb_allocdat or smb_fallocdat, smb_close_da; then the text is
\* written.  Without a recipient smb_addmsg ends here.
StoreText(p) ==
    /\ pc[p] = "store"
    /\ CanOpenDa(p)
    /\ \E lay \in IF p \in Senders THEN SendLayouts ELSE MailLayouts :
       \E off \in {FirstFit(DatBlocks(TextLen(lay))), Len(sda)} :
         LET m == [txt |-> texts + 1, off |-> off, lay |-> lay]
             B == TextBlocks(m)
         IN  /\ msg' = [msg EXCEPT ![p] = m]
             /\ sda' = Written(sda, B, [b \in B |-> 1], 0)
             /\ sdt' = Written(sdt, B, [b \in B |-> <<m.txt, b - off>>], <<0, 0>>)
    /\ texts' = texts + 1
    /\ daLock' = None
    /\ IF p \in Senders
       THEN Goto(p, "hdr") /\ UNCHANGED hdrLock
       ELSE Goto(p, "rcpt") /\ hdrLock' = None
    /\ UNCHANGED <<haLock, hdrs, last, late, fld, cnt, errors>>

StoreTextTimeout(p) ==
    /\ pc[p] = "store"
    /\ ~CanOpenDa(p)
    /\ hdrLock' = None
    /\ Finish(p)
    /\ UNCHANGED <<daLock, haLock, data, base, errors>>

\* smb_addmsghdr, always unlocking.  It cannot open the .sha file while
\* delmail has it, and may fail for other reasons (a header too long).
AddHdr(p) ==
    /\ pc[p] \in {"hdr", "fwd_hdr"}
    /\ CanLock(p) /\ haLock = None
    /\ last < MaxMsgs                               \* bound of the model
    /\ hdrs' = hdrs \cup {NewHdr(msg[p])}
    /\ last' = last + 1
    /\ hdrLock' = None
    /\ Finish(p)
    /\ UNCHANGED <<daLock, haLock, data, texts, late, errors>>

AddHdrFailsNoUndo(p) ==         \* a mistake: the data blocks are forgotten
    /\ pc[p] \in {"hdr", "fwd_hdr"}
    /\ hdrLock' = Unlocked(p)
    /\ Finish(p)
    /\ UNCHANGED <<daLock, haLock, data, base, errors>>

\* The data blocks are given back, one reference
AddHdrFails(p) ==
    /\ pc[p] \in {"hdr", "fwd_hdr"}
    /\ hdrLock' = Unlocked(p)
    /\ Goto(p, "undo")
    /\ UNCHANGED <<daLock, haLock, data, base, local, errors>>

\* smb_freemsgdat opens the .sda file itself, for each field anew
UndoOpen(p) ==
    /\ pc[p] = "undo"
    /\ CanOpenDa(p)
    /\ daLock' = p
    /\ Goto(p, "free")
    /\ UNCHANGED <<hdrLock, haLock, data, base, local, errors>>

UndoOpenTimeout(p) ==
    /\ pc[p] = "undo"
    /\ ~CanOpenDa(p)
    /\ Unfreed(p) \cap leaked = {}                  \* bound of the model
    /\ leaked' = leaked \cup Unfreed(p)
    /\ Finish(p)
    /\ UNCHANGED <<locks, data, base, short>>

\* Nothing is done, and the file stays open, when the .sda file is empty
FreeNothing(p) ==
    /\ pc[p] = "free"
    /\ sda = <<>>
    /\ daLock' = IF p \in Mailers THEN None ELSE p
    /\ Finish(p)
    /\ UNCHANGED <<hdrLock, haLock, data, base, errors>>

\* A mailer has opened the file itself and closes it when all is freed
FreeField(p) ==
    /\ pc[p] = "free"
    /\ sda # <<>>
    /\ CanLock(p)
    /\ Free(p, fld[p], IF p \in Mailers THEN AllRefs ELSE 1)
    /\ hdrLock' = None
    /\ IF fld[p] < Len(msg[p].lay)
       THEN /\ fld' = [fld EXCEPT ![p] = @ + 1]
            /\ Goto(p, IF p \in Mailers THEN "free" ELSE "undo")
            /\ daLock' = IF p \in Mailers THEN p ELSE None
            /\ UNCHANGED <<msg, cnt>>
       ELSE Finish(p) /\ daLock' = None
    /\ UNCHANGED <<haLock, base, short>>

\* SMB_ERR_LOCK: the .sda file that smb_freemsgdat opened stays open
FreeFieldTimeout(p) ==
    /\ pc[p] = "free"
    /\ sda # <<>>
    /\ ~CanLock(p)
    /\ Unfreed(p) \cap leaked = {}                  \* bound of the model
    /\ leaked' = leaked \cup Unfreed(p)
    /\ daLock' = IF p \in Mailers THEN None ELSE p
    /\ Finish(p)
    /\ UNCHANGED <<hdrLock, haLock, data, base, short>>

\* One more recipient
AddRcpt(p) ==
    /\ pc[p] = "rcpt"
    /\ hdrLock = None /\ haLock = None
    /\ last < MaxMsgs                               \* bound of the model
    /\ hdrs' = hdrs \cup {NewHdr(msg[p])}
    /\ last' = last + 1
    /\ cnt' = [cnt EXCEPT ![p] = @ + 1]
    /\ UNCHANGED <<locks, data, texts, late, pc, msg, fld, errors>>

\* bulkmailhdr returns 0 when it cannot read the user's record, and bulkmail
\* counts a header that there is not
SkipRcpt(p) ==
    /\ pc[p] = "rcpt"
    /\ cnt[p] < MaxMsgs                             \* bound of the model
    /\ cnt' = [cnt EXCEPT ![p] = @ + 1]
    /\ leaked' = leaked \cup TextBlocks(msg[p])
    /\ UNCHANGED <<locks, data, base, pc, msg, fld, short>>

\* No more recipients, or the header of one could not be added: open the
\* .sda file, then count the headers there are now or free the text
Count(p) ==
    /\ pc[p] = "rcpt"
    /\ CanOpenDa(p)
    /\ daLock' = IF cnt[p] = 1 THEN None ELSE p
    /\ CASE cnt[p] = 0 -> Goto(p, "free") /\ UNCHANGED local
         [] cnt[p] = 1 -> Finish(p)
         [] OTHER      -> Goto(p, "inc") /\ UNCHANGED local
    /\ UNCHANGED <<hdrLock, haLock, data, base, errors>>

CountTimeout(p) ==
    /\ pc[p] = "rcpt"
    /\ ~CanOpenDa(p)
    /\ leaked' = IF cnt[p] = 0 THEN leaked \cup TextBlocks(msg[p]) ELSE leaked
    /\ short' = IF cnt[p] > 1 THEN short \cup TextBlocks(msg[p]) ELSE short
    /\ Finish(p)
    /\ UNCHANGED <<locks, data, base>>

\* The same where smb_incmsg_dfields is called with the file closed.  A text
\* without any recipient is left where it is, and the call has failed.
ListDone(p) ==
    /\ pc[p] = "rcpt"
    /\ leaked' = IF cnt[p] = 0 THEN leaked \cup TextBlocks(msg[p]) ELSE leaked
    /\ IF cnt[p] > 1 THEN Goto(p, "inc_open") /\ UNCHANGED local ELSE Finish(p)
    /\ UNCHANGED <<locks, data, base, short>>

IncOpen(p) ==
    /\ pc[p] = "inc_open"
    /\ CanOpenDa(p)
    /\ daLock' = p
    /\ Goto(p, "inc")
    /\ UNCHANGED <<hdrLock, haLock, data, base, local, errors>>

IncOpenTimeout(p) ==
    /\ pc[p] = "inc_open"
    /\ ~CanOpenDa(p)
    /\ short' = short \cup TextBlocks(msg[p])
    /\ Finish(p)
    /\ UNCHANGED <<locks, data, base, leaked>>

\* smb_incmsg_dfields: whoever opened the file closes it again, but neither
\* forwardmail after a failure nor the library when the base stays locked
IncRefs(p) ==
    /\ pc[p] = "inc"
    /\ CanLock(p)
    /\ sda' = IncDat(msg[p], IF p \in Forwarders THEN 1 ELSE cnt[p] - 1)
    /\ hdrLock' = None
    /\ leaked' = IF p \notin Forwarders \/ IncFits(msg[p]) THEN leaked ELSE leaked \cup TextBlocks(msg[p])
    /\ short' = IF p \in Forwarders \/ IncFits(msg[p]) THEN short ELSE short \cup TextBlocks(msg[p])
    /\ daLock' = IF p \notin Forwarders \/ IncFits(msg[p]) THEN None ELSE p
    /\ IF p \in Forwarders /\ IncFits(msg[p])
       THEN Goto(p, "fwd_hdr") /\ UNCHANGED local
       ELSE Finish(p)
    /\ UNCHANGED <<haLock, sdt, base>>

IncRefsTimeout(p) ==
    /\ pc[p] = "inc"
    /\ ~CanLock(p)
    /\ short' = IF p \in Forwarders THEN short ELSE short \cup TextBlocks(msg[p])
    /\ daLock' = IF p \in Mailers THEN None ELSE p
    /\ Finish(p)
    /\ UNCHANGED <<hdrLock, haLock, data, base, leaked>>

-----------------------------------------------------------------------------
(* forwardmail, with a message read before.                                 *)

Forward(p) ==
    /\ pc[p] = "idle"
    /\ \E h \in hdrs :
        /\ ~h.marked
        /\ msg' = [msg EXCEPT ![p] = [txt |-> h.txt, off |-> h.off, lay |-> h.lay]]
    /\ last < MaxMsgs                               \* bound of the model
    /\ Goto(p, "fwd")
    /\ UNCHANGED <<locks, data, base, fld, cnt, errors>>

ForwardOpen(p) ==
    /\ pc[p] = "fwd"
    /\ CanOpenDa(p)
    /\ daLock' = p
    /\ Goto(p, "inc")
    /\ UNCHANGED <<hdrLock, haLock, data, base, local, errors>>

ForwardOpenTimeout(p) ==
    /\ pc[p] = "fwd"
    /\ ~CanOpenDa(p)
    /\ Finish(p)
    /\ UNCHANGED <<locks, data, base, errors>>

-----------------------------------------------------------------------------
(* delmail, called with the base locked; it keeps both allocation files     *)
(* open all the time, but not the lock.                                     *)

PurgeLock(p) ==
    /\ pc[p] = "idle"
    /\ hdrLock = None
    /\ QuietPurge => \A q \in Mailers \cup Listers \cup Forwarders : pc[q] = "idle"
    /\ hdrLock' = p
    /\ Goto(p, "pg_open")
    /\ UNCHANGED <<daLock, haLock, data, base, local, errors>>

PurgeOpen(p) ==
    /\ pc[p] = "pg_open"
    /\ hdrs # {} /\ daLock = None
    /\ daLock' = p /\ haLock' = p
    /\ Goto(p, "pg_scan")
    /\ UNCHANGED <<hdrLock, data, base, local, errors>>

\* An empty base, or a timeout
PurgeReturn(p) ==
    /\ pc[p] = "pg_open"
    /\ hdrs = {} \/ daLock # None
    /\ hdrLock' = None
    /\ Finish(p)
    /\ UNCHANGED <<daLock, haLock, data, base, errors>>

\* The marked headers still to come, in the order of the index.  It is read
\* through a buffer: what has been marked since it was opened may not be seen.
Ahead(p) == {h \in hdrs : h.marked /\ h.num > cnt[p]}

Forwarded(h) == \E f \in Forwarders : pc[f] # "idle" /\ msg[f].txt = h.txt

PurgeNext(p) ==
    /\ pc[p] = "pg_scan"
    /\ \E h \in Ahead(p) :
        /\ \A g \in Ahead(p) : g.num < h.num => g.num \in late
        /\ QuietPurge /\ h.num \in late => ~Forwarded(h)
        /\ late' = late \ {h.num}
        /\ msg' = [msg EXCEPT ![p] = [txt |-> h.txt, off |-> h.off, lay |-> h.lay]]
        /\ cnt' = [cnt EXCEPT ![p] = h.num]
    /\ fld' = [fld EXCEPT ![p] = 1]
    /\ Goto(p, "pg_free")
    /\ UNCHANGED <<locks, data, hdrs, last, texts, errors>>

\* Whatever happens to its data, the message is dropped
Dropped(p) == {h \in hdrs : h.num # cnt[p]}

\* smb_freemsgdat "Always unlocks the SMB header", but for an empty .sda file
PurgeFree(p) ==
    /\ pc[p] = "pg_free"
    /\ sda = <<>> \/ CanLock(p)
    /\ Free(p, fld[p], 1)
    /\ hdrLock' = IF sda = <<>> THEN hdrLock ELSE None
    /\ IF fld[p] < Len(msg[p].lay) /\ FreeFits(FieldBlocks(msg[p], fld[p]))
       THEN /\ fld' = [fld EXCEPT ![p] = @ + 1]
            /\ UNCHANGED <<pc, hdrs>>
       ELSE /\ hdrs' = Dropped(p)
            /\ Goto(p, "pg_scan")
            /\ UNCHANGED fld
    /\ UNCHANGED <<daLock, haLock, last, texts, late, msg, cnt, short>>

PurgeFreeTimeout(p) ==
    /\ pc[p] = "pg_free"
    /\ sda # <<>>
    /\ ~CanLock(p)
    /\ leaked' = leaked \cup Unfreed(p)
    /\ hdrs' = Dropped(p)
    /\ Goto(p, "pg_scan")
    /\ UNCHANGED <<locks, data, last, texts, late, local, short>>

\* The index is written as it has been read: marks made behind the reader's
\* back are gone from it.
PurgeClose(p) ==
    /\ pc[p] = "pg_scan"
    /\ \A h \in Ahead(p) : h.num \in late
    /\ hdrs' = {[h EXCEPT !.marked = @ /\ h.num \notin late] : h \in hdrs}
    /\ late' = {}
    /\ daLock' = None /\ haLock' = None
    /\ hdrLock' = Unlocked(p)
    /\ Finish(p)
    /\ UNCHANGED <<data, last, texts, errors>>

-----------------------------------------------------------------------------
UndoStep(p) ==
    \/ UndoOpen(p) \/ UndoOpenTimeout(p) \/ FreeNothing(p) \/ FreeField(p) \/ FreeFieldTimeout(p)

SendStep(p) ==
    \/ AddLock(p) \/ StoreText(p) \/ StoreTextTimeout(p)
    \/ AddHdr(p) \/ AddHdrFails(p) \/ UndoStep(p)

MailStep(p) ==
    \/ AddLock(p) \/ StoreText(p) \/ StoreTextTimeout(p) \/ AddRcpt(p) \/ SkipRcpt(p)
    \/ Count(p) \/ CountTimeout(p) \/ IncRefs(p) \/ IncRefsTimeout(p)
    \/ FreeNothing(p) \/ FreeField(p) \/ FreeFieldTimeout(p)

ListStep(p) ==
    \/ AddLock(p) \/ StoreText(p) \/ StoreTextTimeout(p) \/ AddRcpt(p)
    \/ ListDone(p) \/ IncOpen(p) \/ IncOpenTimeout(p) \/ IncRefs(p) \/ IncRefsTimeout(p)

ForwardStep(p) ==
    \/ Forward(p) \/ ForwardOpen(p) \/ ForwardOpenTimeout(p)
    \/ IncRefs(p) \/ IncRefsTimeout(p) \/ AddHdr(p) \/ AddHdrFails(p) \/ UndoStep(p)

PurgeStep(p) ==
    \/ PurgeLock(p) \/ PurgeOpen(p) \/ PurgeReturn(p) \/ PurgeNext(p)
    \/ PurgeFree(p) \/ PurgeFreeTimeout(p) \/ PurgeClose(p)

Next ==
    \/ \E p \in Senders : SendStep(p)
    \/ \E p \in Mailers : MailStep(p)
    \/ \E p \in Listers : ListStep(p)
    \/ \E p \in Forwarders : ForwardStep(p)
    \/ \E p \in Purgers : PurgeStep(p)
    \/ \E p \in Proc : CloseBase(p)
    \/ Mark

Spec == Init /\ [][Next]_vars

-----------------------------------------------------------------------------
(* What the text of a message is for its readers: the blocks its header     *)
(* points to, or None if they do not hold one text.                         *)

TextAt(h) ==
    IF TextBlocks(h) \cap short # {} THEN h.txt
    ELSE IF \A b \in TextBlocks(h) : b < Len(sdt) /\ sdt[b + 1] = <<sdt[h.off + 1][1], b - h.off>>
         THEN sdt[h.off + 1][1] ELSE None

Readable == {h \in hdrs : ~h.marked}

Late == {h \in hdrs : h.num \in late}

TextsIn(H) == [n \in {h.num : h \in H} |-> TextAt(CHOOSE h \in H : h.num = n)]

T == INSTANCE MsgTexts WITH
        Texts <- 1..MaxTexts,
        box <- TextsIn(Readable),
        last <- last,
        cleaning <- haLock # None,
        unsure <- TextsIn(Late)

\* A reader sees nothing of blocks and counts: a message that has been posted
\* says what it said, through all allocating, freeing, cutting and counting
\* for other messages, until it is marked for deletion.  A mark is lost only
\* when a purge ends that was running when it was made and has not seen it:
\* the reader had the base lock ("Insure no one else can be changing the index
\* at this time", smb_updatemsg), but delmail, which counts on having it, had
\* not.  (A message whose headers could not be counted may lose its text: see
\* short.)
ImplementsTexts == T!Spec

\* A block is not marked free while a message that is not deleted is in it.
\* The counts of a text with several headers are 1 plus the others, by field;
\* a block of two fields is given back twice.
UsedNotFree ==
    \A h \in Readable : \A b \in TextBlocks(h) \ short : b < Len(sda) /\ sda[b + 1] > 0

Headers(b) == {h \in hdrs : b \in TextBlocks(h)}

Uses(H, b) == Cardinality({u \in H \X {1, 2} :
                              u[2] <= Len(u[1].lay) /\ b \in FieldBlocks(u[1], u[2])})

\* When no call is in progress, each block is counted once for every header
\* and field in it (a block shared by two fields once less, as it was
\* allocated once), unless a call has returned an error for that block or
\* bulkmail has counted a recipient without a header: no other path leaves a
\* block allocated for ever or frees one too early.  These are the counts of
\* the code.  smb.txt would have "the number of message header records
\* associated with this message data", but where body and tail share a block
\* the count is 3 for two headers, and 5 for three.
RefsExact ==
    (\A p \in Proc : pc[p] = "idle") =>
        \A b \in 0..Len(sda) - 1 : b \notin leaked \cup short =>
            LET H == Headers(b)
            IN  sda[b + 1] = IF H = {} THEN 0
                             ELSE Uses(H, b) - (Fields(CHOOSE h \in H : TRUE, b) - 1)
=============================================================================
