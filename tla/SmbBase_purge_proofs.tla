------------------------- MODULE SmbBase_purge_proofs -------------------------
(* Posts and purges of a base without hyper allocation, for any number of  *)
(* processes: although a purge gives up the lock on the base when it has   *)
(* freed its first text, the rest of its work is undisturbed.  Last, what  *)
(* still holds if purges die half way.                                     *)
EXTENDS SmbBase_proofs

-----------------------------------------------------------------------------
\* A base without hyper allocation, used by posts and purges that nobody kills
FastBase == ~Hyper /\ Modifiers = {} /\ Crashers = {}

\* The steps of a post that has the base locked, and the last three, in which
\* it has a slot
Adding == {"add_status", "add_data", "add_hdr", "add_alloc", "add_puthdr", "add_putidx",
           "add_putstatus"}
Placing == {"add_puthdr", "add_putidx", "add_putstatus"}

\* The steps of a purge: before it has the .sha file, while it reads the
\* index, and until the index is as long as it will be
Ready == {"pg_status", "pg_da", "pg_ha"}
Sorting == {"pg_scan", "pg_freedat", "pg_freehdr"}
Dropping == Sorting \cup {"pg_trunc"}

\* A purge may have lost the lock on the base, but a post that had it since
\* has no slot before the purge is over
Held ==
    /\ \A p \in Proc : pc[p] \in Adding \cup Ready => hdrLock = p
    /\ \A p, q \in Proc : pc[p] \in Placing => pc[q] \notin PgHa

\* The header in the slot of record r is that of its message
Own(r) == shd[r.slot].num = r.num /\ r.slot \in sha

IndexData ==
    /\ \A k \in 1..Len(sid) : k <= status.total => sid[k].num <= status.last
    /\ (\A p \in Proc : pc[p] \notin {"add_putstatus", "pg_putstatus"})
          => Len(sid) = status.total
    /\ (\A p \in Proc : pc[p] # "pg_trunc") => Increasing(sid)
    /\ \A s \in sha : s <= shaEnd

\* All but the records a purge has come by and will not write back
HeaderData ==
    \A k \in 1..Len(sid) :
        \/ Own(sid[k])
        \/ \E q \in Proc : /\ pc[q] \in Dropping /\ k <= pos[q]
                           /\ "delete" \in sid[k].attr
                           /\ shd[sid[k].slot].num = sid[k].num \/ shd[sid[k].slot] = NoHdr

\* What a post knows: the offset it will write to is the end of the index, or
\* beyond it if the index has been cut since
Poster(p) ==
    /\ pc[p] \in {"add_alloc", "add_puthdr", "add_putidx"} =>
         /\ msg[p].off >= Len(sid)
         /\ msg[p].off = Len(sid) =>
              /\ status.total = Len(sid) /\ st[p] = status
              /\ msg[p].num = status.last + 1
    /\ pc[p] \in {"add_puthdr", "add_putidx"} =>
         /\ msg[p].slot \in sha
         /\ \A k \in 1..Len(sid) : sid[k].slot # msg[p].slot
    /\ pc[p] = "add_putidx" => shd[msg[p].slot].num = msg[p].num
    /\ pc[p] = "add_putstatus" =>
         /\ Len(sid) = status.total + 1 /\ st[p] = status
         /\ sid[Len(sid)].num = status.last + 1

\* What a purge knows: its buffer has the unmarked ones of the first pos
\* records, and fewer than pos if it has lost the lock on the base
Buffer(q) ==
    /\ Increasing(buf[q])
    /\ \A i \in 1..Len(buf[q]) : Own(buf[q][i]) /\ buf[q][i].num <= status.last
    /\ Len(buf[q]) <= pos[q] /\ pos[q] <= status.total
    /\ hdrLock # q => Len(buf[q]) < pos[q]

Copied(q) ==
    /\ pos[q] <= Len(sid)
    /\ \A k \in 1..pos[q] :
         "delete" \notin sid[k].attr => \E i \in 1..Len(buf[q]) : buf[q][i] = sid[k]
    /\ \A i \in 1..Len(buf[q]) : \E k \in 1..pos[q] : sid[k] = buf[q][i]

Freeing(q) ==
    /\ Len(buf[q]) < pos[q]
    /\ \A i \in 1..Len(buf[q]) : buf[q][i].slot # msg[q].slot
    /\ \A k \in pos[q]+1..Len(sid) : sid[k].slot # msg[q].slot

Purger(q) ==
    /\ pc[q] \notin PgHa \cup {"unlock"} => buf[q] = <<>> /\ pos[q] = 0
    /\ pc[q] \in {"pg_da", "pg_ha", "pg_putstatus"} \cup Dropping =>
         st[q].last = status.last /\ st[q].total >= status.total
    /\ pc[q] \in Dropping \cup {"pg_putstatus"} => Buffer(q)
    /\ pc[q] \in Dropping => Copied(q)
    /\ pc[q] \in {"pg_freedat", "pg_freehdr"} => Freeing(q)
    /\ pc[q] = "pg_trunc" =>
         /\ pos[q] = Len(sid)
         /\ \A i \in 1..Len(buf[q]) : sid[i] = buf[q][i]
    /\ pc[q] = "pg_putstatus" => sid = buf[q]

PurgeInv ==
    /\ Held /\ IndexData /\ HeaderData
    /\ \A p \in Proc : Poster(p) /\ Purger(p)

\* What a step does to the messages: unmarked ones stay, and a new one has a
\* new number
Safe ==
    /\ \A k \in 1..Len(sid) : "delete" \notin sid[k].attr =>
         \E j \in 1..Len(sid') : sid'[j].num = sid[k].num
    /\ status'.last >= status.last
    /\ \A j \in 1..Len(sid') :
         (\A k \in 1..Len(sid) : sid[k].num # sid'[j].num) => sid'[j].num > status.last

\* p does nothing to the others' memory, and takes and gives up its own lock
OnlyBy(p) ==
    \A q \in Proc \ {p} :
        /\ pc'[q] = pc[q] /\ st'[q] = st[q] /\ msg'[q] = msg[q]
        /\ buf'[q] = buf[q] /\ pos'[q] = pos[q]
        /\ (hdrLock' = q) <=> (hdrLock = q)

-----------------------------------------------------------------------------
LEMMA InitPurgeInv == Init => PurgeInv
  <1> SUFFICES ASSUME Init PROVE PurgeInv
    OBVIOUS
  <1>0. PICK n \in 0..InitMsgs : \E marked \in [1..n -> {{}, {"delete"}}] :
          /\ status = [last |-> n, total |-> n]
          /\ sid = [i \in 1..n |-> [num |-> i, slot |-> i, attr |-> marked[i]]]
          /\ shd = [s \in Slots |-> IF s \in 1..n THEN [num |-> s, attr |-> marked[s]]
                                                 ELSE NoHdr]
          /\ sha = 1..n /\ shaEnd = n
    BY DEF Init
  <1>1. PICK marked \in [1..n -> {{}, {"delete"}}] :
          /\ status = [last |-> n, total |-> n]
          /\ sid = [i \in 1..n |-> [num |-> i, slot |-> i, attr |-> marked[i]]]
          /\ shd = [s \in Slots |-> IF s \in 1..n THEN [num |-> s, attr |-> marked[s]]
                                                 ELSE NoHdr]
          /\ sha = 1..n /\ shaEnd = n
    BY <1>0
  <1>2. n \in Nat /\ 1..n \subseteq Slots
    BY SmbBaseAssumption DEF SmbBaseAssumption
  <1>3. /\ Len(sid) = n
        /\ \A k \in 1..n : sid[k].num = k /\ sid[k].slot = k
        /\ \A k \in 1..n : shd[k].num = k /\ k \in sha
        /\ status.last = n /\ status.total = n
    BY <1>1, <1>2
  <1>4. IndexData /\ HeaderData
    BY <1>1, <1>2, <1>3 DEF IndexData, HeaderData, Increasing, Own
  <1>5. \A p \in Proc : pc[p] = "idle" /\ buf[p] = <<>> /\ pos[p] = 0
    BY DEF Init
  <1>6. Held
    BY <1>5 DEF Held, Adding, Ready, Placing
  <1>7. \A p \in Proc : Poster(p) /\ Purger(p)
    BY <1>5 DEF Poster, Purger, Dropping, Sorting, PgHa
  <1> QED
    BY <1>4, <1>6, <1>7 DEF PurgeInv

\* What the others know stays true as long as the files and the lock on the
\* base do
LEMMA OthersQuiet ==
  ASSUME PurgeInv, NEW p \in Proc, OnlyBy(p), UNCHANGED files
  PROVE  \A q \in Proc \ {p} : Poster(q)' /\ Purger(q)'
  <1> SUFFICES ASSUME NEW q \in Proc \ {p} PROVE Poster(q)' /\ Purger(q)'
    OBVIOUS
  <1>1. Poster(q) /\ Purger(q)
    BY DEF PurgeInv
  <1>2. Poster(q)'
    BY <1>1 DEF Poster, OnlyBy, files
  <1>3. Buffer(q) => Buffer(q)'
    BY DEF Buffer, OnlyBy, files, Increasing, Own
  <1>4. Copied(q) => Copied(q)'
    BY DEF Copied, OnlyBy, files
  <1>5. Freeing(q) => Freeing(q)'
    BY DEF Freeing, OnlyBy, files
  <1>6. Purger(q)'
    BY <1>1, <1>3, <1>4, <1>5 DEF Purger, OnlyBy, files
  <1> QED
    BY <1>2, <1>6

\* A step of p that changes no file
LEMMA QuietStep ==
  ASSUME TypeInv, TypeInv', PurgeInv, NEW p \in Proc, OnlyBy(p), UNCHANGED files, Held',
         pc[p] \notin {"pg_trunc", "pg_putstatus", "add_putstatus"},
         pc[p] \in Sorting => pc'[p] \in Sorting /\ pos'[p] >= pos[p] /\ pos[p] \in Int,
         Poster(p)', Purger(p)'
  PROVE  PurgeInv' /\ Safe
  <1>0. /\ Len(sid) \in Nat /\ status.last \in Nat
        /\ \A k \in 1..Len(sid) : sid[k].num \in Nat
    BY FileTypes
  <1>1. IndexData'
    <2>1. (\A q \in Proc : pc'[q] \notin {"add_putstatus", "pg_putstatus"})
             => \A q \in Proc : pc[q] \notin {"add_putstatus", "pg_putstatus"}
      BY DEF OnlyBy
    <2>2. (\A q \in Proc : pc'[q] # "pg_trunc") => \A q \in Proc : pc[q] # "pg_trunc"
      BY DEF OnlyBy
    <2> QED
      BY <2>1, <2>2 DEF PurgeInv, IndexData, files, Increasing
  <1>2. HeaderData'
    <2> SUFFICES ASSUME NEW k \in 1..Len(sid), ~Own(sid[k])
                 PROVE  \E q \in Proc :
                          /\ pc'[q] \in Dropping /\ k <= pos'[q]
                          /\ "delete" \in sid[k].attr
                          /\ shd[sid[k].slot].num = sid[k].num \/ shd[sid[k].slot] = NoHdr
      BY DEF HeaderData, files, Own
    <2>1. PICK q \in Proc :
            /\ pc[q] \in Dropping /\ k <= pos[q]
            /\ "delete" \in sid[k].attr
            /\ shd[sid[k].slot].num = sid[k].num \/ shd[sid[k].slot] = NoHdr
      BY DEF PurgeInv, HeaderData
    <2>2. pc'[q] \in Dropping /\ k <= pos'[q]
      <3>1. CASE q # p
        BY <2>1, <3>1 DEF OnlyBy
      <3>2. CASE q = p
        <4>1. pc[p] \in Sorting
          BY <2>1, <3>2 DEF Dropping
        <4>2. pos'[p] \in Int => k <= pos'[p]
          BY <1>0, <2>1, <3>2, <4>1
        <4>3. pos'[p] \in Nat
          BY DEF TypeInv, TypeOK
        <4> QED
          BY <3>2, <4>1, <4>2, <4>3 DEF Dropping
      <3> QED
        BY <3>1, <3>2
    <2> QED
      BY <2>1, <2>2
  <1>3. \A q \in Proc : Poster(q)' /\ Purger(q)'
    BY OthersQuiet
  <1>4. Safe
    BY <1>0 DEF Safe, files
  <1> QED
    BY <1>1, <1>2, <1>3, <1>4 DEF PurgeInv

LEMMA HeldStep ==
  ASSUME Held, NEW p \in Proc, OnlyBy(p),
         pc'[p] \in Adding \cup Ready => hdrLock' = p,
         pc'[p] \in Placing => pc[p] \in Placing \/ \A q \in Proc : pc[q] \notin PgHa,
         pc'[p] \in PgHa => pc[p] \in PgHa \/ hdrLock = p
  PROVE  Held'
  <1>1. ASSUME NEW q \in Proc, pc'[q] \in Adding \cup Ready PROVE hdrLock' = q
    BY <1>1 DEF Held, OnlyBy
  <1>2. ASSUME NEW q \in Proc, NEW r \in Proc, pc'[q] \in Placing PROVE pc'[r] \notin PgHa
    <2>1. CASE q = p /\ r = p
      BY <1>2, <2>1 DEF Placing, PgHa
    <2>2. CASE q = p /\ r # p
      BY <1>2, <2>2 DEF Held, OnlyBy
    <2>3. CASE q # p /\ r = p
      <3>1. pc[q] \in Placing /\ hdrLock = q
        BY <1>2, <2>3 DEF Held, OnlyBy, Placing, Adding
      <3> QED
        BY <2>3, <3>1 DEF Held
    <2>4. CASE q # p /\ r # p
      BY <1>2, <2>4 DEF Held, OnlyBy
    <2> QED
      BY <2>1, <2>2, <2>3, <2>4
  <1> QED
    BY <1>1, <1>2 DEF Held

-----------------------------------------------------------------------------
\* The steps of a post that change no file of the model
QuietPost(p) ==
    \/ AddLock(p) \/ HeaderLock(p) \/ AddStatus(p) \/ AddData(p) \/ AddDataTimeout(p)
    \/ AddHdr(p) \/ AddAllocTimeout(p)
    \/ /\ AddPutIdx(p)
       /\ msg[p].off > Len(sid)
    \/ UndoOpen(p) \/ UndoOpenTimeout(p) \/ UndoLock(p) \/ UndoLockTimeout(p)

LEMMA QuietPostPurgeInv ==
  ASSUME TypeInv, TypeInv', PurgeInv, NEW p \in Proc, QuietPost(p)
  PROVE  PurgeInv' /\ Safe
  <1>0. /\ None \notin Proc
        /\ DOMAIN pc = Proc /\ DOMAIN st = Proc /\ DOMAIN msg = Proc
        /\ Len(sid) \in Nat /\ msg[p].off \in Nat
    <2>1. msg[p] \in Msgs
      BY DEF TypeInv, TypeOK
    <2> QED
      BY <2>1, FileTypes, SmbBaseAssumption DEF SmbBaseAssumption, TypeInv, TypeOK, Msgs
  <1>a. pc[p] \in Adding => hdrLock = p
    BY DEF PurgeInv, Held
  <1>b. msg[p].off > Len(sid) => PutMsgIdx(sid, msg[p].off, IdxRec(msg[p])) = sid /\ ~(msg[p].off <= Len(sid))
    BY <1>0 DEF PutMsgIdx
  <1> USE <1>0, <1>a, <1>b DEF QuietPost, AddLock, HeaderLock, AddStatus, AddData, AddDataTimeout, AddHdr,
          AddAllocTimeout, AddPutIdx, UndoOpen, UndoOpenTimeout, UndoLock, UndoLockTimeout, Goto
  <1>1. /\ \A q \in Proc \ {p} : pc'[q] = pc[q] /\ st'[q] = st[q] /\ msg'[q] = msg[q]
        /\ buf' = buf /\ pos' = pos
    BY DEF local
  <1>2. \A q \in Proc \ {p} : (hdrLock' = q) <=> (hdrLock = q)
    BY DEF locks, Adding
  <1>3. OnlyBy(p)
    BY <1>1, <1>2 DEF OnlyBy
  <1>4. UNCHANGED files
    BY DEF files
  <1>5. pc'[p] \in Adding \cup Ready => hdrLock' = p
    BY DEF Adding, Ready, AfterFailure, locks
  <1>6. /\ pc'[p] \notin Placing
        /\ pc'[p] \notin PgHa /\ pc[p] \notin PgHa /\ pc[p] # "unlock" /\ pc[p] # "add_putstatus"
        /\ pc'[p] \notin {"pg_da", "pg_ha"}
    BY DEF Placing, PgHa, AfterFailure
  <1>7. pc'[p] = "add_alloc" => AddHdr(p) /\ Len(sid) = status.total
    BY DEF AfterFailure
  <1>8. Poster(p)'
    <2>1. CASE pc'[p] = "add_alloc"
      <3>1. /\ st'[p] = status
            /\ msg'[p].off = status.total
            /\ msg'[p].num = status.last + 1
        BY <1>7, <2>1 DEF NewMsg
      <3> QED
        BY <1>4, <1>7, <2>1, <3>1 DEF Poster, files
    <2>2. CASE pc'[p] # "add_alloc"
      BY <1>6, <2>2 DEF Poster, Placing
    <2> QED
      BY <2>1, <2>2
  <1> HIDE DEF QuietPost, AddLock, HeaderLock, AddStatus, AddData, AddDataTimeout, AddHdr,
          AddAllocTimeout, AddPutIdx, UndoOpen, UndoOpenTimeout, UndoLock, UndoLockTimeout, Goto
  <1>9. Purger(p)'
    BY <1>1, <1>6 DEF PurgeInv, Purger, Dropping, Sorting, PgHa
  <1>10. Held'
    BY <1>3, <1>5, <1>6, HeldStep DEF PurgeInv
  <1> QED
    BY <1>3, <1>4, <1>6, <1>8, <1>9, <1>10, QuietStep DEF Sorting, PgHa

LEMMA CommonPurgeInv ==
  ASSUME FastBase, TypeInv, TypeInv', PurgeInv, NEW p \in Proc,
         Unlock(p) \/ CloseBase(p) \/ Crash(p)
  PROVE  PurgeInv' /\ Safe
  <1>0. /\ None \notin Proc
        /\ DOMAIN pc = Proc /\ DOMAIN st = Proc /\ DOMAIN msg = Proc
        /\ DOMAIN buf = Proc /\ DOMAIN pos = Proc
    BY SmbBaseAssumption DEF SmbBaseAssumption, TypeInv, TypeOK
  <1>1. OnlyBy(p) /\ UNCHANGED files
    BY <1>0 DEF Unlock, CloseBase, Crash, FastBase, Goto, Forget, local, files, OnlyBy
  <1>2. /\ pc'[p] = "idle" /\ pc[p] \in {"idle", "unlock"}
        /\ pc[p] = "idle" => buf'[p] = buf[p] /\ pos'[p] = pos[p]
        /\ pc[p] = "unlock" => buf'[p] = <<>> /\ pos'[p] = 0
    BY <1>0 DEF Unlock, CloseBase, Crash, FastBase, Goto, Forget, local
  <1>3. Poster(p)'
    BY <1>2 DEF Poster
  <1>4. Purger(p)'
    BY <1>2 DEF PurgeInv, Purger, Dropping, Sorting, PgHa
  <1>5. Held'
    BY <1>1, <1>2, HeldStep DEF PurgeInv, Adding, Ready, Placing, PgHa
  <1> QED
    BY <1>1, <1>2, <1>3, <1>4, <1>5, QuietStep DEF Sorting

-----------------------------------------------------------------------------
\* The steps of a purge before it reads the index, and the last one
EarlyPurge(p) ==
    \/ PurgeLock(p) \/ PurgeStatus(p) \/ PurgeOpenDa(p) \/ PurgeOpenDaTimeout(p)
    \/ PurgeOpenHa(p) \/ PurgeClose(p)

LEMMA EarlyPurgeInv ==
  ASSUME TypeInv, TypeInv', PurgeInv, NEW p \in Proc, EarlyPurge(p)
  PROVE  PurgeInv' /\ Safe
  <1>0. /\ None \notin Proc
        /\ DOMAIN pc = Proc /\ DOMAIN st = Proc
        /\ status.last \in Nat /\ status.total \in Nat /\ Len(sid) \in Nat
    BY FileTypes, SmbBaseAssumption DEF SmbBaseAssumption, TypeInv, TypeOK
  <1>a. pc[p] \in Ready => hdrLock = p
    BY DEF PurgeInv, Held
  <1> USE <1>0, <1>a DEF EarlyPurge, PurgeLock, PurgeStatus, PurgeOpenDa, PurgeOpenDaTimeout, PurgeOpenHa,
          PurgeClose, Goto
  <1>1. /\ \A q \in Proc \ {p} : pc'[q] = pc[q] /\ st'[q] = st[q]
        /\ msg' = msg /\ buf' = buf /\ pos' = pos
    BY DEF local
  <1>2. \A q \in Proc \ {p} : (hdrLock' = q) <=> (hdrLock = q)
    BY DEF locks
  <1>3. OnlyBy(p)
    BY <1>1, <1>2 DEF OnlyBy
  <1>4. UNCHANGED files
    BY DEF files
  <1>5. pc'[p] \in Adding \cup Ready => hdrLock' = p
    BY DEF Adding, Ready, locks
  <1>6. /\ pc'[p] \notin Adding
        /\ pc[p] \in {"idle", "pg_status", "pg_da", "pg_ha", "pg_close"}
        /\ pc'[p] \in {"unlock", "pg_status", "pg_da", "pg_ha", "pg_scan"}
        /\ pc[p] = "pg_close" => pc'[p] = "unlock"
    BY DEF Adding
  <1>7. pc'[p] = "pg_scan" => pc[p] = "pg_ha" /\ hdrLock' = p
    BY DEF locks, Ready
  <1>8. pc'[p] \in {"pg_da", "pg_ha", "pg_scan"} =>
           \/ pc[p] \in {"pg_da", "pg_ha"} /\ st'[p] = st[p]
           \/ pc[p] = "pg_status" /\ st'[p] = status
    BY DEF local
  <1> HIDE DEF EarlyPurge, PurgeLock, PurgeStatus, PurgeOpenDa, PurgeOpenDaTimeout, PurgeOpenHa,
          PurgeClose, Goto
  <1>9. Poster(p)'
    BY <1>6 DEF Poster
  <1>10. Purger(p)'
    <2>1. Purger(p)
      BY DEF PurgeInv
    <2>2. pc'[p] \notin PgHa \cup {"unlock"} => buf'[p] = <<>> /\ pos'[p] = 0
      BY <1>1, <1>6, <2>1 DEF Purger, PgHa
    <2>3. pc'[p] \in {"pg_da", "pg_ha", "pg_scan"}
            => st'[p].last = status'.last /\ st'[p].total >= status'.total
      BY <1>0, <1>4, <1>8, <2>1 DEF Purger, files
    <2>4. ASSUME pc'[p] = "pg_scan" PROVE Buffer(p)' /\ Copied(p)'
      <3>1. buf'[p] = <<>> /\ pos'[p] = 0 /\ hdrLock' = p
        BY <1>1, <1>7, <2>1, <2>4 DEF Purger, PgHa
      <3> QED
        BY <1>0, <1>4, <3>1 DEF Buffer, Copied, Increasing, files
    <2> QED
      BY <1>6, <2>2, <2>3, <2>4 DEF Purger, Dropping, Sorting
  <1>11. Held'
    BY <1>3, <1>5, <1>6, <1>7, <1>a, HeldStep DEF PurgeInv, Adding, Placing, Ready, PgHa
  <1> QED
    BY <1>3, <1>4, <1>6, <1>9, <1>10, <1>11, QuietStep DEF Sorting

\* While p is at work on the index it is sorted, as long as the status says,
\* and the records p has not come to have their own headers
LEMMA WhileSorting ==
  ASSUME TypeInv, PurgeInv, NEW p \in Proc, pc[p] \in Sorting
  PROVE  /\ Len(sid) = status.total /\ Increasing(sid)
         /\ \A k \in pos[p]+1..Len(sid) : Own(sid[k])
         /\ \A q \in Proc \ {p} : pc[q] \notin PgHa /\ pc[q] \notin Placing
  <1>1. \A q \in Proc \ {p} : pc[q] \notin PgHa /\ pc[q] \notin Placing
    BY DEF TypeInv, HaHeld, PurgeInv, Held, Sorting, PgHa
  <1>2. \A q \in Proc : pc[q] \notin {"add_putstatus", "pg_putstatus", "pg_trunc"}
    BY <1>1 DEF Placing, Sorting, PgHa
  <1>3. Len(sid) = status.total /\ Increasing(sid)
    BY <1>2 DEF PurgeInv, IndexData
  <1>4. \A k \in pos[p]+1..Len(sid) : Own(sid[k])
    <2> SUFFICES ASSUME NEW k \in pos[p]+1..Len(sid) PROVE Own(sid[k])
      OBVIOUS
    <2>1. pos[p] \in Nat /\ Len(sid) \in Nat
      BY FileTypes DEF TypeInv, TypeOK
    <2>2. k \in 1..Len(sid) /\ ~(k <= pos[p])
      BY <2>1
    <2>3. \A q \in Proc : pc[q] \in Dropping => q = p
      BY <1>1 DEF Dropping, Sorting, PgHa
    <2> QED
      BY <2>2, <2>3 DEF PurgeInv, HeaderData
  <1> QED
    BY <1>1, <1>3, <1>4

\* A step of p from one place in its scan to another that changes no file
LEMMA ScanStep ==
  ASSUME TypeInv, TypeInv', PurgeInv, NEW p \in Proc, OnlyBy(p), UNCHANGED files,
         pc[p] \in Sorting, pc'[p] \in Sorting, pos'[p] >= pos[p], st'[p] = st[p],
         Buffer(p)', Copied(p)', pc'[p] \in {"pg_freedat", "pg_freehdr"} => Freeing(p)'
  PROVE  PurgeInv' /\ Safe
  <1>1. /\ pc'[p] \in Sorting /\ pc'[p] \in PgHa /\ pc[p] \in PgHa
        /\ pc'[p] \notin Adding \cup Ready /\ pc'[p] \notin Placing
        /\ pc'[p] \notin {"pg_trunc", "pg_putstatus"}
        /\ pc[p] \notin {"pg_trunc", "pg_putstatus", "add_putstatus"}
    BY DEF Sorting, PgHa, Adding, Ready, Placing
  <1>2. Held'
    BY <1>1, HeldStep DEF PurgeInv
  <1>3. Poster(p)'
    BY <1>1 DEF Poster, Placing, Adding
  <1>4. Purger(p)'
    <2>1. st[p].last = status.last /\ st[p].total >= status.total
      BY DEF PurgeInv, Purger, Dropping
    <2> QED
      BY <1>1, <2>1 DEF Purger, files
  <1>5. pos[p] \in Int
    BY DEF TypeInv, TypeOK
  <1> QED
    BY <1>1, <1>2, <1>3, <1>4, <1>5, QuietStep

LEMMA ScanTypes ==
  ASSUME TypeInv, NEW p \in Proc
  PROVE  /\ buf[p] \in Seq(IdxRecs) /\ Len(buf[p]) \in Nat /\ pos[p] \in Nat
         /\ \A i \in 1..Len(buf[p]) : buf[p][i].num \in Nat /\ buf[p][i].slot \in Slots
         /\ st[p].last \in Nat /\ st[p].total \in Nat
         /\ DOMAIN pc = Proc /\ DOMAIN buf = Proc /\ DOMAIN pos = Proc /\ DOMAIN msg = Proc
  <1>1. /\ buf[p] \in Seq(IdxRecs) /\ pos[p] \in Nat /\ st[p] \in Statuses
        /\ DOMAIN pc = Proc /\ DOMAIN buf = Proc /\ DOMAIN pos = Proc /\ DOMAIN msg = Proc
    BY DEF TypeInv, TypeOK
  <1>2. Len(buf[p]) \in Nat /\ \A i \in 1..Len(buf[p]) : buf[p][i] \in IdxRecs
    BY <1>1
  <1> QED
    BY <1>1, <1>2 DEF IdxRecs, Statuses

LEMMA PurgeKeepInv ==
  ASSUME TypeInv, TypeInv', PurgeInv, NEW p \in Proc, PurgeKeep(p)
  PROVE  PurgeInv' /\ Safe
  <1> DEFINE r == sid[pos[p] + 1]
             n == Len(buf[p])
  <1>1. /\ pc[p] = "pg_scan" /\ pos[p] < Len(sid) /\ "delete" \notin r.attr
        /\ buf' = [buf EXCEPT ![p] = Append(buf[p], r)]
        /\ pos' = [pos EXCEPT ![p] = pos[p] + 1]
        /\ UNCHANGED <<locks, files, pc, st, msg>>
    BY DEF PurgeKeep, Scanning
  <1>2. /\ buf[p] \in Seq(IdxRecs) /\ n \in Nat /\ pos[p] \in Nat
        /\ \A i \in 1..n : buf[p][i].num \in Nat
        /\ DOMAIN buf = Proc /\ DOMAIN pos = Proc
        /\ Len(sid) \in Nat /\ sid \in Seq(IdxRecs)
        /\ status.last \in Nat /\ status.total \in Nat
    BY FileTypes, ScanTypes
  <1>3. pos[p] + 1 \in 1..Len(sid) /\ r \in IdxRecs
    BY <1>1, <1>2
  <1>4. /\ Len(sid) = status.total /\ Increasing(sid) /\ Own(r)
    BY <1>1, <1>2, <1>3, WhileSorting DEF Sorting
  <1>5. Buffer(p) /\ Copied(p)
    BY <1>1 DEF PurgeInv, Purger, Dropping, Sorting
  <1>6. /\ pos'[p] = pos[p] + 1
        /\ Len(buf'[p]) = n + 1
        /\ \A i \in 1..n : buf'[p][i] = buf[p][i]
        /\ buf'[p][n + 1] = r
    <2>1. buf'[p] = Append(buf[p], r)
      BY <1>1, <1>2
    <2> HIDE DEF r
    <2> QED
      BY <1>1, <1>2, <1>3, <2>1, AppendProperties
  <1>7. \A i \in 1..n : buf[p][i].num < r.num
    <2> SUFFICES ASSUME NEW i \in 1..n PROVE buf[p][i].num < r.num
      OBVIOUS
    <2>1. PICK k \in 1..pos[p] : sid[k] = buf[p][i]
      BY <1>5 DEF Copied
    <2>2. k \in 1..Len(sid) /\ k < pos[p] + 1
      BY <1>2, <1>3
    <2> QED
      BY <1>3, <1>4, <2>1, <2>2 DEF Increasing
  <1>8. r.num <= status.last
    BY <1>3, <1>4 DEF PurgeInv, IndexData
  <1>9. \A i \in 1..Len(buf'[p]) : i \in 1..n \/ i = n + 1
    BY <1>2, <1>6
  <1>10. OnlyBy(p)
    BY <1>1, <1>2 DEF OnlyBy, locks
  <1> HIDE DEF r, n
  <1>11. Buffer(p)'
    <2>1. Increasing(buf'[p])
      <3> SUFFICES ASSUME NEW i \in 1..Len(buf'[p]), NEW j \in 1..Len(buf'[p]), i < j
                   PROVE  buf'[p][i].num < buf'[p][j].num
        BY DEF Increasing
      <3>1. i \in 1..n
        BY <1>2, <1>6
      <3>2. CASE j \in 1..n
        <4>1. buf[p][i].num < buf[p][j].num
          BY <1>5, <3>1, <3>2 DEF Buffer, Increasing, n
        <4> QED
          BY <1>6, <3>1, <3>2, <4>1
      <3>3. CASE j = n + 1
        BY <1>6, <1>7, <3>1, <3>3
      <3> QED
        BY <1>9, <3>2, <3>3
    <2>2. \A i \in 1..Len(buf'[p]) : /\ shd'[buf'[p][i].slot].num = buf'[p][i].num
                                     /\ buf'[p][i].slot \in sha'
                                     /\ buf'[p][i].num <= status'.last
      <3>1. \A i \in 1..n : Own(buf[p][i]) /\ buf[p][i].num <= status.last
        BY <1>5 DEF Buffer, n
      <3>2. \A i \in 1..Len(buf'[p]) : Own(buf'[p][i]) /\ buf'[p][i].num <= status.last
        BY <1>4, <1>6, <1>8, <1>9, <3>1
      <3> QED
        BY <1>1, <3>2 DEF files, Own
    <2>3. n <= pos[p] /\ pos[p] <= status.total /\ (hdrLock # p => n < pos[p])
      BY <1>5 DEF Buffer, n
    <2>4. /\ Len(buf'[p]) <= pos'[p] /\ pos'[p] <= status'.total
          /\ hdrLock' # p => Len(buf'[p]) < pos'[p]
      BY <1>1, <1>2, <1>4, <1>6, <2>3 DEF files, locks
    <2> QED
      BY <2>1, <2>2, <2>4 DEF Buffer, Own
  <1>12. Copied(p)'
    <2>0. /\ \A k \in 1..pos[p] :
               "delete" \notin sid[k].attr => \E i \in 1..n : buf[p][i] = sid[k]
          /\ \A i \in 1..n : \E k \in 1..pos[p] : sid[k] = buf[p][i]
      BY <1>5 DEF Copied, n
    <2>1. 1..n \subseteq 1..Len(buf'[p]) /\ n + 1 \in 1..Len(buf'[p])
      BY <1>2, <1>6
    <2>2. \A k \in 1..pos'[p] : k \in 1..pos[p] \/ k = pos[p] + 1
      BY <1>2, <1>6
    <2>3. 1..pos[p] \subseteq 1..pos'[p] /\ pos[p] + 1 \in 1..pos'[p]
      BY <1>2, <1>6
    <2>4. \A k \in 1..pos'[p] :
            "delete" \notin sid[k].attr => \E i \in 1..Len(buf'[p]) : buf'[p][i] = sid[k]
      BY <1>6, <2>0, <2>1, <2>2 DEF r
    <2>5. \A i \in 1..Len(buf'[p]) : \E k \in 1..pos'[p] : sid[k] = buf'[p][i]
      BY <1>6, <1>9, <2>0, <2>3 DEF r
    <2>6. pos'[p] <= Len(sid)
      BY <1>1, <1>2, <1>6
    <2> QED
      BY <1>1, <2>4, <2>5, <2>6 DEF Copied, files
  <1>13. pos'[p] >= pos[p]
    BY <1>2, <1>6
  <1> QED
    BY <1>1, <1>10, <1>11, <1>12, <1>13, ScanStep DEF Sorting

LEMMA PurgeDropUnreadInv ==
  ASSUME TypeInv, TypeInv', PurgeInv, NEW p \in Proc, PurgeDropUnread(p)
  PROVE  PurgeInv' /\ Safe
  <1>1. /\ pc[p] = "pg_scan" /\ pos[p] < Len(sid) /\ "delete" \in sid[pos[p] + 1].attr
        /\ pos' = [pos EXCEPT ![p] = pos[p] + 1]
        /\ UNCHANGED <<locks, files, pc, st, msg, buf>>
    BY DEF PurgeDropUnread, Scanning
  <1>2. /\ Len(buf[p]) \in Nat /\ pos[p] \in Nat /\ DOMAIN pos = Proc
        /\ Len(sid) \in Nat /\ status.last \in Nat /\ status.total \in Nat
    BY FileTypes, ScanTypes
  <1>3. Len(sid) = status.total
    BY <1>1, WhileSorting DEF Sorting
  <1>4. Buffer(p) /\ Copied(p)
    BY <1>1 DEF PurgeInv, Purger, Dropping, Sorting
  <1>5. pos'[p] = pos[p] + 1 /\ OnlyBy(p)
    BY <1>1, <1>2 DEF OnlyBy, locks
  <1>6. Buffer(p)'
    <2>1. /\ Len(buf[p]) <= pos'[p] /\ pos'[p] <= status.total
          /\ hdrLock # p => Len(buf[p]) < pos'[p]
      BY <1>1, <1>2, <1>3, <1>4, <1>5 DEF Buffer
    <2> QED
      BY <1>1, <1>4, <2>1 DEF Buffer, Own, Increasing, files, locks
  <1>7. Copied(p)'
    <2>1. \A k \in 1..pos'[p] : k \in 1..pos[p] \/ k = pos[p] + 1
      BY <1>2, <1>5
    <2>2. 1..pos[p] \subseteq 1..pos'[p] /\ pos'[p] <= Len(sid)
      BY <1>1, <1>2, <1>5
    <2> QED
      BY <1>1, <1>4, <2>1, <2>2 DEF Copied, files
  <1>8. pos'[p] >= pos[p]
    BY <1>2, <1>5
  <1> QED
    BY <1>1, <1>5, <1>6, <1>7, <1>8, ScanStep DEF Sorting

\* The lock on the base is given up, or was lost to someone else
LEMMA PurgeFreeDatInv ==
  ASSUME TypeInv, TypeInv', PurgeInv, NEW p \in Proc,
         PurgeFreeDat(p) \/ PurgeFreeDatTimeout(p)
  PROVE  PurgeInv' /\ Safe
  <1>1. /\ pc[p] = "pg_freedat"
        /\ \/ pc' = [pc EXCEPT ![p] = "pg_freehdr"] /\ hdrLock \in {None, p} /\ hdrLock' = None
           \/ pc' = [pc EXCEPT ![p] = "pg_scan"] /\ UNCHANGED hdrLock
        /\ UNCHANGED <<files, st, msg, buf, pos>>
    BY DEF PurgeFreeDat, PurgeFreeDatTimeout, Goto, locks, local
  <1>2. /\ pos[p] \in Nat /\ DOMAIN pc = Proc /\ None \notin Proc
    BY ScanTypes, SmbBaseAssumption DEF SmbBaseAssumption
  <1>3. Buffer(p) /\ Copied(p) /\ Freeing(p)
    BY <1>1 DEF PurgeInv, Purger, Dropping, Sorting
  <1>4. OnlyBy(p) /\ pc'[p] \in Sorting
    BY <1>1, <1>2 DEF OnlyBy, Sorting
  <1>5. Buffer(p)'
    BY <1>1, <1>3 DEF Buffer, Freeing, Own, Increasing, files
  <1>6. Copied(p)' /\ Freeing(p)'
    BY <1>1, <1>3 DEF Copied, Freeing, files
  <1>7. pos'[p] >= pos[p]
    BY <1>1, <1>2
  <1> QED
    BY <1>1, <1>4, <1>5, <1>6, <1>7, ScanStep DEF Sorting

-----------------------------------------------------------------------------
\* A step of p in its scan that changes headers and their allocation
LEMMA SortingStep ==
  ASSUME TypeInv, TypeInv', PurgeInv, NEW p \in Proc, OnlyBy(p), UNCHANGED <<status, sid>>,
         pc[p] \in Sorting, pc'[p] \in Sorting, st'[p] = st[p],
         \A s \in sha' : s <= shaEnd',
         \A k \in 1..Len(sid) :
             \/ Own(sid[k])'
             \/ /\ k <= pos'[p] /\ "delete" \in sid[k].attr
                /\ shd'[sid[k].slot].num = sid[k].num \/ shd'[sid[k].slot] = NoHdr,
         Buffer(p)', Copied(p)', pc'[p] \in {"pg_freedat", "pg_freehdr"} => Freeing(p)'
  PROVE  PurgeInv' /\ Safe
  <1>1. /\ pc'[p] \in Sorting /\ pc'[p] \in PgHa /\ pc[p] \in PgHa
        /\ pc'[p] \notin Adding \cup Ready /\ pc'[p] \notin Placing
        /\ pc'[p] \in Dropping
        /\ pc'[p] \notin {"pg_trunc", "pg_putstatus", "add_putstatus", "pg_da", "pg_ha"}
        /\ pc[p] \notin {"pg_trunc", "pg_putstatus", "add_putstatus"}
    BY DEF Sorting, Dropping, PgHa, Adding, Ready, Placing
  <1>2. \A q \in Proc \ {p} : pc[q] \notin PgHa /\ pc[q] \notin Placing
    BY WhileSorting
  <1>3. Held'
    BY <1>1, HeldStep DEF PurgeInv
  <1>4. IndexData'
    <2>1. Len(sid) = status.total /\ Increasing(sid)
      BY WhileSorting
    <2>2. \A k \in 1..Len(sid) : k <= status.total => sid[k].num <= status.last
      BY DEF PurgeInv, IndexData
    <2> QED
      BY <2>1, <2>2 DEF IndexData
  <1>5. HeaderData'
    BY <1>1 DEF HeaderData
  <1>6. ASSUME NEW q \in Proc \ {p} PROVE Poster(q)' /\ Purger(q)'
    <2>1. Poster(q) /\ Purger(q)
      BY DEF PurgeInv
    <2>2. Poster(q)'
      BY <1>2, <2>1 DEF Poster, OnlyBy, Placing
    <2>3. Purger(q)'
      BY <1>2, <2>1 DEF Purger, OnlyBy, PgHa, Dropping, Sorting
    <2> QED
      BY <2>2, <2>3
  <1>7. Poster(p)'
    BY <1>1 DEF Poster, Placing, Adding
  <1>8. Purger(p)'
    <2>1. st[p].last = status.last /\ st[p].total >= status.total
      BY DEF PurgeInv, Purger, Dropping
    <2> QED
      BY <1>1, <2>1 DEF Purger
  <1>9. Safe
    BY FileTypes DEF Safe
  <1> QED
    BY <1>3, <1>4, <1>5, <1>6, <1>7, <1>8, <1>9 DEF PurgeInv

\* The slot about to be freed is not that of a message that stays
LEMMA PurgeDropInv ==
  ASSUME FastBase, TypeInv, TypeInv', PurgeInv, NEW p \in Proc, PurgeDrop(p)
  PROVE  PurgeInv' /\ Safe
  <1> DEFINE s == sid[pos[p] + 1].slot
  <1>1. /\ pc[p] = "pg_scan" /\ pos[p] < Len(sid) /\ "delete" \in sid[pos[p] + 1].attr
        /\ shd[s] # NoHdr
        /\ msg' = [msg EXCEPT ![p] = NewMsg(0, s, 0)]
        /\ shd' = [shd EXCEPT ![s].attr = sid[pos[p] + 1].attr]
        /\ pos' = [pos EXCEPT ![p] = pos[p] + 1]
        /\ \E l \in {"pg_freedat", "pg_freehdr"} : pc' = [pc EXCEPT ![p] = l]
        /\ UNCHANGED <<locks, status, sid, sha, shaEnd, st, buf>>
    BY DEF PurgeDrop, Scanning, Goto, FastBase
  <1>2. /\ Len(buf[p]) \in Nat /\ pos[p] \in Nat
        /\ DOMAIN pos = Proc /\ DOMAIN pc = Proc /\ DOMAIN msg = Proc
        /\ Len(sid) \in Nat /\ status.last \in Nat /\ status.total \in Nat
        /\ \A k \in 1..Len(sid) : sid[k].num \in Nat /\ sid[k].slot \in Slots
        /\ \A i \in 1..Len(buf[p]) : buf[p][i].slot \in Slots
        /\ pos[p] + 1 \in 1..Len(sid)
    BY <1>1, FileTypes, ScanTypes
  <1>3. /\ Len(sid) = status.total /\ Increasing(sid)
        /\ \A k \in pos[p]+1..Len(sid) : Own(sid[k])
    BY <1>1, WhileSorting DEF Sorting
  <1>4. Buffer(p) /\ Copied(p)
    BY <1>1 DEF PurgeInv, Purger, Dropping, Sorting
  <1>5. /\ pos'[p] = pos[p] + 1 /\ OnlyBy(p) /\ msg'[p].slot = s
        /\ pc'[p] \in {"pg_freedat", "pg_freehdr"}
    BY <1>1, <1>2 DEF OnlyBy, locks, NewMsg
  <1>6. /\ \A x \in Slots : shd'[x].num = shd[x].num
        /\ \A x \in Slots : shd[x] = NoHdr => shd'[x] = NoHdr
    <2>1. shd \in [Slots -> Hdrs] /\ s \in Slots
      BY <1>2 DEF TypeInv, TypeOK
    <2> HIDE DEF s
    <2> QED
      BY <1>1, <2>1 DEF Hdrs
  <1>7. shd[s].num = sid[pos[p] + 1].num
    BY <1>2, <1>3 DEF Own
  <1>8. \A i \in 1..Len(buf[p]) : Own(buf[p][i]) /\ buf[p][i].slot # s
    <2> SUFFICES ASSUME NEW i \in 1..Len(buf[p]) PROVE Own(buf[p][i]) /\ buf[p][i].slot # s
      OBVIOUS
    <2>1. Own(buf[p][i])
      BY <1>4 DEF Buffer
    <2>2. PICK k \in 1..pos[p] : sid[k] = buf[p][i]
      BY <1>4 DEF Copied
    <2>3. k \in 1..Len(sid) /\ k < pos[p] + 1
      BY <1>1, <1>2
    <2>4. sid[k].num < sid[pos[p] + 1].num
      BY <1>2, <1>3, <2>3 DEF Increasing
    <2>5. sid[k].num # sid[pos[p] + 1].num
      BY <1>2, <2>3, <2>4
    <2> QED
      BY <1>7, <2>1, <2>2, <2>5 DEF Own
  <1>9. \A k \in pos[p]+2..Len(sid) : sid[k].slot # s
    <2> SUFFICES ASSUME NEW k \in pos[p]+2..Len(sid) PROVE sid[k].slot # s
      OBVIOUS
    <2>1. k \in 1..Len(sid) /\ k \in pos[p]+1..Len(sid) /\ pos[p] + 1 < k
      BY <1>2
    <2>2. sid[pos[p] + 1].num < sid[k].num
      BY <1>2, <1>3, <2>1 DEF Increasing
    <2>3. sid[pos[p] + 1].num # sid[k].num
      BY <1>2, <2>1, <2>2
    <2> QED
      BY <1>3, <1>7, <2>1, <2>3 DEF Own
  <1>10. \A k \in 1..Len(sid) :
             \/ Own(sid[k])'
             \/ /\ k <= pos'[p] /\ "delete" \in sid[k].attr
                /\ shd'[sid[k].slot].num = sid[k].num \/ shd'[sid[k].slot] = NoHdr
    <2> SUFFICES ASSUME NEW k \in 1..Len(sid), ~Own(sid[k])
                 PROVE  /\ k <= pos'[p] /\ "delete" \in sid[k].attr
                        /\ shd'[sid[k].slot].num = sid[k].num \/ shd'[sid[k].slot] = NoHdr
      BY <1>1, <1>2, <1>6 DEF Own
    <2>1. PICK q \in Proc :
            /\ pc[q] \in Dropping /\ k <= pos[q]
            /\ "delete" \in sid[k].attr
            /\ shd[sid[k].slot].num = sid[k].num \/ shd[sid[k].slot] = NoHdr
      BY DEF PurgeInv, HeaderData
    <2>2. q = p
      BY <1>1, <2>1, WhileSorting DEF Sorting, Dropping, PgHa
    <2>3. k <= pos'[p]
      BY <1>2, <1>5, <2>1, <2>2
    <2> QED
      BY <1>2, <1>6, <2>1, <2>3
  <1> HIDE DEF s
  <1>11. Buffer(p)'
    <2>1. /\ Len(buf[p]) <= pos'[p] /\ pos'[p] <= status.total
          /\ hdrLock # p => Len(buf[p]) < pos'[p]
      BY <1>1, <1>2, <1>3, <1>4, <1>5 DEF Buffer
    <2> QED
      BY <1>1, <1>2, <1>4, <1>6, <1>8, <2>1 DEF Buffer, Own, Increasing, locks
  <1>12. Copied(p)'
    <2>1. \A k \in 1..pos'[p] : k \in 1..pos[p] \/ k = pos[p] + 1
      BY <1>2, <1>5
    <2>2. 1..pos[p] \subseteq 1..pos'[p] /\ pos'[p] <= Len(sid)
      BY <1>1, <1>2, <1>5
    <2> QED
      BY <1>1, <1>4, <2>1, <2>2 DEF Copied
  <1>13. Freeing(p)'
    <2>1. Len(buf[p]) < pos'[p]
      BY <1>2, <1>4, <1>5 DEF Buffer
    <2>2. \A k \in pos'[p]+1..Len(sid) : k \in pos[p]+2..Len(sid)
      BY <1>2, <1>5
    <2> QED
      BY <1>1, <1>5, <1>8, <1>9, <2>1, <2>2 DEF Freeing
  <1>14. \A x \in sha' : x <= shaEnd'
    BY <1>1 DEF PurgeInv, IndexData
  <1> QED
    BY <1>1, <1>5, <1>10, <1>11, <1>12, <1>13, <1>14, SortingStep DEF Sorting

LEMMA PurgeFreeHdrInv ==
  ASSUME TypeInv, TypeInv', PurgeInv, NEW p \in Proc, PurgeFreeHdr(p)
  PROVE  PurgeInv' /\ Safe
  <1> DEFINE s == msg[p].slot
  <1>1. /\ pc[p] = "pg_freehdr" /\ sha' = sha \ {s}
        /\ \/ /\ shaEnd <= s /\ shaEnd' = s - 1
              /\ shd' = [x \in Slots |-> IF x < s THEN shd[x] ELSE NoHdr]
           \/ UNCHANGED <<shaEnd, shd>>
        /\ pc' = [pc EXCEPT ![p] = "pg_scan"]
        /\ UNCHANGED <<locks, status, sid, st, msg, buf, pos>>
    BY DEF PurgeFreeHdr, Goto, local
  <1>2. /\ s \in Nat /\ sha \subseteq Nat /\ shaEnd \in Nat
        /\ Slots \subseteq Nat /\ sha \subseteq Slots
        /\ pos[p] \in Nat /\ DOMAIN pc = Proc /\ Len(sid) \in Nat
        /\ \A k \in 1..Len(sid) : sid[k].slot \in Slots
        /\ \A i \in 1..Len(buf[p]) : buf[p][i].slot \in Slots
    <2>1. s \in Slots /\ sha \subseteq Slots /\ shaEnd \in Nat
      BY <1>1 DEF TypeInv, TypeOK
    <2> QED
      BY <2>1, FileTypes, ScanTypes, SmbBaseAssumption DEF SmbBaseAssumption
  <1>3. Buffer(p) /\ Copied(p) /\ Freeing(p)
    BY <1>1 DEF PurgeInv, Purger, Dropping, Sorting
  <1>4. OnlyBy(p) /\ pc'[p] = "pg_scan"
    BY <1>1, <1>2 DEF OnlyBy, locks
  <1>5. \A x \in sha : x <= shaEnd
    BY DEF PurgeInv, IndexData
  <1> HIDE DEF s
  <1>6. \A x \in sha' : x <= shaEnd'
    BY <1>1, <1>2, <1>5
  \* what is not cut off is as it was
  <1>7. \A x \in Slots : shd'[x] = shd[x] \/ shd'[x] = NoHdr
    BY <1>1
  <1>8. \A x \in sha \ {s} : x \in sha' /\ shd'[x] = shd[x]
    <2> SUFFICES ASSUME NEW x \in sha \ {s} PROVE x \in sha' /\ shd'[x] = shd[x]
      OBVIOUS
    <2>1. x \in sha' /\ x \in Slots /\ x <= shaEnd /\ x # s /\ x \in Nat
      BY <1>1, <1>2, <1>5
    <2>2. shaEnd <= s => x < s
      BY <1>2, <2>1
    <2> QED
      BY <1>1, <2>1, <2>2
  <1>9. \A i \in 1..Len(buf[p]) : buf[p][i].slot # s
    BY <1>3 DEF Freeing, s
  <1>10. \A k \in 1..Len(sid) : sid[k].slot = s => k <= pos[p] /\ "delete" \in sid[k].attr
    <2> SUFFICES ASSUME NEW k \in 1..Len(sid), sid[k].slot = s
                 PROVE  k <= pos[p] /\ "delete" \in sid[k].attr
      OBVIOUS
    <2>1. k \notin pos[p]+1..Len(sid)
      BY <1>3 DEF Freeing, s
    <2>2. k <= pos[p] /\ k \in 1..pos[p]
      BY <1>2, <2>1
    <2> QED
      BY <1>3, <1>9, <2>2 DEF Copied
  <1>11. \A k \in 1..Len(sid) :
             \/ Own(sid[k])'
             \/ /\ k <= pos'[p] /\ "delete" \in sid[k].attr
                /\ shd'[sid[k].slot].num = sid[k].num \/ shd'[sid[k].slot] = NoHdr
    <2> SUFFICES ASSUME NEW k \in 1..Len(sid)
                 PROVE  \/ shd'[sid[k].slot].num = sid[k].num /\ sid[k].slot \in sha'
                        \/ /\ k <= pos[p] /\ "delete" \in sid[k].attr
                           /\ shd'[sid[k].slot].num = sid[k].num \/ shd'[sid[k].slot] = NoHdr
      BY <1>1 DEF Own
    <2>1. CASE Own(sid[k]) /\ sid[k].slot # s
      BY <1>8, <2>1 DEF Own
    <2>2. CASE Own(sid[k]) /\ sid[k].slot = s
      BY <1>2, <1>7, <1>10, <2>2 DEF Own
    <2>3. CASE ~Own(sid[k])
      <3>1. PICK q \in Proc :
              /\ pc[q] \in Dropping /\ k <= pos[q]
              /\ "delete" \in sid[k].attr
              /\ shd[sid[k].slot].num = sid[k].num \/ shd[sid[k].slot] = NoHdr
        BY <2>3 DEF PurgeInv, HeaderData
      <3>2. q = p
        BY <1>1, <3>1, WhileSorting DEF Sorting, Dropping, PgHa
      <3> QED
        BY <1>2, <1>7, <3>1, <3>2
    <2> QED
      BY <2>1, <2>2, <2>3
  <1>12. Buffer(p)'
    <2>1. \A i \in 1..Len(buf[p]) : Own(buf[p][i])
      BY <1>3 DEF Buffer
    <2>2. \A i \in 1..Len(buf[p]) : /\ shd'[buf[p][i].slot].num = buf[p][i].num
                                    /\ buf[p][i].slot \in sha'
      BY <1>8, <1>9, <2>1 DEF Own
    <2> QED
      BY <1>1, <1>3, <2>2 DEF Buffer, Own, Increasing, locks
  <1>13. Copied(p)'
    BY <1>1, <1>3 DEF Copied
  <1>14. pc'[p] \in Sorting /\ pc[p] \in Sorting /\ st'[p] = st[p]
    BY <1>1, <1>4 DEF Sorting
  <1> QED
    BY <1>1, <1>4, <1>6, <1>11, <1>12, <1>13, <1>14, SortingStep

-----------------------------------------------------------------------------
\* The rewriting of the index.

\* What the others know while p has the .sha file
LEMMA AlonePurging ==
  ASSUME TypeInv, PurgeInv, NEW p \in Proc, OnlyBy(p), pc[p] \in PgHa,
         status'.last = status.last, status'.total \in Nat, status'.total <= status.total,
         \A q \in Proc \ {p} : pc[q] = "add_alloc" =>
             \/ msg[q].off > Len(sid')
             \/ Len(sid') = Len(sid) /\ UNCHANGED status
  PROVE  \A q \in Proc \ {p} : Poster(q)' /\ Purger(q)'
  <1> SUFFICES ASSUME NEW q \in Proc \ {p} PROVE Poster(q)' /\ Purger(q)'
    OBVIOUS
  <1>1. pc[q] \notin PgHa /\ pc[q] \notin Placing
    BY DEF TypeInv, HaHeld, PurgeInv, Held
  <1>2. Poster(q) /\ Purger(q)
    BY DEF PurgeInv
  <1>3. msg[q].off \in Nat /\ st[q].total \in Nat /\ status.total \in Nat
    <2>1. msg[q] \in Msgs
      BY DEF TypeInv, TypeOK
    <2> QED
      BY <2>1, FileTypes, ScanTypes DEF Msgs
  <1>4. Poster(q)'
    <2>1. CASE pc[q] = "add_alloc" /\ msg[q].off > Len(sid')
      <3>1. Len(sid') \in Nat => msg[q].off >= Len(sid') /\ msg[q].off # Len(sid')
        BY <1>3, <2>1
      <3>2. CASE Len(sid') \in Nat
        BY <1>1, <2>1, <3>1, <3>2 DEF Poster, OnlyBy, Placing
      <3>3. CASE Len(sid') \notin Nat
        BY <1>1, <1>3, <2>1 DEF Poster, OnlyBy, Placing
      <3> QED
        BY <3>2, <3>3
    <2>2. CASE pc[q] = "add_alloc" /\ Len(sid') = Len(sid) /\ UNCHANGED status
      BY <1>1, <1>2, <2>2 DEF Poster, OnlyBy, Placing
    <2>3. CASE pc[q] # "add_alloc"
      BY <1>1, <2>3 DEF Poster, OnlyBy, Placing
    <2> QED
      BY <2>1, <2>2, <2>3
  <1>5. Purger(q)'
    <2>1. st[q].total >= status.total => st[q].total >= status'.total
      BY <1>3
    <2> QED
      BY <1>1, <1>2, <2>1 DEF Purger, OnlyBy, PgHa, Dropping, Sorting
  <1> QED
    BY <1>4, <1>5

LEMMA Overwrite ==
  ASSUME NEW b \in Seq(IdxRecs), NEW s \in Seq(IdxRecs), Len(b) <= Len(s)
  PROVE  LET t == b \o SubSeq(s, Len(b) + 1, Len(s))
         IN  /\ Len(t) = Len(s)
             /\ \A i \in 1..Len(b) : t[i] = b[i]
             /\ \A i \in Len(b)+1..Len(s) : t[i] = s[i]
  <1> DEFINE u == SubSeq(s, Len(b) + 1, Len(s))
  <1>1. Len(b) \in Nat /\ Len(s) \in Nat
    OBVIOUS
  <1>2. u \in Seq(IdxRecs) /\ Len(u) = Len(s) - Len(b)
        /\ \A i \in 1..Len(u) : u[i] = s[Len(b) + i]
    BY <1>1
  <1> HIDE DEF u
  <1>3. Len(b \o u) = Len(s)
    BY <1>1, <1>2
  <1>4. \A i \in 1..Len(s) : (b \o u)[i] = IF i <= Len(b) THEN b[i] ELSE u[i - Len(b)]
    BY <1>1, <1>2
  <1>5. \A i \in Len(b)+1..Len(s) : i \in 1..Len(s) /\ ~(i <= Len(b))
                                    /\ i - Len(b) \in 1..Len(u) /\ Len(b) + (i - Len(b)) = i
    BY <1>1, <1>2
  <1>6. \A i \in Len(b)+1..Len(s) : (b \o u)[i] = s[i]
    BY <1>2, <1>4, <1>5
  <1>7. \A i \in 1..Len(b) : (b \o u)[i] = b[i]
    BY <1>1, <1>4
  <1> QED
    BY <1>3, <1>6, <1>7 DEF u

LEMMA PurgeWriteInv ==
  ASSUME TypeInv, TypeInv', PurgeInv, NEW p \in Proc, PurgeWrite(p)
  PROVE  PurgeInv' /\ Safe
  <1> DEFINE n == Len(buf[p])
  <1>1. /\ pc[p] = "pg_scan" /\ ~(pos[p] < Len(sid) /\ n < st[p].total)
        /\ sid' = buf[p] \o SubSeq(sid, n + 1, Len(sid))
        /\ pc' = [pc EXCEPT ![p] = "pg_trunc"]
        /\ UNCHANGED <<locks, status, shd, sha, shaEnd, st, msg, buf, pos>>
    BY DEF PurgeWrite, Scanning, Goto, local
  <1>2. /\ n \in Nat /\ pos[p] \in Nat /\ Len(sid) \in Nat /\ status.total \in Nat
        /\ status.last \in Nat /\ st[p].total \in Nat
        /\ DOMAIN pc = Proc /\ buf[p] \in Seq(IdxRecs) /\ sid \in Seq(IdxRecs)
    BY FileTypes, ScanTypes
  <1>3. /\ Len(sid) = status.total
        /\ \A q \in Proc \ {p} : pc[q] \notin PgHa
    BY <1>1, WhileSorting DEF Sorting
  <1>4. /\ Buffer(p) /\ Copied(p)
        /\ st[p].last = status.last /\ st[p].total >= status.total
    BY <1>1 DEF PurgeInv, Purger, Dropping, Sorting
  <1>5. n <= pos[p] /\ pos[p] = Len(sid)
    <2>1. n <= pos[p] /\ pos[p] <= status.total
      BY <1>4 DEF Buffer
    <2> QED
      BY <1>1, <1>2, <1>3, <1>4, <2>1
  <1>6. /\ Len(sid') = Len(sid)
        /\ \A i \in 1..n : sid'[i] = buf[p][i]
        /\ \A i \in n+1..Len(sid) : sid'[i] = sid[i]
    BY <1>1, <1>2, <1>5, Overwrite
  <1>7. OnlyBy(p) /\ pc'[p] = "pg_trunc"
    BY <1>1, <1>2 DEF OnlyBy, locks
  <1>8. /\ \A k \in 1..Len(sid) : "delete" \notin sid[k].attr =>
             \E i \in 1..n : buf[p][i] = sid[k]
        /\ \A i \in 1..n : \E k \in 1..Len(sid) : sid[k] = buf[p][i]
    BY <1>4, <1>5 DEF Copied
  <1>9. \A i \in 1..n : shd[buf[p][i].slot].num = buf[p][i].num
                        /\ buf[p][i].slot \in sha /\ buf[p][i].num <= status.last
    BY <1>4 DEF Buffer, Own
  <1> HIDE DEF n
  <1>10. \A k \in 1..Len(sid) : k \in 1..n \/ k \in n+1..Len(sid)
    BY <1>2
  <1>11. 1..n \subseteq 1..Len(sid)
    BY <1>2, <1>5
  <1>12. Held'
    BY <1>1, <1>7, HeldStep DEF PurgeInv, Adding, Ready, Placing, PgHa
  <1>13. IndexData'
    <2>1. \A k \in 1..Len(sid) : k <= status.total => sid[k].num <= status.last
      BY DEF PurgeInv, IndexData
    <2>2. \A k \in 1..Len(sid) : k <= status.total => sid'[k].num <= status.last
      BY <1>6, <1>9, <1>10, <2>1
    <2>3. \A x \in sha : x <= shaEnd
      BY DEF PurgeInv, IndexData
    <2> QED
      BY <1>1, <1>3, <1>6, <1>7, <2>2, <2>3 DEF IndexData
  <1>14. HeaderData'
    <2> SUFFICES ASSUME NEW k \in 1..Len(sid)
                 PROVE  \/ shd[sid'[k].slot].num = sid'[k].num /\ sid'[k].slot \in sha
                        \/ /\ k <= pos[p] /\ "delete" \in sid'[k].attr
                           /\ shd[sid'[k].slot].num = sid'[k].num \/ shd[sid'[k].slot] = NoHdr
      BY <1>1, <1>6, <1>7 DEF HeaderData, Own, Dropping
    <2>1. CASE k \in 1..n
      BY <1>6, <1>9, <2>1
    <2>2. CASE k \in n+1..Len(sid)
      <3>1. CASE Own(sid[k])
        BY <1>6, <2>2, <3>1 DEF Own
      <3>2. CASE ~Own(sid[k])
        <4>1. PICK q \in Proc :
                /\ pc[q] \in Dropping /\ k <= pos[q]
                /\ "delete" \in sid[k].attr
                /\ shd[sid[k].slot].num = sid[k].num \/ shd[sid[k].slot] = NoHdr
          BY <3>2 DEF PurgeInv, HeaderData
        <4>2. q = p
          BY <1>3, <4>1 DEF Sorting, Dropping, PgHa
        <4> QED
          BY <1>6, <2>2, <4>1, <4>2
      <3> QED
        BY <3>1, <3>2
    <2> QED
      BY <1>10, <2>1, <2>2
  <1>15. \A q \in Proc \ {p} : Poster(q)' /\ Purger(q)'
    <2>1. pc[p] \in PgHa /\ UNCHANGED status /\ status.total <= status.total
      BY <1>1, <1>2 DEF PgHa
    <2>2. Len(sid') = Len(sid)
      BY <1>6
    <2> QED
      BY <1>2, <1>7, <2>1, <2>2, AlonePurging
  <1>16. Poster(p)'
    BY <1>7 DEF Poster
  <1>17. Copied(p)'
    <2>1. \A k \in 1..Len(sid) : "delete" \notin sid'[k].attr =>
             \E i \in 1..n : buf[p][i] = sid'[k]
      BY <1>6, <1>8, <1>10
    <2>2. \A i \in 1..n : \E k \in 1..Len(sid) : sid'[k] = buf[p][i]
      BY <1>6, <1>11
    <2>3. buf'[p] = buf[p] /\ pos'[p] = Len(sid) /\ Len(sid') = Len(sid)
      BY <1>1, <1>5, <1>6
    <2> QED
      BY <1>2, <2>1, <2>2, <2>3 DEF Copied, n
  <1>18. Buffer(p)'
    BY <1>1, <1>4 DEF Buffer, Own, Increasing, locks
  <1>19. Purger(p)'
    BY <1>1, <1>4, <1>5, <1>6, <1>7, <1>17, <1>18 DEF Purger, Dropping, Sorting, PgHa, n
  <1>20. Safe
    <2>1. \A k \in 1..Len(sid) : "delete" \notin sid[k].attr =>
            \E j \in 1..Len(sid') : sid'[j].num = sid[k].num
      BY <1>6, <1>8, <1>11
    <2>2. \A j \in 1..Len(sid') : \E k \in 1..Len(sid) : sid'[j] = sid[k]
      BY <1>6, <1>8, <1>10
    <2>3. status'.last >= status.last
      BY <1>1, <1>2
    <2>4. \A j \in 1..Len(sid') : \E k \in 1..Len(sid) : sid[k].num = sid'[j].num
      BY <2>2
    <2> QED
      BY <2>1, <2>3, <2>4 DEF Safe
  <1> QED
    BY <1>12, <1>13, <1>14, <1>15, <1>16, <1>19, <1>20 DEF PurgeInv

\* A post that has read the status of the longer index writes past its end
LEMMA PurgeTruncateInv ==
  ASSUME TypeInv, TypeInv', PurgeInv, NEW p \in Proc, PurgeTruncate(p)
  PROVE  PurgeInv' /\ Safe
  <1> DEFINE n == Len(buf[p])
  <1>1. /\ pc[p] = "pg_trunc" /\ sid' = SubSeq(sid, 1, n)
        /\ pc' = [pc EXCEPT ![p] = "pg_putstatus"]
        /\ UNCHANGED <<locks, status, shd, sha, shaEnd, st, msg, buf, pos>>
    BY DEF PurgeTruncate, Goto, local
  <1>2. /\ n \in Nat /\ pos[p] \in Nat /\ Len(sid) \in Nat /\ status.total \in Nat
        /\ status.last \in Nat
        /\ DOMAIN pc = Proc /\ buf[p] \in Seq(IdxRecs) /\ sid \in Seq(IdxRecs)
    BY FileTypes, ScanTypes
  <1>3. /\ Buffer(p) /\ Copied(p)
        /\ st[p].last = status.last /\ st[p].total >= status.total
        /\ pos[p] = Len(sid)
        /\ \A i \in 1..n : sid[i] = buf[p][i]
    BY <1>1 DEF PurgeInv, Purger, Dropping, Sorting
  <1>4. n <= Len(sid) /\ (hdrLock # p => n < Len(sid))
    BY <1>3 DEF Buffer
  <1>5. Len(sid') = n /\ sid' = buf[p]
    BY <1>1, <1>2, <1>3, <1>4
  <1>6. OnlyBy(p) /\ pc'[p] = "pg_putstatus"
    BY <1>1, <1>2 DEF OnlyBy, locks
  <1>7. /\ \A k \in 1..Len(sid) : "delete" \notin sid[k].attr =>
             \E i \in 1..n : buf[p][i] = sid[k]
        /\ \A i \in 1..n : \E k \in 1..Len(sid) : sid[k] = buf[p][i]
    BY <1>3 DEF Copied
  <1>8. Increasing(buf[p]) /\ \A i \in 1..n : Own(buf[p][i]) /\ buf[p][i].num <= status.last
    BY <1>3 DEF Buffer
  <1> HIDE DEF n
  <1>9. Held'
    BY <1>1, <1>6, HeldStep DEF PurgeInv, Adding, Ready, Placing, PgHa
  <1>10. IndexData'
    <2>1. \A x \in sha : x <= shaEnd
      BY DEF PurgeInv, IndexData
    <2> QED
      BY <1>1, <1>5, <1>6, <1>8, <2>1 DEF IndexData, Increasing
  <1>11. HeaderData'
    BY <1>1, <1>5, <1>8 DEF HeaderData, Own
  <1>12. \A q \in Proc \ {p} : Poster(q)' /\ Purger(q)'
    <2>1. ASSUME NEW q \in Proc \ {p}, pc[q] = "add_alloc" PROVE msg[q].off > Len(sid')
      <3>1. hdrLock = q
        BY <2>1 DEF PurgeInv, Held, Adding
      <3>2. msg[q].off >= Len(sid)
        BY <2>1 DEF PurgeInv, Poster
      <3>3. msg[q].off \in Nat
        <4>1. msg[q] \in Msgs
          BY DEF TypeInv, TypeOK
        <4> QED
          BY <4>1 DEF Msgs
      <3> QED
        BY <1>2, <1>4, <1>5, <3>1, <3>2, <3>3
    <2> QED
      BY <1>1, <1>2, <1>6, <2>1, AlonePurging DEF PgHa
  <1>13. Poster(p)'
    BY <1>6 DEF Poster
  <1>14. Buffer(p)'
    BY <1>1, <1>3 DEF Buffer, Own, Increasing, locks
  <1>15. Purger(p)'
    BY <1>1, <1>3, <1>5, <1>6, <1>14 DEF Purger, Dropping, Sorting, PgHa
  <1>16. Safe
    <2>1. \A k \in 1..Len(sid) : "delete" \notin sid[k].attr =>
            \E j \in 1..Len(sid') : sid'[j].num = sid[k].num
      BY <1>5, <1>7
    <2>2. \A j \in 1..Len(sid') : \E k \in 1..Len(sid) : sid'[j] = sid[k]
      BY <1>5, <1>7
    <2>3. status'.last >= status.last
      BY <1>1, <1>2
    <2>4. \A j \in 1..Len(sid') : \E k \in 1..Len(sid) : sid[k].num = sid'[j].num
      BY <2>2
    <2> QED
      BY <2>1, <2>3, <2>4 DEF Safe
  <1> QED
    BY <1>9, <1>10, <1>11, <1>12, <1>13, <1>15, <1>16 DEF PurgeInv

LEMMA PurgePutStatusInv ==
  ASSUME TypeInv, TypeInv', PurgeInv, NEW p \in Proc, PurgePutStatus(p)
  PROVE  PurgeInv' /\ Safe
  <1> DEFINE n == Len(buf[p])
  <1>1. /\ pc[p] = "pg_putstatus" /\ status' = [last |-> st[p].last, total |-> n]
        /\ pc' = [pc EXCEPT ![p] = "pg_close"]
        /\ UNCHANGED <<locks, sid, shd, sha, shaEnd, st, msg, buf, pos>>
    BY DEF PurgePutStatus, Goto, local
  <1>2. /\ n \in Nat /\ pos[p] \in Nat /\ status.total \in Nat /\ status.last \in Nat
        /\ DOMAIN pc = Proc
    BY FileTypes, ScanTypes
  <1>3. /\ Buffer(p) /\ st[p].last = status.last /\ sid = buf[p]
    BY <1>1 DEF PurgeInv, Purger
  <1>4. n <= status.total /\ (hdrLock # p => n < status.total)
    BY <1>2, <1>3 DEF Buffer
  <1>5. OnlyBy(p) /\ pc'[p] = "pg_close" /\ status'.last = status.last /\ status'.total = n
    BY <1>1, <1>2, <1>3 DEF OnlyBy, locks
  <1>6. Len(sid) = n /\ Increasing(sid)
        /\ \A i \in 1..n : Own(sid[i]) /\ sid[i].num <= status.last
    BY <1>3 DEF Buffer
  <1> HIDE DEF n
  <1>7. Held'
    BY <1>1, <1>5, HeldStep DEF PurgeInv, Adding, Ready, Placing, PgHa
  <1>8. IndexData'
    <2>1. \A x \in sha : x <= shaEnd
      BY DEF PurgeInv, IndexData
    <2> QED
      BY <1>1, <1>5, <1>6, <2>1 DEF IndexData, Increasing
  <1>9. HeaderData'
    BY <1>1, <1>6 DEF HeaderData, Own
  <1>10. \A q \in Proc \ {p} : Poster(q)' /\ Purger(q)'
    <2>1. ASSUME NEW q \in Proc \ {p}, pc[q] = "add_alloc" PROVE msg[q].off > Len(sid')
      <3>1. hdrLock = q
        BY <2>1 DEF PurgeInv, Held, Adding
      <3>2. msg[q].off >= Len(sid) /\ (msg[q].off = Len(sid) => status.total = Len(sid))
        BY <2>1 DEF PurgeInv, Poster
      <3>3. msg[q].off \in Nat
        <4>1. msg[q] \in Msgs
          BY DEF TypeInv, TypeOK
        <4> QED
          BY <4>1 DEF Msgs
      <3> QED
        BY <1>1, <1>2, <1>4, <1>6, <3>1, <3>2, <3>3
    <2> QED
      BY <1>1, <1>2, <1>4, <1>5, <2>1, AlonePurging DEF PgHa
  <1>11. Poster(p)' /\ Purger(p)'
    BY <1>5 DEF Poster, Purger, Dropping, Sorting, PgHa
  <1>12. Safe
    BY <1>1, <1>2, <1>5 DEF Safe
  <1> QED
    BY <1>7, <1>8, <1>9, <1>10, <1>11, <1>12 DEF PurgeInv

-----------------------------------------------------------------------------
\* The steps of a post that place its message.

\* While p has the base locked and nobody has the .sha file, p is alone, and
\* every record has its own header
LEMMA WhilePlacing ==
  ASSUME TypeInv, PurgeInv, NEW p \in Proc, pc[p] \in Adding,
         \A q \in Proc : pc[q] \notin PgHa
  PROVE  /\ \A q \in Proc \ {p} : pc[q] \notin Adding \cup Ready
         /\ Increasing(sid)
         /\ \A k \in 1..Len(sid) : Own(sid[k])
         /\ pc[p] # "add_putstatus" => Len(sid) = status.total
  <1>1. \A q \in Proc \ {p} : pc[q] \notin Adding \cup Ready
    BY DEF PurgeInv, Held
  <1>2. \A q \in Proc : pc[q] \notin Dropping \cup {"pg_trunc", "pg_putstatus"}
    BY DEF PgHa, Dropping, Sorting
  <1>3. Increasing(sid)
    BY <1>2 DEF PurgeInv, IndexData
  <1>4. \A k \in 1..Len(sid) : Own(sid[k])
    BY <1>2 DEF PurgeInv, HeaderData
  <1>5. pc[p] # "add_putstatus" => Len(sid) = status.total
    BY <1>1, <1>2 DEF PurgeInv, IndexData, Adding
  <1> QED
    BY <1>1, <1>3, <1>4, <1>5

LEMMA PlacingStep ==
  ASSUME TypeInv, PurgeInv, NEW p \in Proc, OnlyBy(p), pc[p] \in Adding,
         \A q \in Proc : pc[q] \notin PgHa,
         pc'[p] \in Placing \cup {"unlock"}, UNCHANGED hdrLock, UNCHANGED <<buf, pos>>,
         IndexData', Poster(p)',
         \A k \in 1..Len(sid') :
             shd'[sid'[k].slot].num = sid'[k].num /\ sid'[k].slot \in sha'
  PROVE  PurgeInv'
  <1>1. \A q \in Proc \ {p} : pc[q] \notin Adding \cup Ready
    BY WhilePlacing
  <1>2. /\ hdrLock = p
        /\ pc'[p] \notin PgHa \cup Ready \cup Dropping
        /\ pc'[p] \notin {"pg_da", "pg_ha", "pg_putstatus"}
        /\ pc[p] \notin PgHa \cup {"unlock"}
    BY DEF PurgeInv, Held, Adding, Placing, PgHa, Ready, Dropping, Sorting
  <1>3. Held'
    BY <1>2, HeldStep DEF PurgeInv
  <1>4. HeaderData'
    BY DEF HeaderData, Own
  <1>5. ASSUME NEW q \in Proc \ {p} PROVE Poster(q)' /\ Purger(q)'
    <2>1. Poster(q)'
      BY <1>1 DEF Poster, OnlyBy, Adding
    <2>2. pc[q] \notin {"pg_da", "pg_ha", "pg_putstatus"} \cup Dropping
      BY <1>1 DEF Ready, PgHa, Dropping, Sorting
    <2>3. Purger(q)'
      BY <2>2 DEF PurgeInv, Purger, OnlyBy, Dropping, Sorting
    <2> QED
      BY <2>1, <2>3
  <1>6. Purger(p)'
    BY <1>2 DEF PurgeInv, Purger, Dropping, Sorting
  <1> QED
    BY <1>3, <1>4, <1>5, <1>6 DEF PurgeInv

LEMMA AddAllocInv ==
  ASSUME FastBase, TypeInv, TypeInv', PurgeInv, NEW p \in Proc, AddAlloc(p)
  PROVE  PurgeInv' /\ Safe
  <1>1. PICK s \in Slots \ sha :
          /\ msg' = [msg EXCEPT ![p].slot = s]
          /\ sha' = sha \cup {s}
          /\ shaEnd' = IF s <= shaEnd THEN shaEnd ELSE s
    BY DEF AddAlloc, FreeSlots, FastBase
  <1>2. /\ pc[p] = "add_alloc" /\ haLock = None
        /\ pc' = [pc EXCEPT ![p] = "add_puthdr"]
        /\ UNCHANGED <<locks, status, sid, shd, st, buf, pos>>
    BY DEF AddAlloc, Goto, FastBase
  <1>3. /\ DOMAIN pc = Proc /\ DOMAIN msg = Proc /\ msg[p] \in Msgs
        /\ Slots \subseteq Nat /\ sha \subseteq Nat /\ shaEnd \in Nat
    BY SmbBaseAssumption DEF SmbBaseAssumption, TypeInv, TypeOK
  <1>4. \A q \in Proc : pc[q] \notin PgHa
    BY <1>2, SmbBaseAssumption DEF SmbBaseAssumption, TypeInv, HaHeld
  <1>5. pc[p] \in Adding
    BY <1>2 DEF Adding
  <1>6. /\ Increasing(sid) /\ Len(sid) = status.total
        /\ \A k \in 1..Len(sid) : Own(sid[k])
    BY <1>2, <1>4, <1>5, WhilePlacing
  <1>7. /\ msg'[p].slot = s /\ msg'[p].off = msg[p].off /\ msg'[p].num = msg[p].num
        /\ pc'[p] = "add_puthdr" /\ OnlyBy(p)
    BY <1>1, <1>2, <1>3 DEF Msgs, OnlyBy, locks
  <1>8. IndexData'
    <2>1. /\ \A k \in 1..Len(sid) : k <= status.total => sid[k].num <= status.last
          /\ \A x \in sha : x <= shaEnd
      BY DEF PurgeInv, IndexData
    <2>2. \A x \in sha' : x <= shaEnd'
      BY <1>1, <1>3, <2>1
    <2> QED
      BY <1>2, <1>6, <2>1, <2>2 DEF IndexData, Increasing
  <1>9. Poster(p)'
    <2>1. /\ msg[p].off >= Len(sid)
          /\ msg[p].off = Len(sid) =>
               /\ status.total = Len(sid) /\ st[p] = status
               /\ msg[p].num = status.last + 1
      BY <1>2 DEF PurgeInv, Poster
    <2>2. \A k \in 1..Len(sid) : sid[k].slot # s
      BY <1>6 DEF Own
    <2> QED
      BY <1>1, <1>2, <1>7, <2>1, <2>2 DEF Poster
  <1>10. \A k \in 1..Len(sid') : shd'[sid'[k].slot].num = sid'[k].num /\ sid'[k].slot \in sha'
    BY <1>1, <1>2, <1>6 DEF Own
  <1>11. PurgeInv'
    BY <1>2, <1>4, <1>5, <1>7, <1>8, <1>9, <1>10, PlacingStep DEF locks, Placing
  <1>12. Safe
    BY <1>2, FileTypes DEF Safe
  <1> QED
    BY <1>11, <1>12

LEMMA AddPutHdrInv ==
  ASSUME TypeInv, TypeInv', PurgeInv, NEW p \in Proc, AddPutHdr(p)
  PROVE  PurgeInv' /\ Safe
  <1> DEFINE s == msg[p].slot
             h == [num |-> msg[p].num, attr |-> msg[p].attr]
  <1>1. /\ pc[p] = "add_puthdr"
        /\ shd' = [shd EXCEPT ![s] = h]
        /\ pc' = [pc EXCEPT ![p] = "add_putidx"]
        /\ UNCHANGED <<locks, status, sid, sha, shaEnd, st, msg, buf, pos>>
    BY DEF AddPutHdr, Goto, local
  <1>2. DOMAIN pc = Proc /\ DOMAIN shd = Slots /\ sha \subseteq Slots
    BY DEF TypeInv, TypeOK
  <1>3. pc[p] \in Adding /\ pc[p] \in Placing
    BY <1>1 DEF Adding, Placing
  <1>4. \A q \in Proc : pc[q] \notin PgHa
    BY <1>3 DEF PurgeInv, Held
  <1>5. /\ Increasing(sid) /\ Len(sid) = status.total
        /\ \A k \in 1..Len(sid) : Own(sid[k])
    BY <1>1, <1>3, <1>4, WhilePlacing
  <1>6. pc'[p] = "add_putidx" /\ OnlyBy(p)
    BY <1>1, <1>2 DEF OnlyBy, locks
  <1>7. /\ s \in sha
        /\ \A k \in 1..Len(sid) : sid[k].slot # s
        /\ msg[p].off >= Len(sid)
        /\ msg[p].off = Len(sid) =>
             /\ status.total = Len(sid) /\ st[p] = status
             /\ msg[p].num = status.last + 1
    BY <1>1 DEF PurgeInv, Poster
  <1>8. shd'[s].num = msg[p].num
    <2>1. shd'[s] = h
      BY <1>1, <1>2, <1>7
    <2> QED
      BY <2>1
  <1>9. IndexData'
    BY <1>1, <1>5 DEF PurgeInv, IndexData, Increasing
  <1>10. Poster(p)'
    BY <1>1, <1>6, <1>7, <1>8 DEF Poster
  <1>11. \A k \in 1..Len(sid') : shd'[sid'[k].slot].num = sid'[k].num /\ sid'[k].slot \in sha'
    BY <1>1, <1>2, <1>5, <1>7 DEF Own
  <1>12. PurgeInv'
    BY <1>1, <1>3, <1>4, <1>6, <1>9, <1>10, <1>11, PlacingStep DEF locks, Placing
  <1>13. Safe
    BY <1>1, FileTypes DEF Safe
  <1> QED
    BY <1>12, <1>13

LEMMA AddPutIdxInv ==
  ASSUME TypeInv, TypeInv', PurgeInv, NEW p \in Proc, AddPutIdx(p), msg[p].off <= Len(sid)
  PROVE  PurgeInv' /\ Safe
  <1> DEFINE r == IdxRec(msg[p])
             n == Len(sid)
  <1>1. /\ pc[p] = "add_putidx"
        /\ sid' = PutMsgIdx(sid, msg[p].off, r)
        /\ pc' = [pc EXCEPT ![p] = "add_putstatus"]
        /\ UNCHANGED <<locks, status, shd, sha, shaEnd, st, msg, buf, pos>>
    BY DEF AddPutIdx, Goto, local, locks
  <1>2. /\ DOMAIN pc = Proc /\ sid \in Seq(IdxRecs) /\ n \in Nat
        /\ status.last \in Nat /\ status.total \in Nat
        /\ \A k \in 1..n : sid[k].num \in Nat
        /\ msg[p] \in Msgs /\ msg[p].off \in Nat /\ msg[p].slot \in Slots
    <2>1. msg[p] \in Msgs /\ msg[p].slot \in Slots
      BY <1>1 DEF TypeInv, TypeOK
    <2> QED
      BY <2>1, FileTypes DEF TypeInv, TypeOK, Msgs
  <1>3. pc[p] \in Adding /\ pc[p] \in Placing
    BY <1>1 DEF Adding, Placing
  <1>4. \A q \in Proc : pc[q] \notin PgHa
    BY <1>3 DEF PurgeInv, Held
  <1>5. /\ Increasing(sid) /\ n = status.total
        /\ \A k \in 1..n : Own(sid[k])
        /\ \A k \in 1..n : sid[k].num <= status.last
    BY <1>1, <1>2, <1>3, <1>4, WhilePlacing DEF PurgeInv, IndexData
  <1>6. /\ msg[p].off >= n
        /\ msg[p].off = n => st[p] = status /\ msg[p].num = status.last + 1
        /\ msg[p].slot \in sha /\ shd[msg[p].slot].num = msg[p].num
    BY <1>1 DEF PurgeInv, Poster
  <1>7. msg[p].off = n /\ st[p] = status
    BY <1>2, <1>6
  <1>8. r \in IdxRecs /\ r.num = status.last + 1 /\ r.slot = msg[p].slot
    BY <1>2, <1>6, <1>7 DEF IdxRec, IdxRecs, Msgs
  <1> HIDE DEF r
  <1>9. /\ Len(sid') = n + 1
        /\ \A i \in 1..n : sid'[i] = sid[i]
        /\ sid'[n + 1] = r
    <2>1. sid' = Append(sid, r)
      BY <1>1, <1>2, <1>7 DEF PutMsgIdx
    <2> QED
      BY <1>2, <1>8, <2>1, AppendProperties
  <1> HIDE DEF n
  <1>10. \A i \in 1..Len(sid') : i \in 1..n \/ i = n + 1
    BY <1>2, <1>9
  <1>11. pc'[p] = "add_putstatus" /\ OnlyBy(p)
    BY <1>1, <1>2 DEF OnlyBy, locks
  <1>12. IndexData'
    <2>1. \A k \in 1..Len(sid') : k <= status.total => sid'[k].num <= status.last
      BY <1>2, <1>5, <1>9, <1>10
    <2>2. \A i, j \in 1..Len(sid') : i < j => sid'[i].num < sid'[j].num
      <3> SUFFICES ASSUME NEW i \in 1..Len(sid'), NEW j \in 1..Len(sid'), i < j
                   PROVE  sid'[i].num < sid'[j].num
        OBVIOUS
      <3>1. i \in 1..n
        BY <1>2, <1>9
      <3>2. CASE j \in 1..n
        <4>1. sid[i].num < sid[j].num
          BY <1>5, <3>1, <3>2 DEF Increasing, n
        <4> QED
          BY <1>9, <3>1, <3>2, <4>1
      <3>3. CASE j = n + 1
        <4>1. sid[i].num <= status.last /\ sid[i].num \in Nat
          BY <1>2, <1>5, <3>1
        <4> QED
          BY <1>2, <1>8, <1>9, <3>1, <3>3, <4>1
      <3> QED
        BY <1>10, <3>2, <3>3
    <2>3. \A x \in sha : x <= shaEnd
      BY DEF PurgeInv, IndexData
    <2> QED
      BY <1>1, <1>11, <2>1, <2>2, <2>3 DEF IndexData, Increasing
  <1>13. Poster(p)'
    BY <1>1, <1>5, <1>7, <1>8, <1>9, <1>11 DEF Poster
  <1>14. \A k \in 1..Len(sid') : shd'[sid'[k].slot].num = sid'[k].num /\ sid'[k].slot \in sha'
    <2>1. shd[r.slot].num = r.num /\ r.slot \in sha
      BY <1>6, <1>7, <1>8 DEF n
    <2> QED
      BY <1>1, <1>5, <1>9, <1>10, <2>1 DEF Own
  <1>15. PurgeInv'
    BY <1>1, <1>3, <1>4, <1>11, <1>12, <1>13, <1>14, PlacingStep DEF locks, Placing
  <1>16. Safe
    <2>1. \A k \in 1..n : k \in 1..Len(sid') /\ sid'[k].num = sid[k].num
      BY <1>2, <1>9
    <2>2. \A j \in 1..Len(sid') :
             (\A k \in 1..n : sid[k].num # sid'[j].num) => sid'[j].num > status.last
      BY <1>2, <1>8, <1>9, <1>10
    <2>3. status'.last >= status.last
      BY <1>1, <1>2
    <2> QED
      BY <2>1, <2>2, <2>3 DEF Safe, n
  <1> QED
    BY <1>15, <1>16

LEMMA AddPutStatusInv ==
  ASSUME TypeInv, TypeInv', PurgeInv, NEW p \in Proc, AddPutStatus(p)
  PROVE  PurgeInv' /\ Safe
  <1>1. /\ pc[p] = "add_putstatus"
        /\ status' = [last |-> st[p].last + 1, total |-> st[p].total + 1]
        /\ pc' = [pc EXCEPT ![p] = "unlock"]
        /\ UNCHANGED <<locks, sid, shd, sha, shaEnd, st, msg, buf, pos>>
    BY DEF AddPutStatus, Goto, local
  <1>2. /\ DOMAIN pc = Proc /\ Len(sid) \in Nat /\ status.last \in Nat /\ status.total \in Nat
        /\ \A k \in 1..Len(sid) : sid[k].num \in Nat
    BY FileTypes DEF TypeInv, TypeOK
  <1>3. pc[p] \in Adding /\ pc[p] \in Placing
    BY <1>1 DEF Adding, Placing
  <1>4. \A q \in Proc : pc[q] \notin PgHa
    BY <1>3 DEF PurgeInv, Held
  <1>5. Increasing(sid) /\ \A k \in 1..Len(sid) : Own(sid[k])
    BY <1>3, <1>4, WhilePlacing
  <1>6. /\ Len(sid) = status.total + 1 /\ st[p] = status
        /\ sid[Len(sid)].num = status.last + 1
    BY <1>1 DEF PurgeInv, Poster
  <1>7. status'.last = status.last + 1 /\ status'.total = status.total + 1
    BY <1>1, <1>6
  <1>8. pc'[p] = "unlock" /\ OnlyBy(p)
    BY <1>1, <1>2 DEF OnlyBy, locks
  <1>9. IndexData'
    <2>1. /\ \A k \in 1..Len(sid) : k <= status.total => sid[k].num <= status.last
          /\ \A x \in sha : x <= shaEnd
      BY DEF PurgeInv, IndexData
    <2>2. \A k \in 1..Len(sid) : k <= status.total \/ k = Len(sid)
      BY <1>2, <1>6
    <2>3. \A k \in 1..Len(sid) : sid[k].num <= status.last + 1
      BY <1>2, <1>6, <2>1, <2>2
    <2> QED
      BY <1>1, <1>5, <1>6, <1>7, <2>1, <2>3 DEF IndexData, Increasing
  <1>10. Poster(p)'
    BY <1>8 DEF Poster
  <1>11. \A k \in 1..Len(sid') : shd'[sid'[k].slot].num = sid'[k].num /\ sid'[k].slot \in sha'
    BY <1>1, <1>5 DEF Own
  <1>12. PurgeInv'
    BY <1>1, <1>3, <1>4, <1>8, <1>9, <1>10, <1>11, PlacingStep DEF locks, Placing
  <1>13. Safe
    BY <1>1, <1>2, <1>7 DEF Safe
  <1> QED
    BY <1>12, <1>13

-----------------------------------------------------------------------------
\* Only programs that purge are ever in a step of a purge
Roles == \A q \in Proc : pc[q] \in Ready \cup PgHa => q \in Purgers

LEMMA StepRoles == ASSUME TypeInv, Roles, Next PROVE Roles'
  <1>0. DOMAIN pc = Proc
    BY DEF TypeInv, TypeOK
  <1>1. PICK p \in Proc : Start(p) \/ Continue(p) \/ Crash(p)
    BY DEF Next
  <1>2. \A q \in Proc \ {p} : pc'[q] = pc[q]
    <2>1. CASE p \in Posters /\ PostStep(p)
      BY <1>0, <2>1 DEF PostStep, AddStatus, AddData, AddDataTimeout, AddHdr, AddAlloc,
         AddAllocTimeout, AddPutHdr, AddPutIdx, AddPutStatus, UndoOpen, UndoOpenTimeout, UndoLock,
         UndoLockTimeout, Goto
    <2>2. CASE p \in Modifiers /\ ModifyStep(p)
      BY <1>0, <2>2 DEF ModifyStep, SendLock, SendTimeout, GetMsgIdx, LockMsgHdr,
         LockMsgHdrFails, PutHdr, PutIdx, Goto
    <2>3. CASE p \in Purgers /\ PurgeStep(p)
      BY <1>0, <2>3 DEF PurgeStep, PurgeStatus, PurgeOpenDa, PurgeOpenDaTimeout, PurgeOpenHa,
         PurgeKeep, PurgeDrop, PurgeDropUnread, PurgeFreeDat, PurgeFreeDatTimeout, PurgeFreeHdr,
         PurgeWrite, PurgeTruncate, PurgePutStatus, PurgeClose, Goto
    <2>4. CASE Unlock(p) \/ Start(p) \/ Crash(p)
      BY <1>0, <2>4 DEF Unlock, Start, AddLock, HeaderLock, UpdateLock, SendRead, EditBegin,
         PurgeLock, CloseBase, Crash, Goto
    <2> QED
      BY <1>1, <2>1, <2>2, <2>3, <2>4 DEF Continue
  <1>3. ASSUME p \notin Purgers PROVE pc'[p] \notin Ready \cup PgHa
    <2>0. pc[p] \notin Ready \cup PgHa
      BY <1>3 DEF Roles
    <2>1. CASE p \in Posters /\ PostStep(p)
      BY <1>0, <2>1 DEF PostStep, AddStatus, AddData, AddDataTimeout, AddHdr, AddAlloc,
         AddAllocTimeout, AddPutHdr, AddPutIdx, AddPutStatus, UndoOpen, UndoOpenTimeout, UndoLock,
         UndoLockTimeout, Goto, AfterFailure, Ready, PgHa
    <2>2. CASE p \in Modifiers /\ ModifyStep(p)
      BY <1>0, <2>2 DEF ModifyStep, SendLock, SendTimeout, GetMsgIdx, LockMsgHdr,
         LockMsgHdrFails, PutHdr, PutIdx, Goto, Ready, PgHa
    <2>3. CASE Unlock(p) \/ Start(p) \/ Crash(p)
      BY <1>0, <1>3, <2>3 DEF Unlock, Start, AddLock, HeaderLock, UpdateLock, SendRead, EditBegin,
         CloseBase, Crash, Goto, Ready, PgHa
    <2> QED
      BY <1>1, <1>3, <2>1, <2>2, <2>3 DEF Continue
  <1> QED
    BY <1>2, <1>3 DEF Roles

LEMMA StepPurgeInv ==
  ASSUME FastBase, TypeInv, TypeInv', PurgeInv, Next PROVE PurgeInv' /\ Safe
  <1>1. PICK p \in Proc : Start(p) \/ Continue(p) \/ Crash(p)
    BY DEF Next
  <1>2. p \notin Updaters /\ p \notin Senders /\ p \notin Editors /\ p \notin Modifiers
    BY DEF FastBase, Modifiers
  <1>3. CASE Unlock(p) \/ CloseBase(p) \/ Crash(p)
    BY <1>3, CommonPurgeInv
  <1>4. CASE AddLock(p) \/ HeaderLock(p)
    BY <1>4, QuietPostPurgeInv DEF QuietPost
  <1>5. CASE PostStep(p)
    <2>1. CASE AddAlloc(p)
      BY <2>1, AddAllocInv
    <2>2. CASE AddPutHdr(p)
      BY <2>2, AddPutHdrInv
    <2>3. CASE AddPutIdx(p)
      <3>1. msg[p].off <= Len(sid) \/ msg[p].off > Len(sid)
        <4>1. msg[p] \in Msgs
          BY DEF TypeInv, TypeOK
        <4> QED
          BY <4>1, FileTypes DEF Msgs
      <3>2. CASE msg[p].off <= Len(sid)
        BY <2>3, <3>2, AddPutIdxInv
      <3>3. CASE msg[p].off > Len(sid)
        BY <2>3, <3>3, QuietPostPurgeInv DEF QuietPost
      <3> QED
        BY <3>1, <3>2, <3>3
    <2>4. CASE AddPutStatus(p)
      BY <2>4, AddPutStatusInv
    <2>5. CASE ~(AddAlloc(p) \/ AddPutHdr(p) \/ AddPutIdx(p) \/ AddPutStatus(p))
      <3>1. QuietPost(p)
        BY <1>5, <2>5 DEF PostStep, QuietPost
      <3> QED
        BY <3>1, QuietPostPurgeInv
    <2> QED
      BY <2>1, <2>2, <2>3, <2>4, <2>5
  <1>6. CASE PurgeLock(p) \/ PurgeStep(p)
    <2>1. CASE PurgeKeep(p)
      BY <2>1, PurgeKeepInv
    <2>2. CASE PurgeDrop(p)
      BY <2>2, PurgeDropInv
    <2>3. CASE PurgeDropUnread(p)
      BY <2>3, PurgeDropUnreadInv
    <2>4. CASE PurgeFreeDat(p) \/ PurgeFreeDatTimeout(p)
      BY <2>4, PurgeFreeDatInv
    <2>5. CASE PurgeFreeHdr(p)
      BY <2>5, PurgeFreeHdrInv
    <2>6. CASE PurgeWrite(p)
      BY <2>6, PurgeWriteInv
    <2>7. CASE PurgeTruncate(p)
      BY <2>7, PurgeTruncateInv
    <2>8. CASE PurgePutStatus(p)
      BY <2>8, PurgePutStatusInv
    <2>9. CASE EarlyPurge(p)
      BY <2>9, EarlyPurgeInv
    <2> QED
      BY <1>6, <2>1, <2>2, <2>3, <2>4, <2>5, <2>6, <2>7, <2>8, <2>9 DEF PurgeStep, EarlyPurge
  <1> QED
    BY <1>1, <1>2, <1>3, <1>4, <1>5, <1>6 DEF Start, Continue

PurgeIndInv == TypeInv /\ PurgeInv /\ Roles

LEMMA InitPurgeIndInv == Init => PurgeIndInv
  <1>1. Init => Roles
    BY DEF Init, Roles, Ready, PgHa
  <1> QED
    BY <1>1, InitTypeInv, InitPurgeInv DEF PurgeIndInv

LEMMA StepPurgeIndInv ==
  ASSUME FastBase, PurgeIndInv, [Next]_vars
  PROVE  PurgeIndInv' /\ (vars' # vars => Safe)
  <1>1. TypeInv'
    BY StepTypeInv DEF PurgeIndInv
  <1>2. CASE Next
    BY <1>1, <1>2, StepPurgeInv, StepRoles DEF PurgeIndInv
  <1>3. CASE UNCHANGED vars
    <2>1. PurgeInv'
      BY <1>3 DEF PurgeIndInv, PurgeInv, Held, IndexData, HeaderData, Poster, Purger, Buffer,
         Copied, Freeing, Own, Increasing, vars
    <2>2. Roles'
      BY <1>3 DEF PurgeIndInv, Roles, vars
    <2> QED
      BY <1>1, <1>3, <2>1, <2>2 DEF PurgeIndInv
  <1> QED
    BY <1>2, <1>3

LEMMA PurgeIndInvSafe ==
  ASSUME PurgeIndInv PROVE IndexSorted /\ OwnHeader /\ StatusAgrees
  <1>0. /\ None \notin Proc /\ Len(sid) \in Nat
        /\ \A q \in Proc : pc[q] \in PgHa => haLock = q
    BY FileTypes, SmbBaseAssumption DEF SmbBaseAssumption, PurgeIndInv, TypeInv, HaHeld
  <1>1. IndexSorted
    <2>1. ASSUME \A p \in Purgers : pc[p] # "pg_trunc" PROVE \A p \in Proc : pc[p] # "pg_trunc"
      BY <2>1 DEF PurgeIndInv, Roles, PgHa
    <2> QED
      BY <2>1 DEF PurgeIndInv, PurgeInv, IndexData, IndexSorted
  <1>2. OwnHeader
    <2> SUFFICES ASSUME NEW k \in 1..Len(sid), shd[sid[k].slot].num # sid[k].num
                 PROVE  haLock # None /\ shd[sid[k].slot] = NoHdr /\ "delete" \in sid[k].attr
      BY DEF OwnHeader
    <2>1. PICK q \in Proc :
            /\ pc[q] \in Dropping /\ k <= pos[q]
            /\ "delete" \in sid[k].attr
            /\ shd[sid[k].slot].num = sid[k].num \/ shd[sid[k].slot] = NoHdr
      BY DEF PurgeIndInv, PurgeInv, HeaderData, Own
    <2> QED
      BY <1>0, <2>1 DEF Dropping, Sorting, PgHa
  <1>3. StatusAgrees
    <2> SUFFICES ASSUME hdrLock = None, haLock = None
                 PROVE  /\ status.total = Len(sid)
                        /\ \A k \in 1..Len(sid) : sid[k].num <= status.last
      BY DEF StatusAgrees
    <2>1. \A q \in Proc : pc[q] \notin {"add_putstatus", "pg_putstatus"}
      BY <1>0 DEF PurgeIndInv, PurgeInv, Held, Adding, PgHa
    <2> QED
      BY <1>0, <2>1 DEF PurgeIndInv, PurgeInv, IndexData
  <1> QED
    BY <1>1, <1>2, <1>3

LEMMA IndexOwned ==
  ASSUME Modifiers = {}, TypeInv, Held, Next, sid' # sid
  PROVE  \A q \in Purgers :
           pc[q] \in {"pg_scan", "pg_freedat", "pg_freehdr", "pg_trunc"} => pc'[q] # pc[q]
  <1>0. /\ DOMAIN pc = Proc
        /\ \A q \in Proc : pc[q] \in PgHa => haLock = q
    BY DEF TypeInv, TypeOK, HaHeld
  <1>1. PICK p \in Proc : Start(p) \/ Continue(p) \/ Crash(p)
    BY DEF Next
  <1>2. AddPutIdx(p) \/ PurgeWrite(p) \/ PurgeTruncate(p)
    <2>1. ~(p \in Updaters \/ p \in Senders \/ p \in Editors \/ p \in Modifiers)
      BY DEF Modifiers
    <2>2. CASE PostStep(p)
      BY <2>2 DEF PostStep, AddStatus, AddData, AddDataTimeout, AddHdr, AddAlloc,
         AddAllocTimeout, AddPutHdr, AddPutStatus, UndoOpen, UndoOpenTimeout, UndoLock,
         UndoLockTimeout, files
    <2>3. CASE PurgeStep(p)
      BY <2>3 DEF PurgeStep, PurgeStatus, PurgeOpenDa, PurgeOpenDaTimeout, PurgeOpenHa,
         PurgeKeep, PurgeDrop, PurgeDropUnread, PurgeFreeDat, PurgeFreeDatTimeout, PurgeFreeHdr,
         PurgePutStatus, PurgeClose, files
    <2>4. CASE Unlock(p) \/ Start(p) \/ Crash(p)
      BY <2>1, <2>4 DEF Unlock, Start, AddLock, HeaderLock, PurgeLock, CloseBase, Crash, files
    <2> QED
      BY <1>1, <2>1, <2>2, <2>3, <2>4 DEF Continue
  <1>3. CASE AddPutIdx(p)
    <2>1. pc[p] \in Placing
      BY <1>3 DEF AddPutIdx, Placing
    <2> QED
      BY <2>1 DEF Held, PgHa, Proc
  <1>4. CASE PurgeWrite(p) \/ PurgeTruncate(p)
    <2>1. pc[p] \in PgHa /\ pc'[p] # pc[p]
      BY <1>0, <1>4 DEF PurgeWrite, PurgeTruncate, Goto, PgHa
    <2>2. \A q \in Proc \ {p} : pc[q] \notin PgHa
      BY <1>0, <2>1
    <2> QED
      BY <2>1, <2>2 DEF PgHa, Proc
  <1> QED
    BY <1>2, <1>3, <1>4

\* However many programs post to a base without hyper allocation and purge it,
\* and although a purge gives up the lock on the base half way: the index is
\* sorted, every record leads to its own header, and when nobody is writing
\* the status describes the index.
THEOREM PurgeSafe == ASSUME FastBase PROVE Spec => [](IndexSorted /\ OwnHeader /\ StatusAgrees)
  <1>1. PurgeIndInv /\ [Next]_vars => PurgeIndInv'
    BY StepPurgeIndInv
  <1>2. PurgeIndInv => IndexSorted /\ OwnHeader /\ StatusAgrees
    BY PurgeIndInvSafe
  <1> QED
    BY <1>1, <1>2, InitPurgeIndInv, PTL DEF Spec

\* No post and no purge loses a message that is not marked or gives a number
\* a second time, and nobody touches the index while a purge holds the
\* records it will write back.
THEOREM PurgeKeeps ==
  ASSUME FastBase PROVE Spec => NoMessageLost /\ NumbersNeverReused /\ PurgeOwnsIndex
  <1> DEFINE Keeps == \A k \in 1..Len(sid) : "delete" \notin sid[k].attr =>
                          \E j \in 1..Len(sid') : sid'[j].num = sid[k].num
             New == /\ status'.last >= status.last
                    /\ \A j \in 1..Len(sid') :
                         (\A k \in 1..Len(sid) : sid[k].num # sid'[j].num)
                             => sid'[j].num > status.last
             Owned == \A q \in Purgers :
                         pc[q] \in {"pg_scan", "pg_freedat", "pg_freehdr", "pg_trunc"}
                            => pc'[q] # pc[q]
  <1>1. PurgeIndInv /\ [Next]_vars
          => PurgeIndInv' /\ [Keeps]_sid /\ [New]_<<sid, status>> /\ [Owned]_sid
    <2> SUFFICES ASSUME PurgeIndInv, [Next]_vars
                 PROVE  PurgeIndInv' /\ [Keeps]_sid /\ [New]_<<sid, status>> /\ [Owned]_sid
      OBVIOUS
    <2>1. PurgeIndInv' /\ (vars' # vars => Safe)
      BY StepPurgeIndInv
    <2>2. Safe => Keeps /\ New
      BY DEF Safe
    <2>3. vars' = vars => UNCHANGED <<sid, status>>
      BY DEF vars
    <2>4. sid' # sid => Owned
      <3>1. TypeInv /\ Held /\ Modifiers = {}
        BY DEF PurgeIndInv, PurgeInv, FastBase
      <3> QED
        BY <2>3, <3>1, IndexOwned
    <2> QED
      BY <2>1, <2>2, <2>3, <2>4
  <1>2. Spec => [][Keeps]_sid /\ [][New]_<<sid, status>> /\ [][Owned]_sid
    BY <1>1, InitPurgeIndInv, PTL DEF Spec
  <1> QED
    BY <1>2 DEF NoMessageLost, NumbersNeverReused, PurgeOwnsIndex
-----------------------------------------------------------------------------
(* Purges that die.                                                         *)

\* The same base, but any purge may be killed at any step.  What is lost then
\* are order and agreement: records the dead purge has copied forward are
\* there twice, marked ones lead to headers that are gone, or the index is
\* shorter than total_msgs.
DyingBase == ~Hyper /\ Modifiers = {} /\ Crashers \subseteq Purgers

\* The index is never longer than the status says, nor a number in it higher,
\* but while a post is between its two writes
Bounded ==
    (\A p \in Proc : pc[p] # "add_putstatus") =>
        /\ Len(sid) <= status.total
        /\ \A k \in 1..Len(sid) : sid[k].num <= status.last

\* What a post knows: its offset is not before the end of the index, and its
\* number is new
DyingPoster(p) ==
    /\ pc[p] \in {"add_alloc", "add_puthdr", "add_putidx"} =>
         /\ msg[p].off = st[p].total /\ Len(sid) <= st[p].total
         /\ msg[p].num = status.last + 1 /\ st[p].last = status.last
    /\ pc[p] = "add_putstatus" =>
         /\ st[p].last = status.last /\ Len(sid) <= st[p].total + 1
         /\ \A k \in 1..Len(sid) : sid[k].num <= status.last + 1

\* What a purge knows: total_msgs, as it has read it, does not stop it before
\* the end of the index
DyingPurger(q) ==
    /\ pc[q] \notin PgHa \cup {"unlock"} => buf[q] = <<>> /\ pos[q] = 0
    /\ pc[q] \in {"pg_da", "pg_ha", "pg_putstatus"} \cup Dropping => st[q].last = status.last
    /\ pc[q] \in {"pg_da", "pg_ha"} \cup Dropping => Len(sid) <= st[q].total
    /\ pc[q] \in Dropping => Copied(q) /\ Len(buf[q]) <= pos[q]
    /\ pc[q] = "pg_trunc" =>
         /\ pos[q] = Len(sid)
         /\ \A i \in 1..Len(buf[q]) : sid[i] = buf[q][i]
    /\ pc[q] = "pg_putstatus" => sid = buf[q]

DyingInv == Held /\ Bounded /\ \A p \in Proc : DyingPoster(p) /\ DyingPurger(p)

LEMMA InitDyingInv == Init => DyingInv
  <1> SUFFICES ASSUME Init PROVE DyingInv
    OBVIOUS
  <1>0. PICK n \in 0..InitMsgs : \E marked \in [1..n -> {{}, {"delete"}}] :
          /\ status = [last |-> n, total |-> n]
          /\ sid = [i \in 1..n |-> [num |-> i, slot |-> i, attr |-> marked[i]]]
    BY DEF Init
  <1>1. PICK marked \in [1..n -> {{}, {"delete"}}] :
          /\ status = [last |-> n, total |-> n]
          /\ sid = [i \in 1..n |-> [num |-> i, slot |-> i, attr |-> marked[i]]]
    BY <1>0
  <1>2. n \in Nat
    BY SmbBaseAssumption DEF SmbBaseAssumption
  <1>3. Len(sid) = n /\ \A k \in 1..n : sid[k].num = k
    BY <1>1, <1>2
  <1>4. Bounded
    BY <1>1, <1>2, <1>3 DEF Bounded
  <1>5. \A p \in Proc : pc[p] = "idle" /\ buf[p] = <<>> /\ pos[p] = 0
    BY DEF Init
  <1>6. Held
    BY <1>5 DEF Held, Adding, Ready, Placing
  <1>7. \A p \in Proc : DyingPoster(p) /\ DyingPurger(p)
    BY <1>5 DEF DyingPoster, DyingPurger, Dropping, Sorting, PgHa
  <1> QED
    BY <1>4, <1>6, <1>7 DEF DyingInv

\* What the others know stays true if the index gets no longer, and changes
\* only when none of them is at work in it
LEMMA OthersDying ==
  ASSUME DyingInv, NEW p \in Proc, OnlyBy(p), status'.last = status.last,
         Len(sid) \in Nat, Len(sid') \in Nat, Len(sid') <= Len(sid),
         \A q \in Proc : st[q].total \in Nat,
         \/ UNCHANGED sid
         \/ \A q \in Proc \ {p} : pc[q] \notin PgHa \cup {"add_putstatus"}
  PROVE  \A q \in Proc \ {p} : DyingPoster(q)' /\ DyingPurger(q)'
  <1> SUFFICES ASSUME NEW q \in Proc \ {p} PROVE DyingPoster(q)' /\ DyingPurger(q)'
    OBVIOUS
  <1>1. DyingPoster(q) /\ DyingPurger(q)
    BY DEF DyingInv
  <1>2. Len(sid) <= st[q].total => Len(sid') <= st[q].total
    OBVIOUS
  <1>3. CASE UNCHANGED sid
    <2>0. buf'[q] = buf[q] /\ pos'[q] = pos[q]
      BY DEF OnlyBy
    <2>1. Copied(q) => Copied(q)'
      BY <1>3, <2>0 DEF Copied
    <2>2. DyingPoster(q)'
      BY <1>1, <1>3 DEF DyingPoster, OnlyBy
    <2>3. DyingPurger(q)'
      BY <1>1, <1>3, <2>1 DEF DyingPurger, OnlyBy
    <2> QED
      BY <2>2, <2>3
  <1>4. CASE pc[q] \notin PgHa \cup {"add_putstatus"}
    <2>1. DyingPoster(q)'
      BY <1>1, <1>2, <1>4 DEF DyingPoster, OnlyBy
    <2>2. DyingPurger(q)'
      BY <1>1, <1>2, <1>4 DEF DyingPurger, OnlyBy, Dropping, Sorting, PgHa
    <2> QED
      BY <2>1, <2>2
  <1> QED
    BY <1>3, <1>4

\* A step of p that changes neither the index nor the status
LEMMA QuietDying ==
  ASSUME TypeInv, DyingInv, NEW p \in Proc, OnlyBy(p), UNCHANGED <<sid, status>>,
         pc[p] # "add_putstatus", Held', DyingPoster(p)', DyingPurger(p)'
  PROVE  DyingInv' /\ Safe
  <1>0. /\ Len(sid) \in Nat /\ status.last \in Nat
        /\ \A q \in Proc : st[q].total \in Nat
    BY FileTypes, ScanTypes
  <1>1. Bounded'
    <2>1. (\A q \in Proc : pc'[q] # "add_putstatus") => \A q \in Proc : pc[q] # "add_putstatus"
      BY DEF OnlyBy
    <2> QED
      BY <2>1 DEF DyingInv, Bounded
  <1>2. \A q \in Proc \ {p} : DyingPoster(q)' /\ DyingPurger(q)'
    <2>1. status'.last = status.last /\ Len(sid') \in Nat /\ Len(sid') <= Len(sid)
      BY <1>0
    <2> QED
      BY <1>0, <2>1, OthersDying
  <1>3. Safe
    BY <1>0 DEF Safe
  <1> QED
    BY <1>1, <1>2, <1>3 DEF DyingInv

\* The steps of a post that neither place nor count its message
LEMMA QuietPostDying ==
  ASSUME ~Hyper, TypeInv, TypeInv', DyingInv, NEW p \in Proc,
         QuietPost(p) \/ AddAlloc(p) \/ AddPutHdr(p)
  PROVE  DyingInv' /\ Safe
  <1>0. /\ None \notin Proc
        /\ DOMAIN pc = Proc /\ DOMAIN st = Proc /\ DOMAIN msg = Proc
        /\ Len(sid) \in Nat /\ msg[p].off \in Nat
    <2>1. msg[p] \in Msgs
      BY DEF TypeInv, TypeOK
    <2> QED
      BY <2>1, FileTypes, SmbBaseAssumption DEF SmbBaseAssumption, TypeInv, TypeOK, Msgs
  <1>a. pc[p] \in Adding => hdrLock = p
    BY DEF DyingInv, Held
  <1>b. msg[p].off > Len(sid) => PutMsgIdx(sid, msg[p].off, IdxRec(msg[p])) = sid /\ ~(msg[p].off <= Len(sid))
    BY <1>0 DEF PutMsgIdx
  <1>c. AddAlloc(p) => /\ pc[p] = "add_alloc" /\ haLock = None
                       /\ \E s \in Slots : msg' = [msg EXCEPT ![p].slot = s]
                       /\ pc' = [pc EXCEPT ![p] = "add_puthdr"]
                       /\ UNCHANGED <<locks, status, sid, st, buf, pos>>
    BY DEF AddAlloc, FreeSlots, Goto
  <1>d. AddPutHdr(p) => /\ pc[p] = "add_puthdr"
                        /\ pc' = [pc EXCEPT ![p] = "add_putidx"]
                        /\ UNCHANGED <<locks, status, sid, st, msg, buf, pos>>
    BY DEF AddPutHdr, Goto, local
  <1>e. QuietPost(p) => UNCHANGED <<sid, status, buf, pos>>
    BY <1>0, <1>b DEF QuietPost, AddLock, HeaderLock, AddStatus, AddData, AddDataTimeout, AddHdr,
       AddAllocTimeout, AddPutIdx, UndoOpen, UndoOpenTimeout, UndoLock, UndoLockTimeout, files, local
  <1>f. ASSUME QuietPost(p)
        PROVE  /\ \A q \in Proc \ {p} : pc'[q] = pc[q] /\ st'[q] = st[q] /\ msg'[q] = msg[q]
               /\ \A q \in Proc \ {p} : (hdrLock' = q) <=> (hdrLock = q)
               /\ pc'[p] \in Adding \cup Ready => hdrLock' = p
               /\ pc'[p] \notin Placing
               /\ pc'[p] \notin PgHa /\ pc[p] \notin PgHa /\ pc[p] # "unlock"
               /\ pc[p] # "add_putstatus" /\ pc'[p] \notin {"pg_da", "pg_ha"}
               /\ pc'[p] = "add_alloc" => AddHdr(p) /\ Len(sid) = status.total
    <2> USE <1>0, <1>a, <1>b, <1>f DEF QuietPost, AddLock, HeaderLock, AddStatus, AddData,
            AddDataTimeout, AddHdr, AddAllocTimeout, AddPutIdx, UndoOpen, UndoOpenTimeout, UndoLock,
            UndoLockTimeout, Goto
    <2>1. \A q \in Proc \ {p} : pc'[q] = pc[q] /\ st'[q] = st[q] /\ msg'[q] = msg[q]
      BY DEF local
    <2>2. \A q \in Proc \ {p} : (hdrLock' = q) <=> (hdrLock = q)
      BY DEF locks, Adding
    <2>3. pc'[p] \in Adding \cup Ready => hdrLock' = p
      BY DEF Adding, Ready, AfterFailure, locks
    <2>4. /\ pc'[p] \notin Placing
          /\ pc'[p] \notin PgHa /\ pc[p] \notin PgHa /\ pc[p] # "unlock" /\ pc[p] # "add_putstatus"
          /\ pc'[p] \notin {"pg_da", "pg_ha"}
      BY DEF Placing, PgHa, AfterFailure
    <2>5. pc'[p] = "add_alloc" => AddHdr(p) /\ Len(sid) = status.total
      BY DEF AfterFailure
    <2> QED
      BY <2>1, <2>2, <2>3, <2>4, <2>5
  <1>1. OnlyBy(p) /\ UNCHANGED <<sid, status, buf, pos>>
    BY <1>0, <1>c, <1>d, <1>e, <1>f DEF OnlyBy, locks
  <1>2. /\ pc'[p] \notin PgHa /\ pc[p] \notin PgHa /\ pc[p] # "unlock"
        /\ pc[p] # "add_putstatus" /\ pc'[p] \notin {"pg_da", "pg_ha", "add_putstatus"}
        /\ pc'[p] \in Adding \cup Ready => hdrLock' = p
        /\ pc'[p] \in Placing => pc[p] \in Placing \/ haLock = None
    BY <1>0, <1>a, <1>c, <1>d, <1>f DEF Placing, PgHa, Adding, Ready, locks
  <1>3. DyingPoster(p)'
    <2>1. CASE pc'[p] = "add_alloc"
      <3>1. AddHdr(p) /\ Len(sid) = status.total
        BY <1>0, <1>c, <1>d, <1>f, <2>1
      <3>2. /\ st'[p] = status
            /\ msg'[p].off = status.total
            /\ msg'[p].num = status.last + 1
        BY <1>0, <2>1, <3>1 DEF AddHdr, NewMsg, Goto, AfterFailure
      <3> QED
        BY <1>0, <1>1, <2>1, <3>1, <3>2 DEF DyingPoster
    <2>2. CASE pc'[p] \in {"add_puthdr", "add_putidx"}
      <3>1. AddAlloc(p) \/ AddPutHdr(p)
        BY <1>f, <2>2 DEF Placing
      <3>2. /\ pc[p] \in {"add_alloc", "add_puthdr"} /\ st' = st
            /\ msg'[p].off = msg[p].off /\ msg'[p].num = msg[p].num
        <4>1. msg[p] \in Msgs /\ DOMAIN msg = Proc
          BY <1>0 DEF TypeInv, TypeOK
        <4>2. CASE AddAlloc(p)
          <5>1. PICK s \in Slots : msg' = [msg EXCEPT ![p].slot = s]
            BY <1>c, <4>2
          <5>2. msg'[p] = [msg[p] EXCEPT !.slot = s]
            BY <4>1, <5>1
          <5> QED
            BY <1>c, <4>1, <4>2, <5>2 DEF Msgs
        <4>3. CASE AddPutHdr(p)
          BY <1>d, <4>3
        <4> QED
          BY <3>1, <4>2, <4>3
      <3>3. /\ msg[p].off = st[p].total /\ Len(sid) <= st[p].total
            /\ msg[p].num = status.last + 1 /\ st[p].last = status.last
        BY <3>2 DEF DyingInv, DyingPoster
      <3>4. pc'[p] # "add_putstatus"
        BY <2>2
      <3> QED
        BY <1>1, <3>2, <3>3, <3>4 DEF DyingPoster
    <2> QED
      BY <1>2, <2>1, <2>2 DEF DyingPoster
  <1>4. DyingPurger(p)'
    BY <1>1, <1>2 DEF DyingInv, DyingPurger, Dropping, Sorting, PgHa
  <1>5. haLock = None => \A q \in Proc : pc[q] \notin PgHa
    BY <1>0 DEF TypeInv, HaHeld
  <1>6. Held'
    BY <1>1, <1>2, <1>5, HeldStep DEF DyingInv
  <1> QED
    BY <1>1, <1>2, <1>3, <1>4, <1>6, QuietDying

-----------------------------------------------------------------------------
\* A program that purges does nothing else
PurgeRoles == \A q \in Purgers : pc[q] \in Ready \cup PgHa \cup {"idle", "unlock"}

LEMMA StepPurgeRoles ==
  ASSUME Modifiers = {}, TypeInv, PurgeRoles, Next PROVE PurgeRoles'
  <1>0. DOMAIN pc = Proc /\ Purgers \subseteq Proc
    BY DEF TypeInv, TypeOK, Proc
  <1>1. PICK p \in Proc : Start(p) \/ Continue(p) \/ Crash(p)
    BY DEF Next
  <1>2. \A q \in Proc \ {p} : pc'[q] = pc[q]
    <2>1. CASE p \in Posters /\ PostStep(p)
      BY <1>0, <2>1 DEF PostStep, AddStatus, AddData, AddDataTimeout, AddHdr, AddAlloc,
         AddAllocTimeout, AddPutHdr, AddPutIdx, AddPutStatus, UndoOpen, UndoOpenTimeout, UndoLock,
         UndoLockTimeout, Goto
    <2>2. CASE PurgeStep(p)
      BY <1>0, <2>2 DEF PurgeStep, PurgeStatus, PurgeOpenDa, PurgeOpenDaTimeout, PurgeOpenHa,
         PurgeKeep, PurgeDrop, PurgeDropUnread, PurgeFreeDat, PurgeFreeDatTimeout, PurgeFreeHdr,
         PurgeWrite, PurgeTruncate, PurgePutStatus, PurgeClose, Goto
    <2>3. CASE Unlock(p) \/ Start(p) \/ Crash(p)
      BY <1>0, <2>3 DEF Unlock, Start, AddLock, HeaderLock, UpdateLock, SendRead, EditBegin,
         PurgeLock, CloseBase, Crash, Goto
    <2> QED
      BY <1>1, <2>1, <2>2, <2>3 DEF Continue
  <1>3. ASSUME p \in Purgers PROVE pc'[p] \in Ready \cup PgHa \cup {"idle", "unlock"}
    <2>1. p \notin Posters /\ p \notin Updaters /\ p \notin Senders /\ p \notin Editors
      BY <1>3, SmbBaseAssumption DEF SmbBaseAssumption, Modifiers
    <2>2. p \notin Adders /\ p \notin Headers /\ p \notin Modifiers
      BY <2>1 DEF Posters, Modifiers
    <2>3. CASE PurgeLock(p) \/ CloseBase(p) \/ Unlock(p) \/ Crash(p)
      BY <1>0, <2>3 DEF PurgeLock, CloseBase, Unlock, Crash, Goto, Ready
    <2>4. CASE PurgeStep(p)
      BY <1>0, <2>4 DEF PurgeStep, PurgeStatus, PurgeOpenDa, PurgeOpenDaTimeout, PurgeOpenHa,
         PurgeKeep, PurgeDrop, PurgeDropUnread, PurgeFreeDat, PurgeFreeDatTimeout, PurgeFreeHdr,
         PurgeWrite, PurgeTruncate, PurgePutStatus, PurgeClose, Goto, Ready, PgHa
    <2> QED
      BY <1>1, <2>1, <2>2, <2>3, <2>4 DEF Start, Continue
  <1> QED
    BY <1>0, <1>2, <1>3 DEF PurgeRoles

LEMMA CommonDying ==
  ASSUME DyingBase, TypeInv, TypeInv', PurgeRoles, DyingInv, NEW p \in Proc,
         Unlock(p) \/ CloseBase(p) \/ Crash(p)
  PROVE  DyingInv' /\ Safe
  <1>0. /\ None \notin Proc
        /\ DOMAIN pc = Proc /\ DOMAIN st = Proc /\ DOMAIN msg = Proc
        /\ DOMAIN buf = Proc /\ DOMAIN pos = Proc
    BY SmbBaseAssumption DEF SmbBaseAssumption, TypeInv, TypeOK
  <1>1. OnlyBy(p)
    BY <1>0 DEF Unlock, CloseBase, Crash, Goto, Forget, local, OnlyBy
  <1>2. UNCHANGED <<sid, status>>
    BY DEF Unlock, CloseBase, Crash, files
  <1>3. /\ pc'[p] = "idle"
        /\ pc[p] = "idle" => buf'[p] = buf[p] /\ pos'[p] = pos[p]
        /\ pc[p] # "idle" => buf'[p] = <<>> /\ pos'[p] = 0
    BY <1>0 DEF Unlock, CloseBase, Crash, Goto, Forget, local
  <1>4. pc[p] # "add_putstatus"
    <2>1. CASE Crash(p)
      BY <2>1 DEF Crash, DyingBase, PurgeRoles, Ready, PgHa
    <2>2. CASE Unlock(p) \/ CloseBase(p)
      BY <2>2 DEF Unlock, CloseBase
    <2> QED
      BY <2>1, <2>2
  <1>5. DyingPoster(p)'
    BY <1>3 DEF DyingPoster
  <1>6. DyingPurger(p)'
    BY <1>3 DEF DyingInv, DyingPurger, Dropping, Sorting, PgHa
  <1>7. Held'
    BY <1>1, <1>3, HeldStep DEF DyingInv, Adding, Ready, Placing, PgHa
  <1> QED
    BY <1>1, <1>2, <1>4, <1>5, <1>6, <1>7, QuietDying

LEMMA EarlyPurgeDying ==
  ASSUME TypeInv, TypeInv', DyingInv, NEW p \in Proc, EarlyPurge(p)
  PROVE  DyingInv' /\ Safe
  <1>0. /\ None \notin Proc
        /\ DOMAIN pc = Proc /\ DOMAIN st = Proc
        /\ status.last \in Nat /\ status.total \in Nat /\ Len(sid) \in Nat
    BY FileTypes, SmbBaseAssumption DEF SmbBaseAssumption, TypeInv, TypeOK
  <1>a. pc[p] \in Ready => hdrLock = p
    BY DEF DyingInv, Held
  <1> USE <1>0, <1>a DEF EarlyPurge, PurgeLock, PurgeStatus, PurgeOpenDa, PurgeOpenDaTimeout, PurgeOpenHa,
          PurgeClose, Goto
  <1>1. /\ \A q \in Proc \ {p} : pc'[q] = pc[q] /\ st'[q] = st[q]
        /\ msg' = msg /\ buf' = buf /\ pos' = pos
    BY DEF local
  <1>2. \A q \in Proc \ {p} : (hdrLock' = q) <=> (hdrLock = q)
    BY DEF locks
  <1>3. OnlyBy(p)
    BY <1>1, <1>2 DEF OnlyBy
  <1>4. UNCHANGED <<sid, status>>
    BY DEF files
  <1>5. pc'[p] \in Adding \cup Ready => hdrLock' = p
    BY DEF Adding, Ready, locks
  <1>6. /\ pc'[p] \notin Adding
        /\ pc[p] \in {"idle", "pg_status", "pg_da", "pg_ha", "pg_close"}
        /\ pc'[p] \in {"unlock", "pg_status", "pg_da", "pg_ha", "pg_scan"}
        /\ pc[p] = "pg_close" => pc'[p] = "unlock"
    BY DEF Adding
  <1>7. pc'[p] = "pg_scan" => pc[p] = "pg_ha" /\ hdrLock' = p
    BY DEF locks, Ready
  <1>8. pc'[p] \in {"pg_da", "pg_ha", "pg_scan"} =>
           \/ pc[p] \in {"pg_da", "pg_ha"} /\ st'[p] = st[p]
           \/ pc[p] = "pg_status" /\ st'[p] = status
    BY DEF local
  <1> HIDE DEF EarlyPurge, PurgeLock, PurgeStatus, PurgeOpenDa, PurgeOpenDaTimeout, PurgeOpenHa,
          PurgeClose, Goto
  <1>9. DyingPoster(p)'
    BY <1>6 DEF DyingPoster, Adding
  <1>10. DyingPurger(p)'
    <2>1. DyingPurger(p)
      BY DEF DyingInv
    <2>2. pc'[p] \notin PgHa \cup {"unlock"} => buf'[p] = <<>> /\ pos'[p] = 0
      BY <1>1, <1>6, <2>1 DEF DyingPurger, PgHa
    <2>3. pc[p] = "pg_status" => Len(sid) <= status.total
      <3>1. pc[p] = "pg_status" => \A q \in Proc : pc[q] # "add_putstatus"
        BY DEF DyingInv, Held, Adding, Ready
      <3> QED
        BY <3>1 DEF DyingInv, Bounded
    <2>4. pc'[p] \in {"pg_da", "pg_ha", "pg_scan"}
            => st'[p].last = status'.last /\ Len(sid') <= st'[p].total
      BY <1>4, <1>8, <2>1, <2>3 DEF DyingPurger
    <2>5. ASSUME pc'[p] = "pg_scan" PROVE Copied(p)' /\ Len(buf'[p]) <= pos'[p]
      <3>1. buf'[p] = <<>> /\ pos'[p] = 0
        BY <1>1, <1>7, <2>1, <2>5 DEF DyingPurger, PgHa
      <3> QED
        BY <1>0, <1>4, <3>1 DEF Copied
    <2> QED
      BY <1>6, <2>2, <2>4, <2>5 DEF DyingPurger, Dropping, Sorting
  <1>11. Held'
    BY <1>3, <1>5, <1>6, <1>7, <1>a, HeldStep DEF DyingInv, Adding, Placing, Ready, PgHa
  <1> QED
    BY <1>3, <1>4, <1>6, <1>9, <1>10, <1>11, QuietDying

\* A step of p in its scan: whatever it does to headers and locks, what counts
\* is what it has copied
LEMMA ScanDying ==
  ASSUME TypeInv, DyingInv, NEW p \in Proc, OnlyBy(p), UNCHANGED <<sid, status>>,
         pc[p] \in Sorting, pc'[p] \in Sorting, st'[p] = st[p],
         Copied(p)', Len(buf'[p]) <= pos'[p]
  PROVE  DyingInv' /\ Safe
  <1>1. /\ pc'[p] \in Sorting /\ pc'[p] \in PgHa /\ pc[p] \in PgHa
        /\ pc'[p] \notin Adding \cup Ready /\ pc'[p] \notin Placing
        /\ pc'[p] \notin {"pg_trunc", "pg_putstatus"}
        /\ pc[p] \notin {"pg_trunc", "pg_putstatus", "add_putstatus"}
    BY DEF Sorting, PgHa, Adding, Ready, Placing
  <1>2. Held'
    BY <1>1, HeldStep DEF DyingInv
  <1>3. DyingPoster(p)'
    BY <1>1 DEF DyingPoster, Placing, Adding
  <1>4. DyingPurger(p)'
    <2>1. st[p].last = status.last /\ Len(sid) <= st[p].total
      BY DEF DyingInv, DyingPurger, Dropping
    <2> QED
      BY <1>1, <2>1 DEF DyingPurger, Ready
  <1> QED
    BY <1>1, <1>2, <1>3, <1>4, QuietDying

LEMMA ScanStepDying ==
  ASSUME TypeInv, TypeInv', DyingInv, NEW p \in Proc,
         \/ PurgeKeep(p) \/ PurgeDrop(p) \/ PurgeDropUnread(p)
         \/ PurgeFreeDat(p) \/ PurgeFreeDatTimeout(p) \/ PurgeFreeHdr(p)
  PROVE  DyingInv' /\ Safe
  <1> DEFINE n == Len(buf[p])
             r == sid[pos[p] + 1]
  <1>1. /\ pc[p] \in Sorting /\ Copied(p) /\ n <= pos[p]
        /\ n \in Nat /\ pos[p] \in Nat /\ Len(sid) \in Nat /\ None \notin Proc
        /\ DOMAIN pc = Proc /\ DOMAIN buf = Proc /\ DOMAIN pos = Proc /\ DOMAIN msg = Proc
    <2>1. pc[p] \in Sorting
      BY DEF PurgeKeep, PurgeDrop, PurgeDropUnread, PurgeFreeDat, PurgeFreeDatTimeout,
         PurgeFreeHdr, Sorting
    <2> QED
      BY <2>1, FileTypes, ScanTypes, SmbBaseAssumption
         DEF SmbBaseAssumption, DyingInv, DyingPurger, Dropping
  <1>2. /\ UNCHANGED <<sid, status, st>>
        /\ pc'[p] \in Sorting
        /\ \A q \in Proc \ {p} :
             /\ pc'[q] = pc[q] /\ msg'[q] = msg[q] /\ buf'[q] = buf[q] /\ pos'[q] = pos[q]
             /\ (hdrLock' = q) <=> (hdrLock = q)
    BY <1>1 DEF PurgeKeep, PurgeDrop, PurgeDropUnread, PurgeFreeDat, PurgeFreeDatTimeout,
       PurgeFreeHdr, Goto, Sorting, locks, files, local
  <1>3. OnlyBy(p) /\ st'[p] = st[p]
    BY <1>2 DEF OnlyBy
  <1>4. CASE PurgeKeep(p)
    <2>1. /\ pos[p] + 1 \in 1..Len(sid) /\ r \in IdxRecs /\ buf[p] \in Seq(IdxRecs)
          /\ buf'[p] = Append(buf[p], r) /\ pos'[p] = pos[p] + 1
      BY <1>1, <1>4, FileTypes, ScanTypes DEF PurgeKeep, Scanning
    <2> HIDE DEF r
    <2>2. /\ Len(buf'[p]) = n + 1
          /\ \A i \in 1..n : buf'[p][i] = buf[p][i]
          /\ buf'[p][n + 1] = r
      BY <1>1, <2>1, AppendProperties
    <2> HIDE DEF n
    <2>3. \A k \in 1..pos'[p] : k \in 1..pos[p] \/ k = pos[p] + 1
      BY <1>1, <2>1
    <2>4. \A i \in 1..Len(buf'[p]) : i \in 1..n \/ i = n + 1
      BY <1>1, <2>2
    <2>5. /\ \A k \in 1..pos[p] : "delete" \notin sid[k].attr => \E i \in 1..n : buf[p][i] = sid[k]
          /\ \A i \in 1..n : \E k \in 1..pos[p] : sid[k] = buf[p][i]
      BY <1>1 DEF Copied, n
    <2>6. /\ 1..n \subseteq 1..Len(buf'[p]) /\ n + 1 \in 1..Len(buf'[p])
          /\ 1..pos[p] \subseteq 1..pos'[p] /\ pos[p] + 1 \in 1..pos'[p]
      BY <1>1, <2>1, <2>2
    <2>7. sid[pos[p] + 1] = r
      BY DEF r
    <2>8. \A k \in 1..pos'[p] : "delete" \notin sid[k].attr =>
             \E i \in 1..Len(buf'[p]) : buf'[p][i] = sid[k]
      BY <2>2, <2>3, <2>5, <2>6, <2>7
    <2>9. \A i \in 1..Len(buf'[p]) : \E k \in 1..pos'[p] : sid[k] = buf'[p][i]
      BY <2>2, <2>4, <2>5, <2>6, <2>7
    <2>10. pos'[p] <= Len(sid) /\ Len(buf'[p]) <= pos'[p]
      BY <1>1, <2>1, <2>2 DEF n
    <2>11. Copied(p)'
      BY <1>2, <2>8, <2>9, <2>10 DEF Copied
    <2> QED
      BY <1>1, <1>2, <1>3, <2>10, <2>11, ScanDying
  <1>5. CASE PurgeDrop(p) \/ PurgeDropUnread(p)
    <2>1. /\ pos[p] < Len(sid) /\ "delete" \in sid[pos[p] + 1].attr
          /\ buf' = buf /\ pos'[p] = pos[p] + 1
      BY <1>1, <1>5 DEF PurgeDrop, PurgeDropUnread, Scanning
    <2> HIDE DEF r, n
    <2>2. \A k \in 1..pos'[p] : k \in 1..pos[p] \/ k = pos[p] + 1
      BY <1>1, <2>1
    <2>3. 1..pos[p] \subseteq 1..pos'[p] /\ pos'[p] <= Len(sid) /\ Len(buf'[p]) <= pos'[p]
      BY <1>1, <2>1 DEF n
    <2>4. Copied(p)'
      BY <1>1, <1>2, <2>1, <2>2, <2>3 DEF Copied
    <2> QED
      BY <1>1, <1>2, <1>3, <2>3, <2>4, ScanDying
  <1>6. CASE PurgeFreeDat(p) \/ PurgeFreeDatTimeout(p) \/ PurgeFreeHdr(p)
    <2>1. buf' = buf /\ pos' = pos
      BY <1>6 DEF PurgeFreeDat, PurgeFreeDatTimeout, PurgeFreeHdr, local
    <2>2. Copied(p)' /\ Len(buf'[p]) <= pos'[p]
      BY <1>1, <1>2, <2>1 DEF Copied
    <2> QED
      BY <1>1, <1>2, <1>3, <2>2, ScanDying
  <1> QED
    BY <1>4, <1>5, <1>6

-----------------------------------------------------------------------------
(* The steps that write the index or the status.                            *)

\* p alone writes while it has the .sha file, and nobody is placing a message
LEMMA DyingAlone ==
  ASSUME TypeInv, DyingInv, NEW p \in Proc, pc[p] \in PgHa
  PROVE  /\ \A q \in Proc \ {p} : pc[q] \notin PgHa \cup {"add_putstatus"}
         /\ \A q \in Proc : pc[q] # "add_putstatus"
         /\ Len(sid) <= status.total
         /\ \A k \in 1..Len(sid) : sid[k].num <= status.last
  <1>1. \A q \in Proc \ {p} : pc[q] \notin PgHa
    BY DEF TypeInv, HaHeld
  <1>2. \A q \in Proc : pc[q] # "add_putstatus"
    BY DEF DyingInv, Held, Placing
  <1> QED
    BY <1>1, <1>2 DEF DyingInv, Bounded

LEMMA PurgeWriteDying ==
  ASSUME TypeInv, TypeInv', DyingInv, NEW p \in Proc, PurgeWrite(p)
  PROVE  DyingInv' /\ Safe
  <1> DEFINE n == Len(buf[p])
  <1>1. /\ pc[p] = "pg_scan" /\ ~(pos[p] < Len(sid) /\ n < st[p].total)
        /\ sid' = buf[p] \o SubSeq(sid, n + 1, Len(sid))
        /\ pc' = [pc EXCEPT ![p] = "pg_trunc"]
        /\ UNCHANGED <<locks, status, st, msg, buf, pos>>
    BY DEF PurgeWrite, Scanning, Goto, local
  <1>2. /\ n \in Nat /\ pos[p] \in Nat /\ Len(sid) \in Nat
        /\ status.last \in Nat /\ st[p].total \in Nat
        /\ DOMAIN pc = Proc /\ buf[p] \in Seq(IdxRecs) /\ sid \in Seq(IdxRecs)
    BY FileTypes, ScanTypes
  <1>3. /\ \A q \in Proc \ {p} : pc[q] \notin PgHa \cup {"add_putstatus"}
        /\ Len(sid) <= status.total
        /\ \A k \in 1..Len(sid) : sid[k].num <= status.last
    BY <1>1, DyingAlone DEF PgHa
  <1>4. /\ Copied(p) /\ n <= pos[p] /\ st[p].last = status.last /\ Len(sid) <= st[p].total
    BY <1>1 DEF DyingInv, DyingPurger, Dropping, Sorting
  <1>5. pos[p] = Len(sid)
    <2>1. pos[p] <= Len(sid)
      BY <1>4 DEF Copied
    <2> QED
      BY <1>1, <1>2, <1>4, <2>1
  <1>6. /\ Len(sid') = Len(sid)
        /\ \A i \in 1..n : sid'[i] = buf[p][i]
        /\ \A i \in n+1..Len(sid) : sid'[i] = sid[i]
    BY <1>1, <1>2, <1>4, <1>5, Overwrite
  <1>7. OnlyBy(p) /\ pc'[p] = "pg_trunc"
    BY <1>1, <1>2 DEF OnlyBy, locks
  <1>8. /\ \A k \in 1..Len(sid) : "delete" \notin sid[k].attr =>
             \E i \in 1..n : buf[p][i] = sid[k]
        /\ \A i \in 1..n : \E k \in 1..Len(sid) : sid[k] = buf[p][i]
    BY <1>4, <1>5 DEF Copied
  <1> HIDE DEF n
  <1>9. /\ \A k \in 1..Len(sid) : k \in 1..n \/ k \in n+1..Len(sid)
        /\ 1..n \subseteq 1..Len(sid)
    BY <1>2, <1>4, <1>5
  <1>10. \A j \in 1..Len(sid') : \E k \in 1..Len(sid) : sid[k] = sid'[j]
    BY <1>6, <1>8, <1>9
  <1>11. Held'
    BY <1>1, <1>7, HeldStep DEF DyingInv, Adding, Ready, Placing, PgHa
  <1>12. Bounded'
    <2>1. Len(sid') <= status.total
      BY <1>3, <1>6
    <2>2. \A k \in 1..Len(sid') : sid'[k].num <= status.last
      BY <1>3, <1>10
    <2> QED
      BY <1>1, <2>1, <2>2 DEF Bounded
  <1>13. \A q \in Proc \ {p} : DyingPoster(q)' /\ DyingPurger(q)'
    <2>0. status'.last = status.last /\ Len(sid') = Len(sid)
      BY <1>1, <1>6
    <2>1. Len(sid') \in Nat /\ Len(sid') <= Len(sid)
      BY <1>2, <2>0
    <2>2. \A q \in Proc : st[q].total \in Nat
      BY ScanTypes
    <2> QED
      BY <1>2, <1>3, <1>7, <2>0, <2>1, <2>2, OthersDying
  <1>14. DyingPoster(p)'
    BY <1>7 DEF DyingPoster
  <1>15. Copied(p)'
    <2>1. \A k \in 1..Len(sid) : "delete" \notin sid'[k].attr =>
             \E i \in 1..n : buf[p][i] = sid'[k]
      BY <1>6, <1>8, <1>9
    <2>2. \A i \in 1..n : \E k \in 1..Len(sid) : sid'[k] = buf[p][i]
      BY <1>6, <1>9
    <2>3. buf'[p] = buf[p] /\ pos'[p] = Len(sid) /\ Len(sid') = Len(sid)
      BY <1>1, <1>5, <1>6
    <2>4. pos'[p] <= Len(sid') /\ 1..pos'[p] = 1..Len(sid) /\ 1..Len(buf'[p]) = 1..n
      BY <1>2, <2>3 DEF n
    <2>5. \A k \in 1..pos'[p] : "delete" \notin sid'[k].attr =>
             \E i \in 1..Len(buf'[p]) : buf'[p][i] = sid'[k]
      BY <2>1, <2>3, <2>4
    <2>6. \A i \in 1..Len(buf'[p]) : \E k \in 1..pos'[p] : sid'[k] = buf'[p][i]
      BY <2>2, <2>3, <2>4
    <2> QED
      BY <2>4, <2>5, <2>6 DEF Copied
  <1>16. DyingPurger(p)'
    BY <1>1, <1>4, <1>5, <1>6, <1>7, <1>15 DEF DyingPurger, Dropping, Sorting, PgHa, n
  <1>17. Safe
    <2>1. \A k \in 1..Len(sid) : "delete" \notin sid[k].attr =>
            \E j \in 1..Len(sid') : sid'[j].num = sid[k].num
      BY <1>6, <1>8, <1>9
    <2>2. status'.last >= status.last
      BY <1>1, <1>2
    <2>3. \A j \in 1..Len(sid') : \E k \in 1..Len(sid) : sid[k].num = sid'[j].num
      BY <1>10
    <2> QED
      BY <2>1, <2>2, <2>3 DEF Safe
  <1> QED
    BY <1>11, <1>12, <1>13, <1>14, <1>16, <1>17 DEF DyingInv

LEMMA PurgeTruncateDying ==
  ASSUME TypeInv, TypeInv', DyingInv, NEW p \in Proc, PurgeTruncate(p)
  PROVE  DyingInv' /\ Safe
  <1> DEFINE n == Len(buf[p])
  <1>1. /\ pc[p] = "pg_trunc" /\ sid' = SubSeq(sid, 1, n)
        /\ pc' = [pc EXCEPT ![p] = "pg_putstatus"]
        /\ UNCHANGED <<locks, status, st, msg, buf, pos>>
    BY DEF PurgeTruncate, Goto, local
  <1>2. /\ n \in Nat /\ Len(sid) \in Nat /\ status.last \in Nat /\ status.total \in Nat
        /\ DOMAIN pc = Proc /\ buf[p] \in Seq(IdxRecs) /\ sid \in Seq(IdxRecs)
    BY FileTypes, ScanTypes
  <1>3. /\ \A q \in Proc \ {p} : pc[q] \notin PgHa \cup {"add_putstatus"}
        /\ Len(sid) <= status.total
        /\ \A k \in 1..Len(sid) : sid[k].num <= status.last
    BY <1>1, DyingAlone DEF PgHa
  <1>4. /\ Copied(p) /\ n <= pos[p] /\ st[p].last = status.last
        /\ pos[p] = Len(sid)
        /\ \A i \in 1..n : sid[i] = buf[p][i]
    BY <1>1 DEF DyingInv, DyingPurger, Dropping, Sorting
  <1>5. Len(sid') = n /\ sid' = buf[p] /\ n <= Len(sid)
    BY <1>1, <1>2, <1>4
  <1>6. OnlyBy(p) /\ pc'[p] = "pg_putstatus"
    BY <1>1, <1>2 DEF OnlyBy, locks
  <1>7. /\ \A k \in 1..Len(sid) : "delete" \notin sid[k].attr =>
             \E i \in 1..n : buf[p][i] = sid[k]
        /\ \A i \in 1..n : \E k \in 1..Len(sid) : sid[k] = buf[p][i]
    BY <1>4 DEF Copied
  <1> HIDE DEF n
  <1>8. \A j \in 1..Len(sid') : \E k \in 1..Len(sid) : sid[k] = sid'[j]
    BY <1>5, <1>7
  <1>9. Held'
    BY <1>1, <1>6, HeldStep DEF DyingInv, Adding, Ready, Placing, PgHa
  <1>10. Bounded'
    <2>1. Len(sid') <= status.total
      BY <1>2, <1>3, <1>5
    <2> QED
      BY <1>1, <1>3, <1>8, <2>1 DEF Bounded
  <1>11. \A q \in Proc \ {p} : DyingPoster(q)' /\ DyingPurger(q)'
    <2>1. status'.last = status.last /\ Len(sid') \in Nat /\ Len(sid') <= Len(sid)
      BY <1>1, <1>2, <1>5
    <2>2. \A q \in Proc : st[q].total \in Nat
      BY ScanTypes
    <2> QED
      BY <1>2, <1>3, <1>6, <2>1, <2>2, OthersDying
  <1>12. DyingPoster(p)' /\ DyingPurger(p)'
    BY <1>1, <1>4, <1>5, <1>6 DEF DyingPoster, DyingPurger, Dropping, Sorting, PgHa
  <1>13. Safe
    <2>1. \A k \in 1..Len(sid) : "delete" \notin sid[k].attr =>
            \E j \in 1..Len(sid') : sid'[j].num = sid[k].num
      BY <1>5, <1>7
    <2>2. status'.last >= status.last
      BY <1>1, <1>2
    <2>3. \A j \in 1..Len(sid') : \E k \in 1..Len(sid) : sid[k].num = sid'[j].num
      BY <1>8
    <2> QED
      BY <2>1, <2>2, <2>3 DEF Safe
  <1> QED
    BY <1>9, <1>10, <1>11, <1>12, <1>13 DEF DyingInv

LEMMA PurgePutStatusDying ==
  ASSUME TypeInv, TypeInv', DyingInv, NEW p \in Proc, PurgePutStatus(p)
  PROVE  DyingInv' /\ Safe
  <1>1. /\ pc[p] = "pg_putstatus" /\ status' = [last |-> st[p].last, total |-> Len(buf[p])]
        /\ pc' = [pc EXCEPT ![p] = "pg_close"]
        /\ UNCHANGED <<locks, sid, st, msg, buf, pos>>
    BY DEF PurgePutStatus, Goto, local
  <1>2. /\ Len(sid) \in Nat /\ status.last \in Nat /\ DOMAIN pc = Proc
    BY FileTypes, ScanTypes
  <1>3. /\ \A q \in Proc \ {p} : pc[q] \notin PgHa \cup {"add_putstatus"}
        /\ \A k \in 1..Len(sid) : sid[k].num <= status.last
    BY <1>1, DyingAlone DEF PgHa
  <1>4. st[p].last = status.last /\ sid = buf[p]
    BY <1>1 DEF DyingInv, DyingPurger
  <1>5. OnlyBy(p) /\ pc'[p] = "pg_close" /\ status'.last = status.last /\ status'.total = Len(sid)
    BY <1>1, <1>2, <1>4 DEF OnlyBy, locks
  <1>6. Held'
    BY <1>1, <1>5, HeldStep DEF DyingInv, Adding, Ready, Placing, PgHa
  <1>7. Bounded'
    BY <1>1, <1>2, <1>3, <1>5 DEF Bounded
  <1>8. \A q \in Proc \ {p} : DyingPoster(q)' /\ DyingPurger(q)'
    <2>1. Len(sid') \in Nat /\ Len(sid') <= Len(sid) /\ UNCHANGED sid
      BY <1>1, <1>2
    <2>2. \A q \in Proc : st[q].total \in Nat
      BY ScanTypes
    <2> QED
      BY <1>2, <1>5, <2>1, <2>2, OthersDying
  <1>9. DyingPoster(p)' /\ DyingPurger(p)'
    BY <1>5 DEF DyingPoster, DyingPurger, Dropping, Sorting, PgHa
  <1>10. Safe
    BY <1>1, <1>2, <1>5 DEF Safe
  <1> QED
    BY <1>6, <1>7, <1>8, <1>9, <1>10 DEF DyingInv

\* A post that places or counts its message is alone
LEMMA PlacingDying ==
  ASSUME TypeInv, DyingInv, NEW p \in Proc, OnlyBy(p), pc[p] \in Placing,
         pc'[p] \in {"add_putstatus", "unlock"}, UNCHANGED <<hdrLock, buf, pos>>,
         Bounded', DyingPoster(p)'
  PROVE  DyingInv'
  <1>1. /\ \A q \in Proc \ {p} : pc[q] \notin Adding \cup Ready
        /\ \A q \in Proc : pc[q] \notin PgHa
        /\ hdrLock = p
    BY DEF DyingInv, Held, Adding, Placing
  <1>2. /\ pc'[p] \notin PgHa \cup Ready \cup Dropping
        /\ pc'[p] \notin {"pg_da", "pg_ha", "pg_putstatus"}
        /\ pc[p] \notin PgHa \cup {"unlock"}
    BY DEF Adding, Placing, PgHa, Ready, Dropping, Sorting
  <1>3. Held'
    BY <1>1, <1>2, HeldStep DEF DyingInv
  <1>4. ASSUME NEW q \in Proc \ {p} PROVE DyingPoster(q)' /\ DyingPurger(q)'
    <2>1. DyingPoster(q)'
      BY <1>1 DEF DyingPoster, OnlyBy, Adding
    <2>2. pc[q] \notin {"pg_da", "pg_ha", "pg_putstatus"} \cup Dropping
      BY <1>1 DEF Ready, PgHa, Dropping, Sorting
    <2>3. DyingPurger(q)'
      BY <2>2 DEF DyingInv, DyingPurger, OnlyBy, Dropping, Sorting
    <2> QED
      BY <2>1, <2>3
  <1>5. DyingPurger(p)'
    BY <1>2 DEF DyingInv, DyingPurger, Dropping, Sorting
  <1> QED
    BY <1>3, <1>4, <1>5 DEF DyingInv

LEMMA AddPutIdxDying ==
  ASSUME TypeInv, TypeInv', DyingInv, NEW p \in Proc, AddPutIdx(p), msg[p].off <= Len(sid)
  PROVE  DyingInv' /\ Safe
  <1> DEFINE r == IdxRec(msg[p])
             n == Len(sid)
  <1>1. /\ pc[p] = "add_putidx"
        /\ sid' = PutMsgIdx(sid, msg[p].off, r)
        /\ pc' = [pc EXCEPT ![p] = "add_putstatus"]
        /\ UNCHANGED <<locks, status, st, msg, buf, pos>>
    BY DEF AddPutIdx, Goto, local, locks
  <1>2. /\ DOMAIN pc = Proc /\ sid \in Seq(IdxRecs) /\ n \in Nat
        /\ status.last \in Nat /\ st[p].total \in Nat
        /\ \A k \in 1..n : sid[k].num \in Nat
        /\ msg[p] \in Msgs /\ msg[p].off \in Nat /\ msg[p].slot \in Slots
    <2>1. msg[p] \in Msgs /\ msg[p].slot \in Slots
      BY <1>1 DEF TypeInv, TypeOK
    <2> QED
      BY <2>1, FileTypes, ScanTypes DEF TypeInv, TypeOK, Msgs
  <1>3. pc[p] \in Adding /\ pc[p] \in Placing
    BY <1>1 DEF Adding, Placing
  <1>4. \A q \in Proc : pc[q] # "add_putstatus"
    BY <1>1, <1>3 DEF DyingInv, Held, Adding
  <1>5. \A k \in 1..n : sid[k].num <= status.last
    BY <1>4 DEF DyingInv, Bounded
  <1>6. /\ msg[p].off = st[p].total /\ n <= st[p].total
        /\ msg[p].num = status.last + 1 /\ st[p].last = status.last
    BY <1>1 DEF DyingInv, DyingPoster
  <1>7. msg[p].off = n /\ st[p].total = n
    BY <1>2, <1>6
  <1>8. r \in IdxRecs /\ r.num = status.last + 1
    BY <1>2, <1>6 DEF IdxRec, IdxRecs, Msgs
  <1> HIDE DEF r
  <1>9. /\ Len(sid') = n + 1
        /\ \A i \in 1..n : sid'[i] = sid[i]
        /\ sid'[n + 1] = r
    <2>1. sid' = Append(sid, r)
      BY <1>1, <1>2, <1>7 DEF PutMsgIdx
    <2> QED
      BY <1>2, <1>8, <2>1, AppendProperties
  <1> HIDE DEF n
  <1>10. \A i \in 1..Len(sid') : i \in 1..n \/ i = n + 1
    BY <1>2, <1>9
  <1>11. pc'[p] = "add_putstatus" /\ OnlyBy(p)
    BY <1>1, <1>2 DEF OnlyBy, locks
  <1>12. \A k \in 1..Len(sid') : sid'[k].num <= status.last + 1
    <2>1. \A k \in 1..n : sid[k].num <= status.last + 1
      BY <1>2, <1>5
    <2>2. status.last + 1 <= status.last + 1
      BY <1>2
    <2> QED
      BY <1>8, <1>9, <1>10, <2>1, <2>2
  <1>13. DyingPoster(p)'
    <2>1. Len(sid') <= st[p].total + 1
      BY <1>2, <1>7, <1>9
    <2> QED
      BY <1>1, <1>6, <1>11, <1>12, <2>1 DEF DyingPoster
  <1>14. Bounded'
    BY <1>11 DEF Bounded
  <1>15. DyingInv'
    BY <1>1, <1>3, <1>11, <1>13, <1>14, PlacingDying DEF locks
  <1>16. Safe
    <2>1. \A k \in 1..n : k \in 1..Len(sid') /\ sid'[k].num = sid[k].num
      BY <1>2, <1>9
    <2>2. \A j \in 1..Len(sid') :
             (\A k \in 1..n : sid[k].num # sid'[j].num) => sid'[j].num > status.last
      BY <1>2, <1>8, <1>9, <1>10
    <2>3. status'.last >= status.last
      BY <1>1, <1>2
    <2> QED
      BY <2>1, <2>2, <2>3 DEF Safe, n
  <1> QED
    BY <1>15, <1>16

LEMMA AddPutStatusDying ==
  ASSUME TypeInv, TypeInv', DyingInv, NEW p \in Proc, AddPutStatus(p)
  PROVE  DyingInv' /\ Safe
  <1>1. /\ pc[p] = "add_putstatus"
        /\ status' = [last |-> st[p].last + 1, total |-> st[p].total + 1]
        /\ pc' = [pc EXCEPT ![p] = "unlock"]
        /\ UNCHANGED <<locks, sid, st, msg, buf, pos>>
    BY DEF AddPutStatus, Goto, local
  <1>2. /\ DOMAIN pc = Proc /\ status.last \in Nat
        /\ \A k \in 1..Len(sid) : sid[k].num \in Nat
    BY FileTypes DEF TypeInv, TypeOK
  <1>3. pc[p] \in Placing
    BY <1>1 DEF Placing
  <1>4. /\ st[p].last = status.last /\ Len(sid) <= st[p].total + 1
        /\ \A k \in 1..Len(sid) : sid[k].num <= status.last + 1
    BY <1>1 DEF DyingInv, DyingPoster
  <1>5. status'.last = status.last + 1 /\ status'.total = st[p].total + 1
    BY <1>1, <1>4
  <1>6. pc'[p] = "unlock" /\ OnlyBy(p)
    BY <1>1, <1>2 DEF OnlyBy, locks
  <1>7. Bounded'
    BY <1>1, <1>4, <1>5 DEF Bounded
  <1>8. DyingPoster(p)'
    BY <1>6 DEF DyingPoster
  <1>9. DyingInv'
    BY <1>1, <1>3, <1>6, <1>7, <1>8, PlacingDying DEF locks
  <1>10. Safe
    BY <1>1, <1>2, <1>5 DEF Safe
  <1> QED
    BY <1>9, <1>10

-----------------------------------------------------------------------------
DyingIndInv == TypeInv /\ PurgeRoles /\ DyingInv

LEMMA StepDyingInv ==
  ASSUME DyingBase, TypeInv', DyingIndInv, Next PROVE DyingInv' /\ Safe
  <1>0. TypeInv /\ DyingInv /\ PurgeRoles /\ ~Hyper
    BY DEF DyingIndInv, DyingBase
  <1>1. PICK p \in Proc : Start(p) \/ Continue(p) \/ Crash(p)
    BY DEF Next
  <1>2. p \notin Updaters /\ p \notin Senders /\ p \notin Editors /\ p \notin Modifiers
    BY DEF DyingBase, Modifiers
  <1>3. CASE Unlock(p) \/ CloseBase(p) \/ Crash(p)
    BY <1>0, <1>3, CommonDying
  <1>4. CASE AddLock(p) \/ HeaderLock(p)
    BY <1>0, <1>4, QuietPostDying DEF QuietPost
  <1>5. CASE PostStep(p)
    <2>1. CASE AddAlloc(p) \/ AddPutHdr(p)
      BY <1>0, <2>1, QuietPostDying
    <2>2. CASE AddPutIdx(p)
      <3>1. msg[p].off <= Len(sid) \/ msg[p].off > Len(sid)
        <4>1. msg[p] \in Msgs
          BY <1>0 DEF TypeInv, TypeOK
        <4> QED
          BY <1>0, <4>1, FileTypes DEF Msgs
      <3>2. CASE msg[p].off <= Len(sid)
        BY <1>0, <2>2, <3>2, AddPutIdxDying
      <3>3. CASE msg[p].off > Len(sid)
        BY <1>0, <2>2, <3>3, QuietPostDying DEF QuietPost
      <3> QED
        BY <3>1, <3>2, <3>3
    <2>3. CASE AddPutStatus(p)
      BY <1>0, <2>3, AddPutStatusDying
    <2>4. CASE ~(AddAlloc(p) \/ AddPutHdr(p) \/ AddPutIdx(p) \/ AddPutStatus(p))
      <3>1. QuietPost(p)
        BY <1>5, <2>4 DEF PostStep, QuietPost
      <3> QED
        BY <1>0, <3>1, QuietPostDying
    <2> QED
      BY <2>1, <2>2, <2>3, <2>4
  <1>6. CASE PurgeLock(p) \/ PurgeStep(p)
    <2>1. CASE \/ PurgeKeep(p) \/ PurgeDrop(p) \/ PurgeDropUnread(p)
               \/ PurgeFreeDat(p) \/ PurgeFreeDatTimeout(p) \/ PurgeFreeHdr(p)
      BY <1>0, <2>1, ScanStepDying
    <2>2. CASE PurgeWrite(p)
      BY <1>0, <2>2, PurgeWriteDying
    <2>3. CASE PurgeTruncate(p)
      BY <1>0, <2>3, PurgeTruncateDying
    <2>4. CASE PurgePutStatus(p)
      BY <1>0, <2>4, PurgePutStatusDying
    <2>5. CASE EarlyPurge(p)
      BY <1>0, <2>5, EarlyPurgeDying
    <2> QED
      BY <1>6, <2>1, <2>2, <2>3, <2>4, <2>5 DEF PurgeStep, EarlyPurge
  <1> QED
    BY <1>1, <1>2, <1>3, <1>4, <1>5, <1>6 DEF Start, Continue

LEMMA InitDyingIndInv == Init => DyingIndInv
  <1>1. Init => PurgeRoles
    BY DEF Init, PurgeRoles, Proc
  <1> QED
    BY <1>1, InitTypeInv, InitDyingInv DEF DyingIndInv

LEMMA StepDyingIndInv ==
  ASSUME DyingBase, DyingIndInv, [Next]_vars
  PROVE  DyingIndInv' /\ (vars' # vars => Safe)
  <1>1. TypeInv'
    BY StepTypeInv DEF DyingIndInv
  <1>2. CASE Next
    <2>1. PurgeRoles'
      BY <1>2, StepPurgeRoles DEF DyingIndInv, DyingBase
    <2> QED
      BY <1>1, <1>2, <2>1, StepDyingInv DEF DyingIndInv
  <1>3. CASE UNCHANGED vars
    <2>1. DyingInv'
      BY <1>3 DEF DyingIndInv, DyingInv, Held, Bounded, DyingPoster, DyingPurger, Copied, vars
    <2>2. PurgeRoles'
      BY <1>3 DEF DyingIndInv, PurgeRoles, vars
    <2> QED
      BY <1>1, <1>3, <2>1, <2>2 DEF DyingIndInv
  <1> QED
    BY <1>2, <1>3

\* Purges may die wherever they are, between any two of their writes, and what
\* they leave is read and purged again by others: no unmarked message is lost
\* to it, no number is given a second time, and nobody else touches the index
\* while a purge that is alive holds the records it will write back.
THEOREM DyingPurges ==
  ASSUME DyingBase PROVE Spec => NoMessageLost /\ NumbersNeverReused /\ PurgeOwnsIndex
  <1> DEFINE Keeps == \A k \in 1..Len(sid) : "delete" \notin sid[k].attr =>
                          \E j \in 1..Len(sid') : sid'[j].num = sid[k].num
             New == /\ status'.last >= status.last
                    /\ \A j \in 1..Len(sid') :
                         (\A k \in 1..Len(sid) : sid[k].num # sid'[j].num)
                             => sid'[j].num > status.last
             Owned == \A q \in Purgers :
                         pc[q] \in {"pg_scan", "pg_freedat", "pg_freehdr", "pg_trunc"}
                            => pc'[q] # pc[q]
  <1>1. DyingIndInv /\ [Next]_vars
          => DyingIndInv' /\ [Keeps]_sid /\ [New]_<<sid, status>> /\ [Owned]_sid
    <2> SUFFICES ASSUME DyingIndInv, [Next]_vars
                 PROVE  DyingIndInv' /\ [Keeps]_sid /\ [New]_<<sid, status>> /\ [Owned]_sid
      OBVIOUS
    <2>1. DyingIndInv' /\ (vars' # vars => Safe)
      BY StepDyingIndInv
    <2>2. Safe => Keeps /\ New
      BY DEF Safe
    <2>3. vars' = vars => UNCHANGED <<sid, status>>
      BY DEF vars
    <2>4. sid' # sid => Owned
      <3>1. TypeInv /\ Held /\ Modifiers = {}
        BY DEF DyingIndInv, DyingInv, DyingBase
      <3> QED
        BY <2>3, <3>1, IndexOwned
    <2> QED
      BY <2>1, <2>2, <2>3, <2>4
  <1>2. Spec => [][Keeps]_sid /\ [][New]_<<sid, status>> /\ [][Owned]_sid
    BY <1>1, InitDyingIndInv, PTL DEF Spec
  <1> QED
    BY <1>2 DEF NoMessageLost, NumbersNeverReused, PurgeOwnsIndex
=============================================================================
