# Synchronet in TLA+: message bases, node messages, file transfers

Synchronet is a bulletin board system. Its BBS, its mail, web, FTP and services
servers, the FidoNet tosser (SBBSecho), the utilities (smbutil, fixsmb) and any
number of JavaScript programs run as separate processes or threads, and they
share one thing that must never go wrong: the *message bases*, each a handful of
files under `data/`, read and written through the library `src/src/smblib`.
There is no server between them. They synchronise through record locks and
exclusive openings of those files, each wait of which gives up after
`retry_time`, and every error path must leave the files in a state the others
can go on with.

That library and its callers are the core of this project. Two more parts where
programs meet without a server between them are modelled as well: the messages
that the nodes of the terminal server leave each other (`sbbs3/userdat.c`,
`getnode.cpp`), and the transfer of a file by XMODEM or YMODEM over a line that
loses, delays and garbles (`sbbs3/xmodem.c`, `sexyz.c`). Paths below are relative
to `src/src/`.


## 1. Inventory

### The files of a message base

| file   | contents                                    | who guards it |
|--------|---------------------------------------------|---------------|
| `.shd` | status header (`smbstatus_t`), then header records in 256-byte blocks | the status header's byte range (`smb_locksmbhdr`); each record's byte range (`smb_lockmsghdr`) |
| `.sid` | index: one fixed record per message, by increasing number | by convention the status header's lock |
| `.sdt` | texts, in 256-byte blocks                    | the allocation in `.sda` |
| `.sda` | a 16-bit reference count per text block      | opening it DENY ALL (`smb_open_da`) |
| `.sha` | a byte per header block: allocated or free   | opening it DENY ALL (`smb_open_ha`) |
| `.sch`, `.hash` | CRC and hash histories for duplicate detection | opening them DENY ALL |
| `.lock` | exists while the base is packed             | its existence (`smb_islocked`) |

A *hyper-allocated* base (`SMB_HYPERALLOC`) has no allocation files: headers and
texts are always written at the end.

### The parts, their state, and what makes them correct

**Message base core** (`smblib/smblib.c`, `smbadd.c`, `smbfile.c`).
State: `last_msg` and `total_msgs` in the status header, the index, the header
records, and each process's copies of them. Operations: post a message
(`smb_addmsg`, `smb_addmsghdr`), rewrite a header (`smb_updatemsg`, and the
lock / look up / read / change / `smb_putmsg` sequence that readers, POP3 and
scripts do for themselves), look a record up.
Correct when: the index is sorted and its length is `total_msgs`; every record
leads to its own header; no number is used twice; what was posted stays until it
is marked for deletion; what is marked stays marked; every call ends and leaves
nothing locked.

**Purge** (`sbbs3/mail.cpp` `delmail`) and **maintenance** (`sbbs3/smbutil.c`
`maint`). They free the headers and texts of marked messages and rewrite the
index without them. They begin with the base locked, but freeing a text unlocks
it ("Always unlocks the SMB header", `smballoc.c:217`), so that most of their
work is done without it. Correct when the properties above hold beside them.

**Texts and reference counts** (`smblib/smballoc.c`; `bulkmail.cpp`,
`writemsg.cpp`, `mailsrvr.c`, `js_msgbase.c`). A mail to many is stored once and
counted once per header. Correct when a block in use is never free, a block not
in use is free when nobody is at work, and a reader never sees another text.

**Index search** (`smb_getmsgidx`, `smb_getmsgidx_by_time`). Two hand-written
bisections. Correct when they find what is there, stay in the file and end.

**Node status and messages between nodes** (`sbbs3/userdat.c`, `getnode.cpp`,
`putnode.cpp`, `logon.cpp`, `logout.cpp`, `main.cpp`, `nopen.c`). State: a
record for each node in `node.dab` (status, user, flags), a file of telegrams
for each user and one of messages for each node. A writer appends to the file
and then flags the nodes whose session should look; a session that finds its
flag set clears it and then reads and empties the file. Records are read without
their locks and looked at again, or not, with them. Correct when a message that
waits for a session is known to it, and no message is emptied out of its file
that nobody was shown.

**File transfer protocols** (`sbbs3/xmodem.c`, `sexyz.c`; `zmodem.c`). State: each
end's place in the protocol, block numbers, error counts, and what is under way.
The two ends agree on the check to use, send and answer one block at a time, and
repeat what is not answered. Correct when the file written is the file sent, the
two ends agree on what has arrived, and neither waits for ever.

**Threading** (`smb_updatethread`, `smb_next_in_thread`, `smb_last_in_branch`):
links between headers of a thread. **Duplicate detection** (`smbhash.c`,
`smb_addcrc`): bounded histories. **Polls and votes** (`smb_addvote`,
`smb_addpoll`, `smb_addpollclosure`, `postmsg.cpp`). **Packing** (`packmsgs`,
`smb_lock`): replaces the files under programs that have them open. None of the
four is modelled (section 7).

**The rest** - terminal, mail, web, FTP and service protocols, FidoNet and QWK
packets, file areas, user records, JavaScript bindings, configuration,
portability layer, consoles and clients, the old sbbs2 - is listed under "components" in `PROJECT.json` with the reason it is left
out. Most is input and output, or posts and reads through the library above.

### How they interact

Only through the files, their locks, and the rule that every wait is bounded;
the two ends of a transfer through the line and their timeouts. What makes it
hard:

* *order of locks.* `smb_addmsg` locks the base and then opens `.sda`;
  `smb_freemsgdat` opens `.sda` and then locks the base. Timeouts end the wait.
* *locks given up early.* `delmail` and `maint` lose the base lock at the first
  text they free.
* *stale copies.* The status, the index and headers are read, kept and written
  back: by `delmail` and `maint` at the end, by the mail server after a network
  transfer.
* *partial failure.* Posting writes five files in turn. A timeout in the middle
  makes the caller give back what it has taken, and that may time out too.
* *crashes.* Nothing is journalled. The operating system drops a dead
  process's locks and leaves what it wrote.
* *deferred counts.* The headers of a bulk mail are visible before their
  references are counted.
* *flags and files.* The flag in the node's record and the file it announces are
  written one after the other, by writers and readers in opposite orders.
* *an unreliable line.* An answer may be lost, late or garbled, and a repeated
  block, request or end of file must not be taken for a new one.

"hazards" in `PROJECT.json` lists each at the line where it bites, with the
properties that would catch it, or why none does yet.


## 2. The modules

| module | models |
|--------|--------|
| `SmbBase` | the core with every caller that posts, rewrites a header or purges; locks, timeouts, crashes |
| `SmbMaint` | extends `SmbBase` with `maint()`, beside all of those |
| `SmbIdxSearch` | the two bisections, one turn of the loop a step |
| `SmbStore` | text blocks and reference counts with sender, bulk mailer, mail to a list, forwarder and purge |
| `MsgTexts` | what a base promises a reader; `SmbStore` implements it |
| `NodeMsgs` | node records, telegrams and node messages, with sessions, scripts and writers |
| `Xmodem` | both ends of an X/YMODEM transfer and the line between them |
| `FileTransfer` | what a stop-and-wait transfer promises its ends; `Xmodem` implements it |
| `SmbBase_proofs`, `SmbBase_crash_proofs`, `SmbBase_purge_proofs`, `SmbMaint_proofs`, `SmbStore_proofs`, `SmbIdxSearch_proofs`, `NodeMsgs_proofs`, `Xmodem_proofs` | theorems checked by TLAPS (section 4) |
| `MCSmbBase`, `MCSmbMaint`, `MCSmbIdxSearch`, `MCSmbStore`, `MCNodeMsgs` | symmetry sets and data for TLC |

Each model has a section *Plausible mistakes*, or mistakes beside the operator
they vary: copies of an action with one thing wrong. No specification uses them.
`PROJECT.json` ("mutants") pairs each property with one that breaks it.

### SmbBase

One step is what a process does between two points at which another could
observe or disturb it: one lock operation, or one write of one file. A process
is identified with the role it plays.

| variable | code |
|----------|------|
| `hdrLock`, `msgLock[s]` | record locks on the status header and on the header in slot `s` |
| `daLock`, `haLock` | who has `.sda` / `.sha` open |
| `status`, `sid`, `shd` | `smbstatus_t` on disk, index file, header records by slot |
| `sha`, `shaEnd` | allocated slots; end of the `.sha` file |
| `pc`, `st`, `msg`, `buf`, `pos` | each process's place, `smb->status`, `smbmsg_t`, `delmail`'s `idxbuf` and file position |

| role | calls | actions |
|------|-------|---------|
| `Adders` | `smb_addmsg` | `AddLock` ... `AddPutStatus`, `Undo*` when the header cannot be added |
| `Headers` | `smb_addmsghdr` alone (votes, further recipients) | `HeaderLock`, then the same |
| `Updaters` | lock, look up, read, mark, write (POP3, `readmail`) | `UpdateLock`, `GetMsgIdx`, `LockMsgHdr`, `PutHdr`, `PutIdx` |
| `Senders` | read, transfer, `smb_updatemsg` (`sendmail_thread`) | `SendRead`, `SendLock`, then the same without reading again |
| `Editors` | `MsgBase.put_msg_header` | `EditBegin`, then the same without the base lock |
| `Purgers` | `delmail` | `PurgeLock` ... `PurgeClose` |

A header slot stands for however many blocks the header has; a message's content
here is its number and its two attributes `read` and `delete`. `Crash` lets a
process of `Crashers` die between any two steps. A timeout that happens before
a call has changed anything is a stuttering step and not written down.

`AddPutIdx` uses the offset computed from the status read earlier, fails when the
index is now shorter (`SMB_ERR_HDR_OFFSET`), and *overwrites* when it is longer,
as `smb_putmsgidx` does. `PurgePutStatus` writes the `last_msg` read at the
start. `UndoLockTimeout` leaves the `.sda` file open, as `smb_freemsgdat` does on
that path; `CloseBase` is the `smb_close` that ends it.

### SmbMaint

`maint()` reads the status and the index, marks and frees, closes the allocation
files and only then rewrites the index from what it read. The messages it marks
itself (age, maximum) are among those marked in `Init`. `Resize` is `chsize`: it
may lengthen the file. `Readers` do what `loadmsg` and its callers do: they find
a record without the base lock and hold the header's, so that `maint()`, meeting
it, breaks off. (`loadmsg`'s attempt by offset, made first, is the same lock on a
header chosen in another way.)

### SmbIdxSearch

`bot`, `top` and `l` are the variables of the C functions. The bounds move by the
code's mixture of halving and single steps. The index does not change during a
search; callers that hold no lock check the header they get. `TimeResult` is what
the search by time gives: a record at or after the time, with none before it but
older ones and ones of that very time. Its heading (`smblib.c:608`) promises the
*last* such message, and that is not true, so it is not claimed: of several with the
same time the loop stops at the first it meets, in the middle. What the callers need
is the first: `getmsgnum` (`getmsg.cpp:529`) goes on from the number before the one
found, and so passes over messages of the same time before it.

### SmbStore and MsgTexts

`sda` is the `.sda` file; `sdt` holds for each block which text and which part of
it is there, so that reading someone else's block shows. A *layout* gives the
lengths of a text's data fields in units of which `BlockLen` fill a block, so
that two fields may share a block, as body and tail do in the code. The store
counts by field, as `smb_incmsg_dfields` and `smb_freemsg_dfields` do: a shared
block is allocated once and given back twice, and the counts are saved only by
`smb_freemsgdat` not going below zero. Headers are one step here (`SmbBase` has
their detail).

| role | calls | actions |
|------|-------|---------|
| `Senders` | `smb_addmsg` | `AddLock`, `StoreText`, `AddHdr`, `Undo*`, `Free*` |
| `Mailers` | `bulkmail`: the text, a header for each recipient, then the others counted | the same, `AddRcpt`, `SkipRcpt`, `Count`, `IncRefs` |
| `Listers` | `MsgBase.save_msg`, `inetmail` to a list: likewise, but `smb_incmsg_dfields` opens the `.sda` file itself | the same, `ListDone`, `IncOpen`, `IncRefs` |
| `Forwarders` | `forwardmail`: one more counted, then the header, and freed if that fails | `Forward*`, `IncRefs`, `AddHdr` |
| `Purgers` | `delmail` | `Purge*` |

`leaked` and `short` are history variables: the blocks a call that returned an
error could not give back, and those whose headers it could not count. They
exclude from the properties what the code has reported as failed, and one thing
it has not: when `bulkmailhdr` cannot read a recipient's user record it returns 0
without adding a header (`bulkmail.cpp:193`), and `bulkmail` counts one all the
same (`SkipRcpt`). Such a text is in `leaked` too: it has a reference too many for
ever, and if nobody else received it, it stays allocated with no header at all.

`Mark` is a reader's `smb_updatemsg`. It locks the base and nothing else, so it
happens also while a purge that has lost the base lock (`smballoc.c:217`) goes on.
Whether that purge sees the mark depends on how much of the index its stdio buffer
held already: `late` is the set of messages marked since the purge opened the base
that it has not come to see, `PurgeNext` may free them or pass over them, and
`PurgeClose` writes the records of those it passed over back as it has read them.
Such a message is there again for everyone, since readers go by the index
(`loadmsg`, `getmail`), although its header keeps the mark: what `smblib.c:1615`
("Insure no one else can be changing the index at this time") and `mail.cpp:93`
("Don't need to lock message because base is locked") would exclude, and the base
lock does not, once the first text is freed. With
an empty `.sda` file `smb_freemsgdat` returns before it tries the lock
(`smballoc.c:158`), and so does `PurgeFree`.

`MsgTexts` is the reader's view: a map from numbers to texts in which messages
appear and disappear but never change. A deletion is final unless the base is
being cleaned at the time: then it is `unsure` until the cleaner has seen it
(`SeeDeleted`), and what is still unsure when the cleaning ends (`EndCleaning`) is
back in the box with the text it had. `ImplementsTexts` says that the store is an
implementation of it, with `box` the text each unmarked header's blocks hold,
`last` the last number given out, `cleaning` the time a purge has the `.sha` file
open, and `unsure` the texts of the late messages.


### NodeMsgs

One step is one routine on a record of `node.dab`, which is locked, read,
changed, written and unlocked with nothing in between (`getnodedat` ...
`putnodedat`), or one reading of it without the lock, or one opening, reading,
emptying or closing of a message file. `node` is the record; `file[f]` what waits
in `msgs/<user>.msg` or `msgs/n<node>.msg`; `target` and `at` the file a routine
is busy with and the record it has come to; `scripts` the sessions whose routine
runs for `system.get_telegram` and its like (`getsmsg` of `userdat.c`, which looks
at less than `getsmsg` of `getnode.cpp`).

| code | actions |
|------|---------|
| connection, `logon`, `logout`, end of `node_thread` | `Connect`, `Logon`, `RemoveMsgs`, `Logoff`, `EndCall` |
| `nodesync` (called whenever a session waits for its user) | `Sync` |
| `system.get_telegram`, `system.get_node_message` | `Script` |
| `getsmsg`, `getnmsg` | `ClearLook`, `Unflag`, `ReadEmpty`, `ReadFile`, `Cut`, and the waits that fail |
| `putsmsg`, `putnmsg` | `PutOpen`, `Append`, `Look`, `Flag`, `FlagTimeout` |

`nopen` opens a file for one program and denies all others (`Held`). `RemoveMsgs`
removes the node's file at the logon; a program that has it open keeps writing
to a file without a name (`orphan`). `shown`, `sent`, `gone` and `missed` are
history. `missed` names the files whose reader was not told in one of three
ways: a script read without looking again whose record it had locked
(`userdat.c:1334`), a record of a node could not be locked (after which
`putsmsg` goes on with a closed descriptor, `userdat.c:841`), a file could not be
opened after its flag had been cleared (`getnode.cpp:338`). All are hazards of
`PROJECT.json`; nothing else is excluded.

### Xmodem and FileTransfer

The sender is `xmodem_send_file` with `send_files` around it, the receiver
`receive_files` of sexyz; every place where one of them reads or writes the line
is an action. `fwd` and `back` are what is under way. A block is one item and its
check tells whether it was garbled; the eight CANs of a cancellation are one
item; lengths count 128 bytes. The line keeps the order of what it carries, and
may lose any of it, garble any of it or hang up, each counted in `faults`. A
routine that purges its input (`xmodem_put_nak`, `xmodem_put_ack`,
`xmodem_put_eot`) throws away some first part of what is under way (`Drained`):
what has arrived by then.

*Time.* Nobody sees a clock, but timeouts are not arbitrary. A timeout while the
other end has something under way, or work to do, means that something was
slow, and counts as a fault. When both ends wait in vain the one with the
shorter wait gives up first: the receiver (`RecvQuiet`), which repeats its
request for the header or block 1 every 3 seconds and other requests every 10;
where both wait 10 either may be first (`SendQuiet`).

`FileTransfer` is stop-and-wait as the two ends see it: how many blocks are
taken and how many confirmed, and who calls the transfer complete.
`ImplementsTransfer` maps block numbers to it. `spoilt`, a history variable, is
the one exclusion: after three errors at block 1 the sender goes over to short
blocks (`xmodem.c:586`) although the long one may have been taken and its answer
lost, or be under way still. Both ends then report a complete file whose
contents are wrong; it is the hazard at that line.

Two more things the model shows of the code, which the properties allow for.
A repeated block is dropped without an answer (`xmodem.c:297`): a lost ACK
therefore dooms the transfer - no answer to that block will ever come - and
`Delivers` excepts it (`ackGone`); but it is also what keeps every ACK tied to
one block, as `ImplementsTransfer` says. And the YMODEM receiver does not compare
what it has with the length announced when the end comes.


## 3. The runs

All expected results are those of `tlc -config <cfg> <module>`; distinct states in
parentheses.

| run | what it shows |
|-----|---------------|
| `base_fast` (48 544) | Posts, header-only posts and two purges of a base that is not hyper-allocated. Although a purge gives up the base lock, the exclusive `.sha` file keeps posts and the other purge from what it rewrites: sorted index, own headers, agreeing status, nothing lost, no number reused, the index untouched between a purge's first read and its cut. Every call returns although the locks are taken in opposite orders. |
| `base_crash` (2 163 905) | Two posters and the mail server's update, all of which may die anywhere, beside a script that rewrites headers without the lock on the base. The length check in `smb_addmsghdr` keeps later posts from building on a half-made one. |
| `base_purge_crash` (50 458) | A post beside two purges, which may die anywhere: what a dead purge leaves half-written costs no unmarked message and no number. |
| `base_hyper` (282 488) | Hyper-allocated base: post, header-only post, a reader marking, a purge and `maint()`. The base lock is held throughout and is enough. |
| `base_stale`, *violation* | `smb_updatemsg` is documented to update safely, and writes a header read before someone else marked the message: the mark is gone. |
| `maint` (1 792 673) | `maint()` without hyper allocation beside two posters, one of which may die, and a reader: no unmarked message loses its header block, locks are given back on every path, and the allocation files are open in one program at a time. |
| `maint_lost`, *violation* | `maint()` writes back the index it read before it gave up every lock: a message posted meanwhile is cut off. |
| `idx_search` (17 952) | Both bisections on every sorted index of up to six records over six keys, for every key. |
| `store` (648 963) | Sender, bulk mailer, mail to a list, forwarder and purge share two texts' blocks, a reader marks messages at any moment; recipients are skipped, headers fail, calls time out, blocks are freed, cut off and allocated again. When idle each block is counted by header and field but where a call has failed or a recipient was skipped, no used block is free, and the abstract base is implemented. |
| `store_window`, *violation* | A purge between a bulk mailer's headers and its counting frees a text others still have. |
| `xmodem` (883 614) | A file sent in long or short blocks, by XMODEM or YMODEM, with CRCs or checksums, over a line that does three things wrong: the two ends implement `FileTransfer`, the file written is the file sent, it arrives when no ACK is lost, and neither end waits for ever. |
| `nodes` (3 335 610) | Two users call two nodes, three times in all, while two programs write telegrams or node messages, scripts read somebody's, and one wait fails: nobody is left with a message he does not know of, and none is emptied unread. |

The three violations are findings: in each, the quoted documentation says what
the code does not do.

Two more sentences of the documentation are contradicted by properties that hold.
`smb.txt:1834-1838` has the word of a block in the `.sda` file be "the number of
message header records associated with this message data": by `RefsExact` it counts
headers and fields, 3 for two headers in a block of two fields (`smballoc.c:288`),
and recipients skipped by `bulkmailhdr` come on top. And the heading of
`smb_getmsgidx_by_time` (`smblib.c:608`) promises the last message of a time where
`TimeResult` has any of them.

### Bounds, and why they are enough

* *Processes.* Each property relates at most a purge, a poster and a third
  party. Roles of the same kind differ only in name, and `base_fast` has two
  purges, `base_crash` two posters.
* *Messages.* Three initial ones let a purge keep, drop and keep; two more
  numbers let a post follow a post that failed. `MaxMsgs` guards only the start
  of a call, never its middle. Where purges free slots that
  posts take again there is one slot more than messages, so that first fit has a
  choice. A call starts only while a slot is
  free: the number of slots is a bound of the model, not of the code.
* *Maintenance.* One `maint()`: with two, the second writes back its stale copy
  of the index after the first has freed headers it names, and `KeptHasHeader`
  fails (section 6). The poster that dies leaves an index longer than
  `total_msgs`, so that another post fails and has the `.sda` file open when
  `maint()` wants it.
* *Search.* Six records reach every parity of both halves twice; larger indexes
  are the theorems' business.
* *Texts.* Two texts and three headers: one shared by two headers beside one of
  a single header, in blocks freed and given out again. `RefWidth` has its real
  value 2^16 and is not reached.
* `SendLayouts` has a text of one field and one whose fields do not share a
  block; `MailLayouts` one whose fields do. A *sender's* text with a shared block
  is left out of the run: `smb_addmsg`, undoing, gives the fields back one at a
  time with everything unlocked in between, and a block shared by both may be
  given to another message before the second time. Layouts in which a tail
  starts in the middle of a block and ends in the next are left out as well: the
  code computes the blocks of a field from its length alone. Both are hazards of
  `PROJECT.json`.
* *Node messages.* Two nodes, so that a walk over the records has a next one and
  a user may move between them; two writers, so that one may write while
  another's message is being read; three calls, so that a node and a user have an
  earlier session; one fault, since each is excluded in its own way. Messages go
  to one user and one node (`Addressed`); the other user and node are bystanders
  whose flags must not be touched.
* *Transfers.* Three units in blocks of one or two: a long block, a last one that
  is shorter, and three short ones, which is one more than block numbers modulo 3
  tell apart; and the empty file. Three faults are what the fallback to short
  blocks takes. `MaxErrors` is its real value, 9. `AckTries` is 2 for 6.
* `QuietPurge` restricts `store`: no purge begins while a mailer's headers are not
  counted or a forwarder is at work, and none frees a message that was marked after
  it began and is being forwarded. `store_window` is what happens otherwise. Readers
  are not restricted: they mark whatever they like whenever the base is not locked.

### Fairness

Safety runs have none. `FairSpec` of `SmbBase` has weak fairness of `Continue(p)`
for each process: a program in a call goes on with it. The code justifies it:
every wait is a loop bounded by `retry_time`, so at each point either the lock
is obtained or the timeout action is enabled. No fairness is assumed of starting
a call, of `CloseBase` or of `Crash`. Obtaining a lock is never guaranteed, only
that the call returns (`CallsReturn`). `SmbIdxSearch` has weak fairness of its
loop, which waits for nothing. `FairSpec` of `Xmodem` has weak fairness of each
end and of noticing that the line is gone: both programs run, and at each point
they have input or time out. Nothing is assumed of the line, and a timeout that
counts as a fault is bounded by `MaxFaults` like every other. `NodeMsgs` has
none: that a waiting message is read in the end needs a session that comes back
to its menu and is not always diverted there, which its user decides.

### Deadlock

Checked except in `base_crash`, `base_stale`, `idx_search`, `nodes` and
`xmodem`. In the first two the bounds on slots and messages may leave no process
anything to start; a search and a transfer end; and so do calls to the nodes,
which are bounded.


## 4. What is proved

`tlapm` checks every theorem to its last leaf. They hold for all values of the
constants that satisfy `SmbBaseAssumption` (the roles are disjoint, slots are
positive, the first messages have slots), `SmbMaintAssumption` (whoever runs
`maint()` purges, readers are among those that lock the base first),
`SmbStoreAssumption` (the roles are disjoint, a block is not empty, every field of a
layout has something in it), `SearchAssumption` (keys are
positive), `NodeMsgsAssumption` (there is a node and a user; nodes, users and
writers are told apart) or `XmodemAssumption` (a long block is longer than a
short one, block numbers wrap at a modulus above 1, each block is tried at least
once), and under the further assumption each names.

| theorem | says | assumes |
|---------|------|---------|
| `TypeCorrect` | `Spec => []TypeOK` | - |
| `LocksReturned` | `Spec => []IdleHoldsNoLock` | - |
| `CrashSafe` | `Spec => [](IndexSorted /\ OwnHeader)` | `NoPurge` |
| `CrashKeeps` | `Spec => NoMessageLost /\ NumbersNeverReused` | `NoPurge` |
| `MarksStick` | `Spec => MarkSticks` | `NoPurge`, `NoSenders` |
| `PurgeSafe` | `Spec => [](IndexSorted /\ OwnHeader /\ StatusAgrees)` | `FastBase` |
| `PurgeKeeps` | `Spec => NoMessageLost /\ NumbersNeverReused /\ PurgeOwnsIndex` | `FastBase` |
| `DyingPurges` | `Spec => NoMessageLost /\ NumbersNeverReused /\ PurgeOwnsIndex` | `DyingBase` |
| `TablesInOne` | `MaintSpec => []OneInTables` | - |
| `MaintLocksReturned` | `MaintSpec => []IdleHoldsNoLock` | - |
| `HyperSafe` | `MaintSpec => [](MaintIndexSorted /\ OwnHeader /\ StatusAgrees)` | `HyperBase` |
| `HyperKeeps` | `MaintSpec => NoMessageLost /\ NumbersNeverReused /\ IndexWrittenUnderLock` | `HyperBase` |
| `HyperMarksStick` | `MaintSpec => MarkSticks` | `HyperBase`, `Sendless` |
| `MaintSafe` | `MaintSpec => [](KeptHasHeader /\ MaintIndexSorted)` | `MaintBase` |
| `KindsKept` | `Spec => []Kinds` (of `SmbStore`) | `QuietBase` |
| `BlocksSound` | `Spec /\ []Roomy => []StoreInv` | `QuietBase` |
| `CountsExact` | `Spec /\ []Roomy => [](UsedNotFree /\ RefsExact)` | `QuietBase` |
| `TextsRefined` | `Spec /\ []Roomy => ImplementsTexts` | `QuietBase` |
| `SearchCorrect` | `Spec => [](NumberResult /\ TimeResult)` | - |
| `SearchShrinks` | `Spec => RangeShrinks` | - |
| `NodeTypes` | `Spec => []TypeOK` (of `NodeMsgs`) | - |
| `NobodyForgotten` | `Spec => []NotForgotten` | - |
| `NothingLost` | `Spec => []ShownOnce` | - |
| `TransferTypes` | `Spec => []TypeOK` (of `Xmodem`) | - |
| `ArrivesIntact` | `Spec => []Intact` | - |
| `TransferRefined` | `Spec => ImplementsTransfer` | - |

**Types and locks** (`SmbBase_proofs`, `SmbBase_crash_proofs`). `TypeOK` is not
inductive: the slot a purge frees and the records it cuts are in range only
because one purge at a time has the `.sha` file (`HaHeld`) and its buffer is not
longer than the index (`CutFits`). `LockInv` says of every lock that whoever
holds it is at a place in a call from which the call gives it up; it needs no
assumption on who else runs or dies. The base lock has no such simple owner: a
purge may lose it, and `smb_unlocksmbhdr` by a process that does not hold it is
harmless, which the proof has to show of each of those calls.

**Crashes** (`SmbBase_crash_proofs`; `NoPurge`: nobody runs `delmail`).
`CrashInv` adds to the properties what each process knows in the middle of a
call. A poster's offset is the end of the index, its number is one above
`last_msg`, its slot is marked in `.sha` and in no record; a dead poster leaves
the index one record longer than `total_msgs`, after which `smb_addmsghdr`
refuses (`SMB_ERR_FILE_LEN`) and nobody writes a second such record. What a
process that rewrites a header knows is that the record at its offset has the
number and the slot it holds, which stays true because nothing moves records.

**Marks** (`SmbBase_crash_proofs`; `NoSenders`: nobody writes a header he read
before he had its lock, which is what `sendmail_thread` does and `base_stale`
shows going wrong). `MarkInv` relates the two copies of a message's attributes.
A mark in the index is in the header as well (`Marks`), since the header is
written first; whoever is about to write a header has its lock and all marks it
has now, and between the two writes the header is what he will put in the index
(`Hand`). A process that dies there leaves a mark in the header alone, which the
next to rewrite it reads. That a mark stays with its message, not only in its
place, is `CrashInv`: records keep their places and no two have one number.

**Purges** (`SmbBase_purge_proofs`; `FastBase`: no hyper allocation, posts and
purges only, nobody dies). The point is what protects a purge once it has lost
the base lock. `Held` says that from the first slot taken until the status is
written no purge has the `.sha` file, since `AddAlloc` has to open it; a post may
therefore come as far as `add_alloc`, holding the status and the offset of the
longer index. `Poster` says such a post's offset is at least the length of the
index: equal, and its status is current, or beyond it, and `AddPutIdx` will
refuse. The inequality `Len(buf) < pos` that a purge without the lock keeps
(`Buffer`: something was dropped, or the lock would not be lost) makes the cut
visible to every such post. `Copied` says the buffer has all unmarked records
read so far, and only those; `Freeing` that the slot about to be freed belongs to
none of them and to none that follows; `HeaderData` that all but dropped records
have their own headers. `PurgeOwnsIndex` follows from `Held` and `HaHeld`.

**Purges that die** (`SmbBase_purge_proofs`; `DyingBase`: the same base, but purges may
die anywhere). Little of the above is left. Between its writes a dead purge leaves
records twice and out of order, marked records whose headers are gone, or an index
shorter than `total_msgs`. What remains is an inequality in place of each equation
(`Bounded`): the index is at most as long as `total_msgs`, and no number in it is above
`last_msg`, but while a post is between its two writes. That is enough. A post that
was let in by the length check has an offset not before the end of the index, so it
appends or is refused (`DyingPoster`). A purge reads to the end of the index, since
`total_msgs` does not stop it earlier, and so has every unmarked record in its buffer
when it writes (`Copied`, `DyingPurger`). That posts do not die is needed: one that does
leaves the index longer than `total_msgs`, which a purge takes for its end
(section 6).

**Locks of maint()** (`SmbMaint_proofs`). `LockInv` goes both ways for every
process: where it is in its call tells that it has the allocation files (`Open`),
and what it has open or locked tells where it is (`Holds`), at a place from which
it will give the thing up. Two programs could only have the `.sha` file at once if
both had the `.sda` file. The exception is an `smb_addmsg` that has failed, whose
undo may leave the `.sda` file open (`UndoLockTimeout`); it does not have `.sha`
open from one step to the next. None of this needs `TypeOK`, which is false here: the index may hold records
of no message after `Resize`. `Shapes` is all the types the locks depend on.

**Hyper-allocated bases** (`SmbMaint_proofs`; `HyperBase`: hyper allocation, no
`Editors`, and only programs that rewrite headers may die). Here `delmail` and
`maint()` free nothing and so never lose the base lock. `HyperInv` says first that
whoever is at work has it (`PlaceOf`), and is therefore alone (`KnownAlone`): the
rest of the invariant need only be kept by the one process whose step it is.
`Orderly`, the three properties together, holds unless somebody is between two
writes that belong together (`Halfway`), and `Knows` says for each such place
what the process must know to put it right: a poster that its record is the one
beyond `total_msgs`, `delmail` that its buffer has the unmarked ones of the records
it has read (`KeepsTo`), `maint()` that the index is still the one it took but for
marks (`Snapshot`), both at last that the index begins with what they have written
(`Rewritten`). What `maint()` writes back is computed by a loop (`Kept`), about
which `KeptTo` proves by induction on the number of turns that it keeps the
unmarked records, in order, and no others. `HyperMarks` adds that a mark in the index is in the header as well
and what each modifier has read of both; `Sendless` (no `Senders`) is the same
exclusion as `NoSenders`.

**What maint() keeps** (`SmbMaint_proofs`; `MaintBase`: no hyper allocation, one
program that runs `maint()` and does not die in it, no `delmail`; the others post or
read headers, and any of them may die). `maint()` loses the base lock as `delmail`
does, but it has read the whole index first, and writes it back long after. `FreeInv`
says of each record `i` that its header is still its own (`OwnRec`) unless it is
`Gone(i)`: marked in the copy `maint()` has, and passed. `Taken` says the copy is still
the beginning of the index but for marks. A header that is freed belongs to no other
record, since no two records of a sorted index have one number (`SameNumber`), and
what is cut from the end of the `.shd` file has no slot that is allocated. Nobody
adds a record while `maint()` has the `.sha` file, which `smb_addmsghdr` has to open
(`PostKnows`). After that a poster may find the file free and `maint()` not yet done;
the status it has then counts at least the records and the number `maint()` has, so
that after the cut its offset is beyond the index, and it is refused. The records kept
are unmarked ones of the index (`KeptOfTaken`), and `Numbered` says no number in use
will be given again. The assumption is needed: with two maintainers the property
fails (section 6), and one that dies after it has freed headers and before it has
written the index back leaves records that lead to freed headers.

**Texts** (`SmbStore_proofs`; `QuietBase`: purges do not overlap the uncounted phase
of a mailer or a forwarder, in the sense of `QuietPurge` (section 3), and the layouts are of the kinds in the run: one
or two fields, no tail that starts in the middle of a block and ends in the next,
and no block that two fields of a *sender's* text share. What happens otherwise is
`store_window` and two hazards, see the bounds in section 3). `Roomy` is the
absence of wrapping: whenever `smb_incdat` is about to add, the sum is below
`RefWidth`. It is a hypothesis of the theorems and not a bound on the constants,
because no bound would be enough: a forwarder whose `smb_incdat` fails past the end
of the file has added to the blocks before, and may try again as often as it
likes. In the run `Roomy` holds throughout.

`Kinds` comes first: what each process has locked and holds, where it is. It needs
nothing of the counts: who frees or counts has the `.sda` file (`Owned`), a purge
in its loop keeps mailers and forwarders at places where they have nothing
uncounted (`Still`, from the two files it has open), and the header it is at is
marked, seen to be marked, and still there (`Known`). A header is `Spared` if it is
not marked or its mark is late; what a forwarder holds stays the text of a spared
header while a purge runs. `StoreInv` then says `Sound(b)` of each block
`b` that is not `short`. Either one process owns it (`Owns`: a sender until its
header is written, a mailer until its headers are counted, either of them while
it gives back what it could not use) or it belongs to the headers in it, all of
one text; and a forwarder that has added a reference and not yet a header has it
in hand (`Hands`). The count plus what a purge has freed of a shared block already
(`Gone`) is what these claims come to, or more if the block is `leaked`, by a call
that failed to give it back or a recipient counted without a header. That is the
exact extent of `BlocksSound` and `CountsExact`: they are about the counts the code
keeps, one for each header and field, not those of `smb.txt`, and say that over-counts
have no other cause than these two. As the parts of `Sound(b)` speak of one block only, each action is taken
through the blocks it touches and those it leaves alone (`SoundBeside`,
`SoundKept`). Shared blocks are where this is least obvious: the first field of
the last header takes such a block to zero while the second is still to be freed.
That the count then stays at zero, and that the block is given to nobody in
between, is `Gone` and the `.sda` file the purge has open. What `smb_freemsgdat`
cuts from the end of the file has no claims on it, and what `smb_allocdat` finds
free has none either (`Unclaimed`). The sums are sizes of finite sets of pairs of
header and field (`Uses`), so that no induction is needed for them.

The refinement follows from `Sound`: a spared header's blocks have counts above
zero (`SparedUsed`), hence hold its text (`TextIs`), whether it is readable or may
become so again; so `box` and `unsure` are functions of the readable and of the late
headers alone (`BoxIs`), and a step adds one, takes one or leaves them
(`ReadableNext`), but for those of a purge: opening the base is `BeginCleaning`, seeing
a late mark `SeeDeleted`, and writing the index back `EndCleaning`, which puts the late
messages into the box again (`BoxJoins`).

**Search** (`SmbIdxSearch_proofs`). Whatever the index length, the bounds enclose
the answer and the range shrinks in each turn.

**Node messages** (`NodeMsgs_proofs`). `NotForgotten` is inductive beside `Kinds`,
which says where each kind of process can be and that a routine on a node's file
looks at that node's record. Its cases show why the order of the code is right:
a writer has appended before it looks at the records, so that a session it has
passed either had its flag set already or is not the one addressed (`ToldLook`);
a reader that clears a flag has yet to read (`ToldUnflag`); and it leaves nothing
behind when it has (`ToldCut`). `ShownOnce` needs `Fates`: a file is open to one
program at a time, what is in it has not been shown unless its reader is about
to empty it, and no message is in two files.

**File transfer** (`Xmodem_proofs`). `Inv` is `Kinds` together with `Exchange`,
which is claimed unless the length of block 1 was `spoilt` (a short block sent
in the place of a long one that the receiver has or will get). `Exchange` has
four parts. `Phases` says which places of the two ends go together: the receiver
is at the sender's block or one beyond it, and it has seen an EOT or is done only
if the sender has come that far. `Contented` says what is written in terms of
the sender's count: exactly the units before the current block, or also that
block. Neither survives a step without knowing what is under way. `Acks`: an ACK
on the line is for what the sender waits for, and is the only one until the EOT,
since a repeated block is not acknowledged again (`GetRepeated`). `Line`: a data
block under way is the current one or a copy of the one before, and none before
it on the line is newer (`PairOK`). With that a block that carries the number the
receiver expects is the current block, since two neighbours never have equal
numbers (`NextDiffers`). Losing items from the line and emptying it leave a
part of it in order (`Sub`), under which `Line` and `Acks` are closed. The
refinement follows step by step: four kinds of steps change what `FileTransfer`
sees, and each is one of its actions.

Each inductive invariant was checked by TLC as an invariant before it was proved.


## 5. What is only model-checked

* Liveness: `CallsReturn`, `Delivers`, and `Ends` of searches and transfers
  (`SearchShrinks` is the measure of the former; the prover does not reason about
  fairness).

Every safety property of a passing run is stated by a theorem, under the assumption
section 4 names with it. Outside those assumptions nothing is claimed: of a base on
which a purge has died, for example, not that its index is sorted or its status
agrees with it.


## 6. What is not modelled

* Contents of headers beyond number and attributes, and of index records beyond
  number, slot and attributes (a parsed message is `smb_getmsghdr`'s business and
  changes no shared state).
* The header's block count: a header is one slot. `smb_allochdr` looks for a run
  of free blocks as `smb_allocdat` does, and that one is in `SmbStore`.
* `smb_hallocdat`: texts of hyper-allocated bases are appended and never freed.
* Record locks of two handles in one process, which POSIX merges
  (`smblib.c:307`): each process has one handle on a base.
* The index search on an index that changes under it (`getmsg.cpp:75`); in
  `SmbBase` a look-up is one step.
* Read errors, short writes and a full disk. Timeouts and the length checks are
  the failures modelled.
* In `SmbStore`: how the mail server frees a text for which it found no recipient
  (`mailsrvr.c:3960`), counting every field down with the base released in
  between. With a block shared by two fields it is the same hazard as the
  sender's, `smballoc.c:349`, and excluded like it. And `editmsg`, which frees the
  old text, and with that the base lock, before it allocates the new one
  (`writemsg.cpp:1499`): while it does, no property of the store holds of that
  message, not even with nobody else at work. And taking a mark off again
  (`readmail.cpp:417`), which beside a purge may come when the text has been freed.
  The first two are hazards of `PROJECT.json`, the third is named with that of
  `smballoc.c:217`.
* In `Xmodem`: the streaming mode (`GMODE`), batches of more than one file, the
  receiver's options `fallback_to_xmodem` and `max_file_size`, errors of writing
  the file, ZMODEM. The last, empty header of a batch is answered or not: the
  files are complete by then, and the six tries the code gives it are `AckTries`
  like those of other blocks.
* In `NodeMsgs`: paging and chat, the interrupt, re-run and event flags,
  `node.exb`, ignored telegrams; the contents of records and messages.
* Components listed as `not_modelled` in `PROJECT.json`, each with its reason.

Four phenomena were met while modelling and lie outside the runs, by their
choice of roles:

* a reader that marks a message while a purge has lost the base lock changes the
  index under the purge, so `PurgeOwnsIndex` is a property of posts and purges
  (`FastBase`, `base_fast`) only (what becomes of the mark is in `SmbStore`);
* two programs that run `maint()`: the one that began first may write back last,
  from a copy of the index in which messages freed by the other are unmarked or
  unmoved, so that `KeptHasHeader` fails. It is the fault `maint_lost` shows, with
  a second maintainer in the place of the poster;
* `put_msg_header` of the JavaScript `MsgBase` writes the index record with no
  lock on the base, so `IndexWrittenUnderLock` is checked without `Editors`;
* a poster that dies between index and status leaves a record that a purge then
  counts, with `last_msg` still below its number, and the next post may then
  take that number again. In `base_purge_crash` only the purges die. It is a
  hazard of `PROJECT.json` at `mail.cpp:126`.


## 7. Plan

Done: the core (`SmbBase`, `SmbMaint`, `SmbIdxSearch`, `SmbStore`, `MsgTexts`),
`NodeMsgs`, `Xmodem` with `FileTransfer`, and the theorems of section 4. What
would come next, in this order:

1. `SmbThread`: `smb_updatethread` and the walks `smb_first_in_thread`,
   `smb_next_in_thread`, `smb_last_in_branch`. Properties: the links are acyclic,
   a reply is reachable from its original, a walk ends even beside posts and
   purges (`smb_next_in_thread` stops at a link backwards; the recursion of
   `smb_last_in_branch` at `smblib.c:2126` over `thread_first` does not).
2. `SmbVotes`: `smb_addvote`, `smb_addpoll`, `smb_addpollclosure` and the check
   for an earlier vote that their callers make first (`postmsg.cpp:494`).
   Properties: one vote a voter, none after closure. The headers themselves are
   posted by the `Headers` of `SmbBase` already.
3. `SmbHistory`: `smb_addcrc` and `smb_addhashes`. Properties: the history has
   the latest `max_crcs`, a duplicate among those is refused, and a post that
   fails after the history was written.
4. `SmbPack`: `packmsgs` and the `.lock` file, with programs that have the base
   open meanwhile.
