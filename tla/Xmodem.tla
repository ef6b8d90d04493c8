------------------------------- MODULE Xmodem -------------------------------
(***************************************************************************)
(* X/YMODEM transfer of a file: the sender is xmodem_send_file with its    *)
(* caller send_files, the receiver is receive_files of sexyz, both on the  *)
(* routines of xmodem.c.  The line delivers in order, late or not at all,  *)
(* and may garble what it delivers.                                        *)
(*                                                                         *)
(* A block is one item of the line and its check always tells whether it   *)
(* was garbled; the eight CANs of xmodem_cancel are one item.  Lengths     *)
(* count units of 128 bytes, a file is the units 1, 2, ... and Pad stands  *)
(* for 128 times CPMEOF.  The streaming mode (GMODE) is left out.          *)
(***************************************************************************)
EXTENDS Integers, Sequences, SequencesExt

CONSTANTS
    FileLens,   \* lengths of files to send
    BigLen,     \* XMODEM_MAX_BLOCK_SIZE
    BlockMod,   \* block numbers are sent modulo this (256: one byte)
    MaxErrors,  \* xm->max_errors
    AckTries,   \* timeouts xmodem_get_ack bears for a block of data
    MaxFaults   \* bound: what the line and slow ends may do wrong

ASSUME XmodemAssumption ==
    /\ FileLens \subseteq Nat
    /\ BigLen \in Nat /\ BigLen > 1
    /\ BlockMod \in Nat /\ BlockMod > 1
    /\ MaxErrors \in Nat /\ AckTries \in Nat \ {0} /\ MaxFaults \in Nat

VARIABLES
    proto,      \* "X" or "Y": mode of both ends
    flen,       \* length of the file
    fwd, back,  \* what is under way to the receiver, and to the sender
    connected,
    \* the sender
    spc,        \* "idle", "mode", "send", "ack", "eot", "eotack", "over", "failed"
    sphase,     \* "header", "data", "end"
    scrc,       \* blocks carry a CRC and not a checksum
    size,       \* xm->block_size
    sent,       \* sent_bytes
    bnum,       \* block_num
    serr, stry, \* xm->errors; the counter of the routine called
    sok,        \* success
    \* the receiver
    rpc,        \* "idle", "ask", "get", "over", "failed"
    rphase,     \* "header", "data"
    rcrc,       \* asks for CRCs
    rnum,       \* block_num
    rerr, gerr, \* errors of receive_files and of xmodem_get_block
    eot,        \* an EOT has been NAKed
    written,    \* the file written
    extra,      \* a block more than announced was taken (0 or 1)
    rok,        \* success
    \* history
    faults,     \* what has gone wrong
    ackGone,    \* an ACK never reached the sender's ear
    spoilt      \* block 1 was made shorter although the long one is in or under way

wire == <<fwd, back>>
svars == <<spc, sphase, scrc, size, sent, bnum, serr, stry, sok>>
rvars == <<rpc, rphase, rcrc, rnum, rerr, gerr, eot, written, extra, rok>>
config == <<proto, flen, connected>>
history == <<faults, ackGone, spoilt>>
vars == <<config, wire, svars, rvars, history>>

Pad == 0

Block(what, n, from, len) ==
    [what |-> what, n |-> n % BlockMod, from |-> from, len |-> len, crc |-> scrc, ok |-> TRUE]

Control(c) == [what |-> c]
IsBlock(i) == i.what \in {"header", "data", "last"}

\* A routine that throws away what has arrived: some first part of it.
Drained(ch, rest) == \E k \in 0..Len(ch) : rest = SubSeq(ch, k + 1, Len(ch))

\* Of two ends that both wait in vain one must time out: the receiver, which
\* asks for the first blocks every 3 seconds and for the others, like the
\* sender for its answers, every 10.  Any other timeout means that something
\* was slow, and is counted.
RecvQuiet ==
    /\ fwd = <<>>
    /\ spc \in {"over", "failed"} \/ (back = <<>> /\ spc \in {"mode", "ack", "eotack"})
SendQuiet ==
    /\ back = <<>>
    /\ rpc \in {"over", "failed"} \/ (fwd = <<>> /\ rpc = "get" /\ rphase = "data" /\ rnum > 1)

Timeout(quiet) ==
    IF quiet THEN faults' = faults ELSE faults < MaxFaults /\ faults' = faults + 1

-----------------------------------------------------------------------------
Init ==
    /\ proto \in {"X", "Y"} /\ flen \in FileLens /\ connected = TRUE
    /\ fwd = <<>> /\ back = <<>>
    /\ spc = "idle" /\ sphase = (IF proto = "Y" THEN "header" ELSE "data")
    /\ scrc = FALSE /\ size \in {1, BigLen} /\ sent = 0 /\ bnum = 1
    /\ serr = 0 /\ stry = 0 /\ sok = FALSE
    /\ rpc = "idle" /\ rphase = (IF proto = "Y" THEN "header" ELSE "data")
    /\ rcrc \in BOOLEAN /\ rnum = 1 /\ rerr = 0 /\ gerr = 0
    /\ eot = FALSE /\ written = <<>> /\ extra = 0 /\ rok = FALSE
    /\ faults = 0 /\ ackGone = FALSE /\ spoilt = FALSE

-----------------------------------------------------------------------------
(* The sender.                                                              *)

\* xmodem_cancel after a failure.
Fail ==
    /\ spc' = "failed" /\ fwd' = Append(fwd, Control("CAN"))
    /\ UNCHANGED <<sphase, scrc, size, sent, bnum, serr, stry, sok>>

SendStart ==
    /\ spc = "idle" /\ spc' = "mode"
    /\ UNCHANGED <<config, wire, sphase, scrc, size, sent, bnum, serr, stry, sok, rvars, history>>

\* Nothing more is asked of the last block and of the request for it.
Leave == spc' = "over" /\ UNCHANGED <<sphase, scrc, size, sent, bnum, serr, stry, sok, fwd>>

ModeError ==
    IF stry < MaxErrors
    THEN stry' = stry + 1 /\ UNCHANGED <<spc, sphase, scrc, size, sent, bnum, serr, sok, fwd>>
    ELSE IF sphase = "end" THEN Leave ELSE Fail

ModeGet ==      \* xmodem_get_mode reads a character
    /\ connected /\ spc = "mode" /\ back # <<>>
    /\ LET c == Head(back) IN
       \/ /\ c \in {"C", "NAK"}
          /\ scrc' = (c = "C")
          /\ spc' = "send" /\ serr' = 0 /\ stry' = 0
          /\ UNCHANGED <<sphase, size, sent, bnum, sok, fwd>>
       \/ c = "CAN" /\ IF sphase = "end" THEN Leave ELSE Fail
       \/ c \notin {"C", "NAK", "CAN"} /\ ModeError
    /\ back' = Tail(back)
    /\ UNCHANGED <<config, rvars, history>>

ModeTimeout ==
    /\ connected /\ spc = "mode" /\ Timeout(SendQuiet) /\ ModeError
    /\ UNCHANGED <<config, back, rvars, ackGone, spoilt>>

\* The header is sent to an input just emptied; an ACK may go with the rest.
SendHeader ==
    /\ connected /\ spc = "send" /\ sphase = "header"
    /\ Drained(back, back')
    /\ ackGone' = (ackGone \/ \E i \in 1..(Len(back) - Len(back')) : back[i] = "ACK")
    /\ fwd' = Append(fwd, Block("header", 0, 0, 1))
    /\ spc' = "ack" /\ stry' = 0
    /\ UNCHANGED <<config, sphase, scrc, size, sent, bnum, serr, sok, rvars, faults, spoilt>>

\* At the end of the file short blocks are used rather than a long one of which
\* 128 bytes or more would be padding, unless a YMODEM header was sent.
SizeFor(s) ==
    IF proto = "X" /\ size > 1 /\ s + size > flen THEN 1 ELSE size

SendBlock ==
    /\ connected /\ spc = "send" /\ sphase = "data" /\ sent < flen
    /\ size' = SizeFor(sent)
    /\ fwd' = Append(fwd, Block("data", bnum, sent, size'))
    /\ spc' = "ack" /\ stry' = 0
    /\ UNCHANGED <<config, back, sphase, scrc, sent, bnum, serr, sok, rvars, history>>

SendsAll ==
    /\ connected /\ spc = "send" /\ sphase = "data" /\ sent >= flen
    /\ spc' = "eot" /\ stry' = 0
    /\ UNCHANGED <<config, wire, sphase, scrc, size, sent, bnum, serr, sok, rvars, history>>

SendLast ==     \* the empty header that ends a YMODEM batch
    /\ connected /\ spc = "send" /\ sphase = "end"
    /\ fwd' = Append(fwd, Block("last", 0, 0, 1))
    /\ spc' = "ack" /\ stry' = 0
    /\ UNCHANGED <<config, back, sphase, scrc, size, sent, bnum, serr, sok, rvars, history>>

Smaller(a, b) == IF a < b THEN a ELSE b

Acked ==
    /\ IF sphase = "data"
       THEN bnum' = bnum + 1 /\ sent' = sent + Smaller(size, flen - sent)
       ELSE UNCHANGED <<bnum, sent>>
    /\ spc' = CASE sphase = "header" -> "mode" [] sphase = "data" -> "send" [] OTHER -> "over"
    /\ sphase' = IF sphase = "header" THEN "data" ELSE sphase
    /\ stry' = 0
    /\ UNCHANGED <<scrc, size, serr, sok, fwd, spoilt>>

\* The third error at the first block makes it a short one from now on.
FallsBack == sphase = "data" /\ serr + 1 = 3 /\ bnum = 1 /\ size > 1

FirstIn == rnum > 1 \/ \E i \in DOMAIN fwd : fwd[i].what = "data" /\ fwd[i].ok

\* A plausible mistake, used by no specification: one error more is allowed.
NotAckedLate ==
    IF sphase = "end" THEN Leave /\ UNCHANGED spoilt
    ELSE IF serr > MaxErrors THEN Fail /\ UNCHANGED spoilt
    ELSE /\ serr' = serr + 1 /\ spc' = "send"
         /\ size' = (IF FallsBack THEN 1 ELSE size)
         /\ spoilt' = (spoilt \/ (FallsBack /\ FirstIn))
         /\ UNCHANGED <<sphase, scrc, sent, bnum, stry, sok, fwd>>

NotAcked ==
    IF sphase = "end" THEN Leave /\ UNCHANGED spoilt
    ELSE IF serr >= MaxErrors THEN Fail /\ UNCHANGED spoilt
    ELSE /\ serr' = serr + 1 /\ spc' = "send"
         /\ size' = (IF FallsBack THEN 1 ELSE size)
         /\ spoilt' = (spoilt \/ (FallsBack /\ FirstIn))
         /\ UNCHANGED <<sphase, scrc, sent, bnum, stry, sok, fwd>>

AckGet ==       \* xmodem_get_ack reads a character
    /\ connected /\ spc = "ack" /\ back # <<>>
    /\ \/ Head(back) = "ACK" /\ Acked
       \/ Head(back) = "CAN" /\ Fail /\ UNCHANGED spoilt
       \/ Head(back) \notin {"ACK", "CAN"} /\ NotAcked
    /\ back' = Tail(back)
    /\ UNCHANGED <<config, rvars, faults, ackGone>>

Tries == IF sphase = "header" THEN 1 ELSE AckTries

\* A plausible mistake, used by no specification: silence is not counted.
AckTimeoutFree ==
    /\ connected /\ spc = "ack" /\ Timeout(SendQuiet)
    /\ UNCHANGED <<config, back, svars, fwd, rvars, ackGone, spoilt>>

AckTimeout ==
    /\ connected /\ spc = "ack"
    /\ Timeout(SendQuiet)
    /\ IF stry + 1 < Tries
       THEN stry' = stry + 1 /\ UNCHANGED <<spc, sphase, scrc, size, sent, bnum, serr, sok, fwd, spoilt>>
       ELSE NotAcked
    /\ UNCHANGED <<config, back, rvars, ackGone>>

EotSend ==      \* xmodem_put_eot empties the input first
    /\ connected /\ spc = "eot"
    /\ Drained(back, back')
    /\ ackGone' = (ackGone \/ \E i \in 1..(Len(back) - Len(back')) : back[i] = "ACK")
    /\ fwd' = Append(fwd, Control("EOT"))
    /\ spc' = "eotack"
    /\ UNCHANGED <<config, sphase, scrc, size, sent, bnum, serr, stry, sok, rvars, faults, spoilt>>

\* A plausible mistake, used by no specification: the NAK of the first EOT ends the transfer.
EotErrorFails == Fail

EotError ==
    IF stry < MaxErrors
    THEN stry' = stry + 1 /\ spc' = "eot" /\ UNCHANGED <<sphase, scrc, size, sent, bnum, serr, sok, fwd>>
    ELSE Fail

EotAcked ==
    /\ sok' = TRUE /\ stry' = 0
    /\ IF proto = "X" THEN spc' = "over" /\ sphase' = sphase ELSE spc' = "mode" /\ sphase' = "end"
    /\ UNCHANGED <<scrc, size, sent, bnum, serr, fwd>>

EotGet ==
    /\ connected /\ spc = "eotack" /\ back # <<>>
    /\ \/ Head(back) = "ACK" /\ EotAcked
       \/ Head(back) # "ACK" /\ EotError
       \/ Head(back) = "CAN" /\ Fail       \* the second CAN of the eight
    /\ back' = Tail(back)
    /\ UNCHANGED <<config, rvars, history>>

EotTimeout ==
    /\ connected /\ spc = "eotack" /\ Timeout(SendQuiet) /\ EotError
    /\ UNCHANGED <<config, back, rvars, ackGone, spoilt>>

-----------------------------------------------------------------------------
(* The receiver.                                                            *)

Expected == IF rphase = "header" THEN 0 ELSE rnum

RecvStart ==    \* what has come before is thrown away
    /\ rpc = "idle" /\ rpc' = "ask" /\ Drained(fwd, fwd')
    /\ UNCHANGED <<config, back, svars, rphase, rcrc, rnum, rerr, gerr, eot, written, extra, rok, history>>

\* xmodem_put_nak: the mode is asked for until the first block of data is in.
Request == IF Expected <= 1 /\ rcrc THEN "C" ELSE "NAK"

Ask ==
    /\ connected /\ rpc = "ask"
    /\ Drained(fwd, fwd')
    /\ back' = Append(back, Request)
    /\ rpc' = "get" /\ gerr' = 0 /\ eot' = FALSE
    /\ UNCHANGED <<config, svars, rphase, rcrc, rnum, rerr, written, extra, rok, history>>

\* Any answer of xmodem_get_block but the block, the end or a cancellation.
Reject(out) ==
    /\ rerr' = rerr + 1
    /\ IF rerr' > MaxErrors
       THEN rpc' = "failed" /\ back' = Append(out, "CAN") /\ rcrc' = rcrc
       ELSE /\ rpc' = "ask" /\ back' = out
            /\ rcrc' = (rcrc /\ ~(Expected <= 1 /\ rerr' > MaxErrors \div 3))
    /\ UNCHANGED <<rphase, rnum, gerr, eot, written, extra, rok>>

\* Another turn of the loop of xmodem_get_block, with out sent so far.
Again(out, ended) ==
    IF gerr < MaxErrors
    THEN /\ gerr' = gerr + 1 /\ eot' = ended /\ back' = out
         /\ UNCHANGED <<rpc, rphase, rcrc, rnum, rerr, written, extra, rok>>
    ELSE Reject(out)

NextFile == rphase' = "header" /\ rpc' = "ask" /\ rerr' = 0

Good(b) == b.ok /\ b.crc = rcrc

Contents(b) == [i \in 1..b.len |-> IF b.from + i <= flen THEN b.from + i ELSE Pad]

Fits(s) == IF proto = "Y" THEN SubSeq(s, 1, Smaller(Len(s), flen)) ELSE s

TakeHeader(b) ==
    CASE b.what = "header" ->
           /\ rphase' = "data" /\ rpc' = "ask" /\ rnum' = 1 /\ rerr' = 0
           /\ back' = Append(back, "ACK")
           /\ UNCHANGED <<rcrc, gerr, eot, written, extra, rok>>
      [] b.what = "last" ->
           /\ rpc' = "over" /\ back' = Append(back, "ACK")
           /\ UNCHANGED <<rphase, rcrc, rnum, rerr, gerr, eot, written, extra, rok>>
      [] OTHER ->           \* a second name where one file is expected
           /\ rpc' = "failed" /\ back' = back \o <<"ACK", "CAN">>
           /\ UNCHANGED <<rphase, rcrc, rnum, rerr, gerr, eot, written, extra, rok>>

TakeData(b) ==
    /\ back' = Append(back, "ACK")
    /\ IF proto = "Y" /\ Len(written) >= flen       \* more than the header announced
       THEN extra' = 1 /\ NextFile /\ UNCHANGED <<rcrc, rnum, gerr, eot, written, rok>>
       ELSE /\ written' = Fits(written \o Contents(b))
            /\ rnum' = rnum + 1 /\ gerr' = 0 /\ eot' = FALSE
            /\ UNCHANGED <<rpc, rphase, rcrc, rerr, extra, rok>>

Arrives == connected /\ rpc = "get" /\ fwd # <<>>

\* A plausible mistake, used by no specification: the block number is not looked at.
GetBlockAny ==
    /\ Arrives /\ IsBlock(Head(fwd)) /\ Good(Head(fwd))
    /\ IF rphase = "header" THEN TakeHeader(Head(fwd)) ELSE TakeData(Head(fwd))
    /\ fwd' = Tail(fwd)
    /\ UNCHANGED <<config, svars, history>>

GetBlock ==     \* the block expected
    /\ Arrives /\ IsBlock(Head(fwd)) /\ Good(Head(fwd))
    /\ Head(fwd).n = Expected % BlockMod
    /\ IF rphase = "header" THEN TakeHeader(Head(fwd)) ELSE TakeData(Head(fwd))
    /\ fwd' = Tail(fwd)
    /\ UNCHANGED <<config, svars, history>>

\* A plausible mistake, used by no specification: repeated blocks are acknowledged.
GetRepeatedAcked ==
    /\ Arrives /\ IsBlock(Head(fwd)) /\ Good(Head(fwd))
    /\ Expected > 0 /\ Head(fwd).n = (Expected - 1) % BlockMod
    /\ Again(Append(back, "ACK"), FALSE)
    /\ fwd' = Tail(fwd)
    /\ UNCHANGED <<config, svars, history>>

GetRepeated ==  \* the block before it again: dropped, and not acknowledged
    /\ Arrives /\ IsBlock(Head(fwd)) /\ Good(Head(fwd))
    /\ Expected > 0 /\ Head(fwd).n = (Expected - 1) % BlockMod
    /\ Again(back, FALSE)
    /\ fwd' = Tail(fwd)
    /\ UNCHANGED <<config, svars, history>>

GetBad ==       \* a garbled block, another number, or no block at all
    /\ Arrives
    /\ IF IsBlock(Head(fwd))
       THEN \/ ~Good(Head(fwd))
            \/ Head(fwd).n \notin {Expected % BlockMod, (Expected - 1) % BlockMod}
            \/ Expected = 0 /\ Head(fwd).n # 0
       ELSE Head(fwd).what \notin {"EOT", "CAN"}
    /\ Reject(back) /\ fwd' = Tail(fwd)
    /\ UNCHANGED <<config, svars, history>>

\* The file is complete, unless a header was waited for.  xmodem_put_ack drops
\* what has arrived since, of which rest is left.
EndOfFile(rest) ==
    IF rphase = "header" THEN Reject(back) /\ fwd' = rest
    ELSE /\ rok' = TRUE
         /\ Drained(rest, fwd')
         /\ back' = Append(back, "ACK")
         /\ IF proto = "X" THEN rpc' = "over" /\ UNCHANGED <<rphase, rerr>> ELSE NextFile
         /\ UNCHANGED <<rcrc, rnum, gerr, eot, written, extra>>

GetEot ==       \* the first EOT is NAKed, whatever the mode
    /\ Arrives /\ Head(fwd).what = "EOT"
    /\ IF eot THEN EndOfFile(Tail(fwd))
       ELSE Drained(Tail(fwd), fwd') /\ Again(Append(back, Request), TRUE)
    /\ UNCHANGED <<config, svars, history>>

GetCan ==
    /\ Arrives /\ Head(fwd).what = "CAN"
    /\ IF rphase = "header" THEN Reject(back)
       ELSE /\ rpc' = "failed" /\ back' = back
            /\ UNCHANGED <<rphase, rcrc, rnum, rerr, gerr, eot, written, extra, rok>>
    /\ fwd' = Tail(fwd)
    /\ UNCHANGED <<config, svars, history>>

GetTimeout ==   \* silence after an EOT is as good as a second one
    /\ connected /\ rpc = "get" /\ Timeout(RecvQuiet)
    /\ IF eot THEN EndOfFile(fwd) ELSE Reject(back) /\ fwd' = fwd
    /\ UNCHANGED <<config, svars, ackGone, spoilt>>

-----------------------------------------------------------------------------
(* The line.                                                                *)

Fault == connected /\ faults < MaxFaults /\ faults' = faults + 1

Lose ==
    /\ Fault
    /\ \/ \E i \in 1..Len(fwd) : fwd' = RemoveAt(fwd, i) /\ UNCHANGED <<back, ackGone>>
       \/ \E i \in 1..Len(back) :
              /\ back' = RemoveAt(back, i)
              /\ ackGone' = (ackGone \/ back[i] = "ACK")
              /\ UNCHANGED fwd
    /\ UNCHANGED <<config, svars, rvars, spoilt>>

Garble ==
    /\ Fault
    /\ \/ \E i \in 1..Len(fwd) :
              /\ fwd' = [fwd EXCEPT ![i] = IF IsBlock(@) THEN [@ EXCEPT !.ok = FALSE] ELSE Control("junk")]
              /\ UNCHANGED <<back, ackGone>>
       \/ \E i \in 1..Len(back) :
              /\ back' = [back EXCEPT ![i] = "junk"]
              /\ ackGone' = (ackGone \/ back[i] = "ACK")
              /\ UNCHANGED fwd
    /\ UNCHANGED <<config, svars, rvars, spoilt>>

Disconnect ==
    /\ Fault /\ connected' = FALSE
    /\ UNCHANGED <<proto, flen, wire, svars, rvars, ackGone, spoilt>>

HangUp ==       \* every loop ends when the line is gone
    /\ ~connected
    /\ \/ /\ spc \notin {"over", "failed"}
          /\ spc' = (IF sphase = "end" THEN "over" ELSE "failed")
          /\ UNCHANGED <<sphase, scrc, size, sent, bnum, serr, stry, sok, rvars>>
       \/ /\ rpc \notin {"over", "failed"}
          /\ rpc' = "failed"
          /\ UNCHANGED <<svars, rphase, rcrc, rnum, rerr, gerr, eot, written, extra, rok>>
    /\ UNCHANGED <<config, wire, history>>

-----------------------------------------------------------------------------
SenderStep ==
    \/ SendStart \/ ModeGet \/ ModeTimeout \/ SendHeader \/ SendBlock \/ SendsAll
    \/ SendLast \/ AckGet \/ AckTimeout \/ EotSend \/ EotGet \/ EotTimeout

ReceiverStep ==
    \/ RecvStart \/ Ask \/ GetBlock \/ GetRepeated \/ GetBad \/ GetEot \/ GetCan \/ GetTimeout

Next == SenderStep \/ ReceiverStep \/ Lose \/ Garble \/ Disconnect \/ HangUp

Spec == Init /\ [][Next]_vars

\* Both programs run; the line owes nothing.
FairSpec == Spec /\ WF_vars(SenderStep) /\ WF_vars(ReceiverStep) /\ WF_vars(HangUp)

-----------------------------------------------------------------------------
(* Properties.                                                              *)

Modes == {"idle", "mode", "send", "ack", "eot", "eotack", "over", "failed"}

\* Type correctness, and the bounds of the counters the loops run on.
TypeOK ==
    /\ spc \in Modes /\ sphase \in {"header", "data", "end"}
    /\ rpc \in {"idle", "ask", "get", "over", "failed"} /\ rphase \in {"header", "data"}
    /\ size \in {1, BigLen} /\ sent \in 0..flen /\ bnum \in Nat /\ rnum \in Nat
    /\ serr \in 0..MaxErrors /\ rerr \in 0..(MaxErrors + 1) /\ gerr \in 0..MaxErrors
    /\ stry \in 0..(MaxErrors + AckTries) /\ faults \in 0..MaxFaults

FT == INSTANCE FileTransfer WITH
          taken <- (rnum - 1) + extra, confirmed <- bnum - 1, received <- rok, reported <- sok,
          void <- spoilt

\* Unless the length of block 1 was spoilt, lost, late and garbled blocks, requests and answers leave the two ends a
\* stop-and-wait transfer: get_block answers no block twice, so that no ACK
\* can be taken for that of another block or of the EOT.
ImplementsTransfer == FT!Spec

\* The file written is the file sent, from its start and without a gap, and
\* all of it once the receiver calls it complete; it may end in padding.
Intact ==
    ~spoilt =>
        /\ \A i \in DOMAIN written : written[i] = IF i <= flen THEN i ELSE Pad
        /\ rok => Len(written) >= flen

\* While the line is up and no ACK is lost, the file arrives and both ends
\* know it, whatever else is lost, garbled or late.
Delivers == <>((sok /\ rok) \/ ~connected \/ ackGone \/ spoilt)

\* Neither end is ever left waiting: the error counts of all loops see to it.
Ends == <>(spc \in {"over", "failed"} /\ rpc \in {"over", "failed"})
=============================================================================
