------------------------------ MODULE NodeMsgs ------------------------------
(***************************************************************************)
(* Messages between the nodes of the terminal server.  A telegram waits in *)
(* a file of its user, a node message in a file of its node, and a flag in *)
(* the node's record of node.dab tells the session there to look.  Whoever *)
(* writes (putsmsg, putnmsg) fills the file and then flags the nodes; who  *)
(* reads (getsmsg, getnmsg) clears the flags and then empties the file.    *)
(*                                                                         *)
(* A record of node.dab is locked, read, written and unlocked by a routine *)
(* that does nothing else meanwhile: one step.  It is also read without    *)
(* the lock.  A message file is open to one program at a time.             *)
(***************************************************************************)
EXTENDS Naturals, FiniteSets

CONSTANTS
    NodeCount,  \* cfg.sys_nodes
    Users,
    Senders,    \* programs or scripts that send one message each
    Addressed,  \* bound: message files written and asked for
    MaxCalls,   \* bound: calls answered
    MaxFaults   \* bound: locks and files waited for in vain

Nodes == 1..NodeCount
Files == Users \cup Nodes
Nobody == CHOOSE u \in Users : TRUE     \* who a record or a variable names before it is used
Procs == Nodes \cup Senders    \* the session of a node has its number

ASSUME NodeMsgsAssumption ==
    /\ NodeCount \in Nat \ {0} /\ MaxCalls \in Nat /\ MaxFaults \in Nat
    /\ Nodes \cap Users = {} /\ Nodes \cap Senders = {} /\ Users # {}
    /\ Addressed \subseteq Files

VARIABLES
    node,       \* node.dab: status, useron and the flags MSGW and NMSG
    file,       \* what waits in each message file
    pc,
    target,     \* the file a process is busy with
    at,         \* the node whose record it looks at
    scripts,    \* sessions that run system.get_telegram or system.get_node_message
    calls, faults,
    \* history
    shown,      \* how often a message has been shown
    sent, gone, \* messages written; those removed before a logon
    missed      \* files whose readers were not told, by one of the known ways

job == <<target, at, scripts>>
bounds == <<calls, faults>>
history == <<shown, sent, gone, missed>>
vars == <<node, file, pc, job, bounds, history>>

Init ==
    /\ node \in [Nodes -> [status : {"wfc"}, useron : {Nobody}, msgw : {FALSE}, nmsg : {FALSE}]]
    /\ file = [f \in Files |-> {}]
    /\ pc = [p \in Procs |-> IF p \in Nodes THEN "wfc" ELSE "idle"]
    /\ target = [p \in Procs |-> Nobody]
    /\ at = [p \in Procs |-> 1]
    /\ scripts = {} /\ calls = 0 /\ faults = 0
    /\ shown = [m \in Senders |-> 0] /\ sent = {} /\ gone = {} /\ missed = {}

-----------------------------------------------------------------------------
Go(p, label) == pc' = [pc EXCEPT ![p] = label]

\* NODE_QUIET counts as in use.
HasUser(n, u) == node[n].useron = u /\ node[n].status = "inuse"

\* A plausible mistake, used by no specification: opened without denying anyone.
HeldNever(f) == FALSE

\* nopen denies all others; a file removed meanwhile is another file.
Held(f) == \E p \in Procs : pc[p] \in {"append", "cut"} /\ target[p] = f

\* A routine returns: to the menu, or to a program that has no more to do.
Return(p) ==
    /\ Go(p, IF p \in Nodes THEN "menu" ELSE "done")
    /\ target' = [target EXCEPT ![p] = Nobody] /\ at' = [at EXCEPT ![p] = 1]
    /\ scripts' = scripts \ {p}

Fault == faults < MaxFaults /\ faults' = faults + 1

\* A plausible mistake, used by no specification: one record too many.
LastAfter(p) == target[p] \in Nodes \/ at[p] > NodeCount

Last(p) == target[p] \in Nodes \/ at[p] = NodeCount

\* The next record, or what follows the last one.
Advance(p) == at' = [at EXCEPT ![p] = @ + 1] /\ UNCHANGED <<target, scripts>>
NextClear(p) ==
    IF Last(p) THEN Go(p, "read") /\ UNCHANGED job ELSE Go(p, "clear") /\ Advance(p)
NextLook(p) ==
    IF Last(p) THEN Return(p) ELSE Go(p, "look") /\ Advance(p)

FirstOf(f) == IF f \in Nodes THEN f ELSE 1

-----------------------------------------------------------------------------
(* A session.                                                               *)

Connect(n) ==
    /\ pc[n] = "wfc" /\ node[n].status = "wfc" /\ calls < MaxCalls
    /\ \A k \in 1..(n - 1) : node[k].status # "wfc"
    /\ node' = [node EXCEPT ![n].status = "logon"]
    /\ calls' = calls + 1 /\ Go(n, "logon")
    /\ UNCHANGED <<file, job, faults, history>>

Logon(n) ==
    /\ pc[n] = "logon"
    /\ \E u \in Users :
        node' = [node EXCEPT ![n] = [status |-> "inuse", useron |-> u, msgw |-> FALSE, nmsg |-> @.nmsg]]
    /\ Go(n, "remove")
    /\ UNCHANGED <<file, job, bounds, history>>

Begin(p, f, script) ==
    /\ target' = [target EXCEPT ![p] = f] /\ at' = [at EXCEPT ![p] = FirstOf(f)]
    /\ scripts' = IF script THEN scripts \cup {p} ELSE scripts

\* Pending node messages go, and with them what is just being written; then
\* the telegrams are read.
RemoveMsgs(n) ==
    /\ pc[n] = "remove"
    /\ gone' = gone \cup file[n]
    /\ file' = [file EXCEPT ![n] = {}]
    /\ pc' = [p \in Procs |->
                CASE p = n -> "clear"
                  [] p # n /\ target[p] = n /\ pc[p] = "append" -> "orphan"
                  [] p # n /\ target[p] = n /\ pc[p] = "cut" -> "empty"
                  [] OTHER -> pc[p]]
    /\ Begin(n, node[n].useron, FALSE)
    /\ UNCHANGED <<node, bounds, shown, sent, missed>>

\* SYNC, done whenever the session waits for its user: getsmsg or getnmsg.
Sync(n) ==
    /\ pc[n] = "menu"
    /\ \/ node[n].msgw /\ Begin(n, node[n].useron, FALSE)
       \/ node[n].nmsg /\ Begin(n, n, FALSE)
    /\ Go(n, "clear")
    /\ UNCHANGED <<node, file, bounds, history>>

Logoff(n) ==
    /\ pc[n] = "menu" /\ Go(n, "logout")
    /\ node' = [node EXCEPT ![n].status = "logout"]
    /\ UNCHANGED <<file, job, bounds, history>>

EndCall(n) ==       \* the user's number is left where it is
    /\ pc[n] = "logout" /\ Go(n, "wfc")
    /\ node' = [node EXCEPT ![n] = [status |-> "wfc", useron |-> @.useron, msgw |-> FALSE, nmsg |-> FALSE]]
    /\ UNCHANGED <<file, job, bounds, history>>

-----------------------------------------------------------------------------
(* Reading: getsmsg of a session and of a script, getnmsg of either.        *)

Script(n) ==        \* any file may be asked for
    /\ pc[n] = "menu" /\ Go(n, "clear")
    /\ \E f \in Addressed : Begin(n, f, TRUE)
    /\ UNCHANGED <<node, file, bounds, history>>

\* A record is looked at without the lock, except the one of a node message.
ClearLook(p) ==
    /\ pc[p] = "clear"
    /\ LET k == at[p] IN
       IF \/ target[p] \in Nodes
          \/ p \notin scripts /\ node[k].useron = target[p]
          \/ p \in scripts /\ HasUser(k, target[p]) /\ node[k].msgw
       THEN Go(p, "unflag") /\ UNCHANGED job
       ELSE NextClear(p)
    /\ UNCHANGED <<node, file, bounds, history>>

\* A plausible mistake, used by no specification: the record is not looked at again once locked.
UnflagAnyone(p) ==
    /\ pc[p] = "unflag"
    /\ node' = IF target[p] \in Nodes THEN [node EXCEPT ![at[p]].nmsg = FALSE]
                                      ELSE [node EXCEPT ![at[p]].msgw = FALSE]
    /\ missed' = missed /\ NextClear(p)
    /\ UNCHANGED <<file, bounds, shown, sent, gone>>

\* Scripts do not look again at whose record it is that they have locked.
Unflag(p) ==
    /\ pc[p] = "unflag"
    /\ LET k == at[p]  f == target[p] IN
       IF f \in Nodes
       THEN node' = [node EXCEPT ![k].nmsg = FALSE] /\ missed' = missed
       ELSE /\ node' = [node EXCEPT ![k].msgw = @ /\ p \notin scripts /\ ~HasUser(k, f)]
            /\ missed' = missed \cup (IF p \in scripts /\ node[k].msgw THEN {node[k].useron} \ {f} ELSE {})
    /\ NextClear(p)
    /\ UNCHANGED <<file, bounds, shown, sent, gone>>

UnflagTimeout(p) == \* the flag stays
    /\ pc[p] = "unflag" /\ Fault
    /\ NextClear(p)
    /\ UNCHANGED <<node, file, calls, history>>

ReadEmpty(p) ==
    /\ pc[p] = "empty" \/ (pc[p] = "read" /\ file[target[p]] = {})
    /\ Return(p)
    /\ UNCHANGED <<node, file, bounds, history>>

ReadFile(p) ==
    /\ pc[p] = "read" /\ file[target[p]] # {} /\ ~Held(target[p])
    /\ shown' = [m \in Senders |-> shown[m] + (IF m \in file[target[p]] THEN 1 ELSE 0)]
    /\ Go(p, "cut")
    /\ UNCHANGED <<node, file, job, bounds, sent, gone, missed>>

ReadTimeout(p) ==   \* the file stays, but nothing points to it any more
    /\ pc[p] = "read" /\ file[target[p]] # {} /\ Held(target[p]) /\ Fault
    /\ missed' = missed \cup {target[p]}
    /\ Return(p)
    /\ UNCHANGED <<node, file, calls, shown, sent, gone>>

Cut(p) ==
    /\ pc[p] = "cut"
    /\ file' = [file EXCEPT ![target[p]] = {}]
    /\ Return(p)
    /\ UNCHANGED <<node, bounds, history>>

-----------------------------------------------------------------------------
(* Writing: putsmsg and putnmsg.                                            *)

PutOpen(s) ==
    /\ s \in Senders /\ pc[s] = "idle"
    /\ \E f \in Addressed : ~Held(f) /\ Begin(s, f, FALSE)
    /\ Go(s, "append")
    /\ UNCHANGED <<node, file, bounds, history>>

Append(s) ==
    /\ pc[s] \in {"append", "orphan"}
    /\ IF pc[s] = "append"
       THEN file' = [file EXCEPT ![target[s]] = @ \cup {s}] /\ gone' = gone
       ELSE gone' = gone \cup {s} /\ file' = file
    /\ sent' = sent \cup {s} /\ Go(s, "look")
    /\ UNCHANGED <<node, job, bounds, shown, missed>>

Look(s) ==
    /\ pc[s] = "look"
    /\ LET k == at[s]  f == target[s] IN
       IF IF f \in Nodes THEN node[k].status = "inuse" /\ ~node[k].nmsg
                         ELSE HasUser(k, f) /\ ~node[k].msgw
       THEN Go(s, "flag") /\ UNCHANGED job
       ELSE NextLook(s)
    /\ UNCHANGED <<node, file, bounds, history>>

Flag(s) ==          \* whoever is there by now
    /\ pc[s] = "flag"
    /\ node' = IF target[s] \in Nodes THEN [node EXCEPT ![at[s]].nmsg = TRUE]
                                      ELSE [node EXCEPT ![at[s]].msgw = TRUE]
    /\ NextLook(s)
    /\ UNCHANGED <<file, bounds, history>>

FlagTimeout(s) ==   \* node.dab is closed and not opened again: no further node is found
    /\ pc[s] = "flag" /\ Fault
    /\ missed' = missed \cup {target[s]} /\ Return(s)
    /\ UNCHANGED <<node, file, calls, shown, sent, gone>>

-----------------------------------------------------------------------------
Work(p) ==
    \/ p \in Nodes /\ (Logon(p) \/ RemoveMsgs(p) \/ Sync(p) \/ EndCall(p))
    \/ ClearLook(p) \/ Unflag(p) \/ ReadEmpty(p) \/ ReadFile(p) \/ Cut(p)
    \/ Append(p) \/ Look(p) \/ Flag(p)

Next ==
    \/ \E n \in Nodes : Connect(n) \/ Logoff(n) \/ Script(n)
    \/ \E s \in Senders : PutOpen(s) \/ FlagTimeout(s)
    \/ \E p \in Procs : Work(p) \/ UnflagTimeout(p) \/ ReadTimeout(p)

Spec == Init /\ [][Next]_vars

-----------------------------------------------------------------------------
NodeRecs == [status : {"wfc", "logon", "inuse", "logout"}, useron : Users, msgw : BOOLEAN, nmsg : BOOLEAN]
Steps == {"wfc", "logon", "remove", "menu", "logout", "idle", "clear", "unflag", "read", "cut",
          "empty", "append", "orphan", "look", "flag", "done"}

TypeOK ==
    /\ node \in [Nodes -> NodeRecs]
    /\ file \in [Files -> SUBSET Senders]
    /\ pc \in [Procs -> Steps]
    /\ target \in [Procs -> Files] /\ at \in [Procs -> Nodes] /\ scripts \subseteq Nodes
    /\ calls \in 0..MaxCalls /\ faults \in 0..MaxFaults
    /\ shown \in [Senders -> Nat] /\ sent \subseteq Senders /\ gone \subseteq Senders
    /\ missed \subseteq Files

\* Someone has yet to flag node n for file f, or to read f.
YetToFlag(n, f) == \E s \in Senders : target[s] = f /\ pc[s] \in {"look", "flag"} /\ at[s] <= n
YetToRead(f) == \E p \in Procs : target[p] = f /\ pc[p] \in {"clear", "unflag", "read", "cut"}

\* A message that waits for a session is known to it: the flag is set, or about
\* to be, or the file about to be read, whatever the order in which writers set
\* and readers clear the flags and read the records without their locks.
NotForgotten ==
    \A n \in Nodes : node[n].status = "inuse" /\ pc[n] # "remove" =>
        \A f \in {n, node[n].useron} :
            \/ file[f] = {}
            \/ IF f = n THEN node[n].nmsg ELSE node[n].msgw
            \/ YetToFlag(n, f) \/ YetToRead(f)
            \/ f \in missed

\* A message written is still in its file, has been shown once, or was removed
\* at a logon: emptying a file never takes one that nobody has read.
ShownOnce ==
    \A m \in sent : shown[m] = 1 \/ (shown[m] = 0 /\ (m \in gone \/ \E f \in Files : m \in file[f]))
=============================================================================
