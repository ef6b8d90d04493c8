-------------------------- MODULE NodeMsgs_proofs --------------------------
(* Theorems about NodeMsgs, for any number of nodes, users and messages.   *)
EXTENDS NodeMsgs, TLAPS

SessionPc == {"wfc", "logon", "remove", "menu", "logout", "clear", "unflag", "read", "cut", "empty"}
SenderPc == {"idle", "append", "orphan", "look", "flag", "done"}

Roles ==
    /\ \A n \in Nodes : pc[n] \in SessionPc
    /\ \A s \in Senders : pc[s] \in SenderPc

\* Who is busy with a node's file looks at that node's record only; who is
\* about to write has all records before it.
Places ==
    \A p \in Procs :
        /\ target[p] \in Nodes /\ pc[p] \in {"clear", "unflag", "append", "orphan", "look", "flag"}
             => at[p] = target[p]
        /\ target[p] \notin Nodes /\ pc[p] \in {"append", "orphan"} => at[p] = 1

Kinds == TypeOK /\ Roles /\ Places

-----------------------------------------------------------------------------
LEMMA Numbers ==
    /\ \A n \in Nodes : n \in Nat /\ n >= 1 /\ n <= NodeCount
    /\ \A k \in Nodes : k # NodeCount => k + 1 \in Nodes
    /\ 1 \in Nodes /\ NodeCount \in Nodes
  BY NodeMsgsAssumption DEF Nodes

LEMMA Apart ==
    /\ Nobody \in Users /\ Nobody \in Files /\ Nobody \notin Nodes
    /\ Nodes \cap Users = {} /\ Nodes \cap Senders = {}
    /\ Nodes \subseteq Procs /\ Senders \subseteq Procs
    /\ Nodes \subseteq Files /\ Users \subseteq Files /\ Addressed \subseteq Files
    /\ \A f \in Files : f \notin Nodes => f \in Users
    /\ \A p \in Procs : p \notin Nodes => p \in Senders
  BY NodeMsgsAssumption DEF Nobody, Files, Procs

LEMMA FirstOfNode == \A f \in Files : FirstOf(f) \in Nodes /\ (f \in Nodes => FirstOf(f) = f) /\ (f \notin Nodes => FirstOf(f) = 1)
  BY Numbers DEF FirstOf

LEMMA InitKinds == Init => Kinds
  <1> SUFFICES ASSUME Init PROVE Kinds
    OBVIOUS
  <1>1. TypeOK
    <2>1. file \in [Files -> SUBSET Senders] /\ shown \in [Senders -> Nat]
      BY DEF Init
    <2>2. target \in [Procs -> Files] /\ at \in [Procs -> Nodes]
      BY Numbers, Apart DEF Init
    <2>3. pc \in [Procs -> Steps]
      BY DEF Init, Steps
    <2>4. node \in [Nodes -> NodeRecs]
      BY Apart DEF Init, NodeRecs
    <2> QED
      BY <2>1, <2>2, <2>3, <2>4, NodeMsgsAssumption DEF Init, TypeOK
  <1>2. Roles
    BY Apart DEF Init, Roles, SessionPc, SenderPc
  <1>3. Places
    BY Apart DEF Init, Places
  <1> QED
    BY <1>1, <1>2, <1>3 DEF Kinds

\* What sets one field of one record
LEMMA Record ==
  ASSUME node \in [Nodes -> NodeRecs], NEW k \in Nodes
  PROVE  /\ \A x \in {"wfc", "logon", "inuse", "logout"} : [node EXCEPT ![k].status = x] \in [Nodes -> NodeRecs]
         /\ \A b \in BOOLEAN : [node EXCEPT ![k].msgw = b] \in [Nodes -> NodeRecs]
         /\ \A b \in BOOLEAN : [node EXCEPT ![k].nmsg = b] \in [Nodes -> NodeRecs]
  BY DEF NodeRecs

\* The next record to look at, or the end of the walk
LEMMA NextClearKinds ==
  ASSUME Kinds, NEW p \in Procs, pc[p] \in {"clear", "unflag"}, NextClear(p)
  PROVE  /\ target' = target /\ scripts' = scripts /\ at' \in [Procs -> Nodes]
         /\ pc' \in [Procs -> Steps] /\ Roles' /\ Places'
         /\ pc'[p] \in {"clear", "read"} /\ \A q \in Procs \ {p} : pc'[q] = pc[q] /\ at'[q] = at[q]
  <1>1. /\ pc \in [Procs -> Steps] /\ target \in [Procs -> Files] /\ at \in [Procs -> Nodes]
        /\ at[p] \in Nodes
    BY DEF Kinds, TypeOK, Steps
  <1>2. p \in Nodes
    BY Apart DEF Kinds, Roles, SenderPc
  <1>3. CASE Last(p)
    <2>1. target' = target /\ at' = at /\ scripts' = scripts /\ pc' = [pc EXCEPT ![p] = "read"]
      BY <1>3 DEF NextClear, Go, job
    <2>2. Roles'
      BY <1>1, <1>2, <2>1, Apart DEF Kinds, Roles, SessionPc
    <2>3. Places'
      BY <1>1, <2>1 DEF Kinds, Places
    <2> QED
      BY <1>1, <2>1, <2>2, <2>3 DEF Steps
  <1>4. CASE ~Last(p)
    <2>1. target' = target /\ scripts' = scripts /\ pc' = [pc EXCEPT ![p] = "clear"]
      BY <1>4 DEF NextClear, Go, Advance
    <2>2. at' = [at EXCEPT ![p] = @ + 1]
      BY <1>4 DEF NextClear, Advance
    <2>3. target[p] \notin Nodes /\ at[p] + 1 \in Nodes
      BY <1>1, <1>4, Numbers DEF Last
    <2>4. Roles'
      BY <1>1, <1>2, <2>1, Apart DEF Kinds, Roles, SessionPc
    <2>5. Places'
      BY <1>1, <2>1, <2>2, <2>3 DEF Kinds, Places
    <2> QED
      BY <1>1, <2>1, <2>2, <2>3, <2>4, <2>5 DEF Steps
  <1> QED
    BY <1>3, <1>4

LEMMA NextLookKinds ==
  ASSUME Kinds, NEW p \in Procs, pc[p] \in {"look", "flag"}, NextLook(p)
  PROVE  /\ scripts' \subseteq Nodes /\ at' \in [Procs -> Nodes] /\ target' \in [Procs -> Files]
         /\ pc' \in [Procs -> Steps] /\ Roles' /\ Places'
         /\ \A q \in Procs \ {p} : pc'[q] = pc[q] /\ at'[q] = at[q] /\ target'[q] = target[q]
         /\ Last(p) => pc'[p] = "done"
         /\ ~Last(p) => pc'[p] = "look" /\ target'[p] = target[p] /\ at'[p] = at[p] + 1
  <1>1. /\ pc \in [Procs -> Steps] /\ target \in [Procs -> Files] /\ at \in [Procs -> Nodes]
        /\ at[p] \in Nodes /\ scripts \subseteq Nodes
    BY DEF Kinds, TypeOK, Steps
  <1>2. p \in Senders /\ p \notin Nodes
    BY Apart DEF Kinds, Roles, SessionPc
  <1>3. CASE Last(p)
    <2>1. /\ target' = [target EXCEPT ![p] = Nobody] /\ at' = [at EXCEPT ![p] = 1]
          /\ scripts' = scripts \ {p} /\ pc' = [pc EXCEPT ![p] = "done"]
      BY <1>2, <1>3 DEF NextLook, Go, Return
    <2>2. Roles'
      BY <1>1, <1>2, <2>1, Apart DEF Kinds, Roles, SenderPc
    <2>3. Places'
      BY <1>1, <2>1 DEF Kinds, Places
    <2> QED
      BY <1>1, <1>3, <2>1, <2>2, <2>3, Apart, Numbers DEF Steps
  <1>4. CASE ~Last(p)
    <2>1. target' = target /\ scripts' = scripts /\ pc' = [pc EXCEPT ![p] = "look"]
      BY <1>4 DEF NextLook, Go, Advance
    <2>2. at' = [at EXCEPT ![p] = @ + 1]
      BY <1>4 DEF NextLook, Advance
    <2>3. target[p] \notin Nodes /\ at[p] + 1 \in Nodes
      BY <1>1, <1>4, Numbers DEF Last
    <2>4. Roles'
      BY <1>1, <1>2, <2>1, Apart DEF Kinds, Roles, SenderPc
    <2>5. Places'
      BY <1>1, <2>1, <2>2, <2>3 DEF Kinds, Places
    <2> QED
      BY <1>1, <1>4, <2>1, <2>2, <2>3, <2>4, <2>5 DEF Steps
  <1> QED
    BY <1>3, <1>4

LEMMA KindsConnect ==
  ASSUME Kinds, NEW n \in Nodes, Connect(n)
  PROVE  Kinds'
  <1>1. node' \in [Nodes -> NodeRecs]
    BY Record, Apart DEF Connect, Kinds, TypeOK, NodeRecs, history, bounds, job
  <1>2. /\ pc' \in [Procs -> Steps] /\ target' \in [Procs -> Files] /\ at' \in [Procs -> Nodes]
        /\ scripts' \subseteq Nodes
    BY DEF Connect, Kinds, TypeOK, Steps, Go, job
  <1>3. Roles'
    BY DEF Connect, Kinds, TypeOK, Roles, SessionPc, SenderPc, Go
  <1>4. Places'
    BY DEF Connect, Kinds, TypeOK, Places, Go, job
  <1>5. file' \in [Files -> SUBSET Senders] /\ missed' \subseteq Files /\ sent' \subseteq Senders /\ gone' \subseteq Senders
    BY DEF Connect, Kinds, TypeOK, history
  <1>6. calls' \in 0..MaxCalls /\ faults' \in 0..MaxFaults /\ shown' \in [Senders -> Nat]
    BY NodeMsgsAssumption DEF Connect, Kinds, TypeOK, history, bounds
  <1> QED
    BY <1>1, <1>2, <1>3, <1>4, <1>5, <1>6 DEF Kinds, TypeOK

LEMMA KindsLogon ==
  ASSUME Kinds, NEW n \in Nodes, Logon(n)
  PROVE  Kinds'
  <1>1. node' \in [Nodes -> NodeRecs]
    <2>1. PICK u \in Users :
            node' = [node EXCEPT ![n] = [status |-> "inuse", useron |-> u, msgw |-> FALSE, nmsg |-> @.nmsg]]
      BY DEF Logon
    <2>2. node \in [Nodes -> NodeRecs]
      BY DEF Kinds, TypeOK
    <2>3. [status |-> "inuse", useron |-> u, msgw |-> FALSE, nmsg |-> node[n].nmsg] \in NodeRecs
      BY <2>2 DEF NodeRecs
    <2> QED
      BY <2>1, <2>2, <2>3
  <1>2. /\ pc' \in [Procs -> Steps] /\ target' \in [Procs -> Files] /\ at' \in [Procs -> Nodes]
        /\ scripts' \subseteq Nodes
    BY DEF Logon, Kinds, TypeOK, Steps, Go, job
  <1>3. Roles'
    BY DEF Logon, Kinds, TypeOK, Roles, SessionPc, SenderPc, Go
  <1>4. Places'
    BY DEF Logon, Kinds, TypeOK, Places, Go, job
  <1>5. file' \in [Files -> SUBSET Senders] /\ missed' \subseteq Files /\ sent' \subseteq Senders /\ gone' \subseteq Senders
    BY DEF Logon, Kinds, TypeOK, history
  <1>6. calls' \in 0..MaxCalls /\ faults' \in 0..MaxFaults /\ shown' \in [Senders -> Nat]
    BY NodeMsgsAssumption DEF Logon, Kinds, TypeOK, history, bounds
  <1> QED
    BY <1>1, <1>2, <1>3, <1>4, <1>5, <1>6 DEF Kinds, TypeOK

LEMMA KindsLogoff ==
  ASSUME Kinds, NEW n \in Nodes, Logoff(n)
  PROVE  Kinds'
  <1>1. node' \in [Nodes -> NodeRecs]
    BY Record, Apart DEF Logoff, Kinds, TypeOK, NodeRecs, history, bounds, job
  <1>2. /\ pc' \in [Procs -> Steps] /\ target' \in [Procs -> Files] /\ at' \in [Procs -> Nodes]
        /\ scripts' \subseteq Nodes
    BY DEF Logoff, Kinds, TypeOK, Steps, Go, job
  <1>3. Roles'
    BY DEF Logoff, Kinds, TypeOK, Roles, SessionPc, SenderPc, Go
  <1>4. Places'
    BY DEF Logoff, Kinds, TypeOK, Places, Go, job
  <1>5. file' \in [Files -> SUBSET Senders] /\ missed' \subseteq Files /\ sent' \subseteq Senders /\ gone' \subseteq Senders
    BY DEF Logoff, Kinds, TypeOK, history
  <1>6. calls' \in 0..MaxCalls /\ faults' \in 0..MaxFaults /\ shown' \in [Senders -> Nat]
    BY NodeMsgsAssumption DEF Logoff, Kinds, TypeOK, history, bounds
  <1> QED
    BY <1>1, <1>2, <1>3, <1>4, <1>5, <1>6 DEF Kinds, TypeOK

LEMMA KindsEndCall ==
  ASSUME Kinds, NEW n \in Nodes, EndCall(n)
  PROVE  Kinds'
  <1>1. node' \in [Nodes -> NodeRecs]
    BY Record, Apart DEF EndCall, Kinds, TypeOK, NodeRecs, history, bounds, job
  <1>2. /\ pc' \in [Procs -> Steps] /\ target' \in [Procs -> Files] /\ at' \in [Procs -> Nodes]
        /\ scripts' \subseteq Nodes
    BY DEF EndCall, Kinds, TypeOK, Steps, Go, job
  <1>3. Roles'
    BY DEF EndCall, Kinds, TypeOK, Roles, SessionPc, SenderPc, Go
  <1>4. Places'
    BY DEF EndCall, Kinds, TypeOK, Places, Go, job
  <1>5. file' \in [Files -> SUBSET Senders] /\ missed' \subseteq Files /\ sent' \subseteq Senders /\ gone' \subseteq Senders
    BY DEF EndCall, Kinds, TypeOK, history
  <1>6. calls' \in 0..MaxCalls /\ faults' \in 0..MaxFaults /\ shown' \in [Senders -> Nat]
    BY NodeMsgsAssumption DEF EndCall, Kinds, TypeOK, history, bounds
  <1> QED
    BY <1>1, <1>2, <1>3, <1>4, <1>5, <1>6 DEF Kinds, TypeOK

LEMMA KindsSync ==
  ASSUME Kinds, NEW n \in Nodes, Sync(n)
  PROVE  Kinds'
  <1>1. node' \in [Nodes -> NodeRecs]
    BY DEF Sync, Begin, Kinds, TypeOK, history, bounds, job
  <1>2. /\ pc' \in [Procs -> Steps] /\ target' \in [Procs -> Files] /\ at' \in [Procs -> Nodes]
        /\ scripts' \subseteq Nodes
    <2>1. node[n].useron \in Files /\ n \in Files
      BY Apart DEF Kinds, TypeOK, NodeRecs
    <2>2. pc' \in [Procs -> Steps]
      BY DEF Sync, Go, Kinds, TypeOK, Steps
    <2> QED
      BY <2>1, <2>2, FirstOfNode DEF Sync, Begin, Kinds, TypeOK
  <1>3. Roles'
    BY DEF Sync, Kinds, TypeOK, Roles, SessionPc, SenderPc, Go
  <1>4. Places'
    BY Apart, FirstOfNode DEF Sync, Begin, Kinds, TypeOK, Places, Go
  <1>5. file' \in [Files -> SUBSET Senders] /\ missed' \subseteq Files /\ sent' \subseteq Senders /\ gone' \subseteq Senders
    BY DEF Sync, Kinds, TypeOK, history
  <1>6. calls' \in 0..MaxCalls /\ faults' \in 0..MaxFaults /\ shown' \in [Senders -> Nat]
    BY NodeMsgsAssumption DEF Sync, Begin, Kinds, TypeOK, history, bounds
  <1> QED
    BY <1>1, <1>2, <1>3, <1>4, <1>5, <1>6 DEF Kinds, TypeOK

LEMMA KindsScript ==
  ASSUME Kinds, NEW n \in Nodes, Script(n)
  PROVE  Kinds'
  <1>1. node' \in [Nodes -> NodeRecs]
    BY DEF Script, Begin, Kinds, TypeOK, history, bounds, job
  <1>2. /\ pc' \in [Procs -> Steps] /\ target' \in [Procs -> Files] /\ at' \in [Procs -> Nodes]
        /\ scripts' \subseteq Nodes
    BY Apart, FirstOfNode DEF Script, Begin, Kinds, TypeOK, Steps, Go
  <1>3. Roles'
    BY DEF Script, Kinds, TypeOK, Roles, SessionPc, SenderPc, Go
  <1>4. Places'
    BY Apart, FirstOfNode DEF Script, Begin, Kinds, TypeOK, Places, Go
  <1>5. file' \in [Files -> SUBSET Senders] /\ missed' \subseteq Files /\ sent' \subseteq Senders /\ gone' \subseteq Senders
    BY DEF Script, Kinds, TypeOK, history
  <1>6. calls' \in 0..MaxCalls /\ faults' \in 0..MaxFaults /\ shown' \in [Senders -> Nat]
    BY NodeMsgsAssumption DEF Script, Begin, Kinds, TypeOK, history, bounds
  <1> QED
    BY <1>1, <1>2, <1>3, <1>4, <1>5, <1>6 DEF Kinds, TypeOK

LEMMA KindsRemoveMsgs ==
  ASSUME Kinds, NEW n \in Nodes, RemoveMsgs(n)
  PROVE  Kinds'
  <1>1. node' \in [Nodes -> NodeRecs]
    BY DEF RemoveMsgs, Begin, Kinds, TypeOK, history, bounds, job
  <1>2. /\ pc' \in [Procs -> Steps] /\ target' \in [Procs -> Files] /\ at' \in [Procs -> Nodes]
        /\ scripts' \subseteq Nodes
    <2>1. node[n].useron \in Files
      BY Apart DEF Kinds, TypeOK, NodeRecs
    <2>2. pc' \in [Procs -> Steps]
      BY DEF RemoveMsgs, Kinds, TypeOK, Steps
    <2> QED
      BY <2>1, <2>2, FirstOfNode DEF RemoveMsgs, Begin, Kinds, TypeOK
  <1>3. Roles'
    BY Apart DEF RemoveMsgs, Kinds, TypeOK, Roles, SessionPc, SenderPc
  <1>4. Places'
    BY Apart, FirstOfNode DEF RemoveMsgs, Begin, Kinds, TypeOK, Places
  <1>5. file' \in [Files -> SUBSET Senders] /\ missed' \subseteq Files /\ sent' \subseteq Senders /\ gone' \subseteq Senders
    BY Apart DEF RemoveMsgs, Kinds, TypeOK
  <1>6. calls' \in 0..MaxCalls /\ faults' \in 0..MaxFaults /\ shown' \in [Senders -> Nat]
    BY NodeMsgsAssumption DEF RemoveMsgs, Begin, Kinds, TypeOK, history, bounds
  <1> QED
    BY <1>1, <1>2, <1>3, <1>4, <1>5, <1>6 DEF Kinds, TypeOK

LEMMA KindsClearLook ==
  ASSUME Kinds, NEW p \in Procs, ClearLook(p)
  PROVE  Kinds'
  <1>1. node' \in [Nodes -> NodeRecs]
    BY DEF ClearLook, Kinds, TypeOK, history, bounds, job
  <1>2. /\ pc' \in [Procs -> Steps] /\ target' \in [Procs -> Files] /\ at' \in [Procs -> Nodes]
        /\ scripts' \subseteq Nodes /\ Roles' /\ Places'
    <2>1. pc[p] = "clear" /\ p \in Nodes
      BY Apart DEF ClearLook, Kinds, Roles, SenderPc
    <2>2. CASE Go(p, "unflag") /\ UNCHANGED job
      <3>1. /\ target' = target /\ at' = at /\ scripts' = scripts
            /\ pc' = [pc EXCEPT ![p] = "unflag"]
        BY <2>2 DEF Go, job
      <3>2. /\ pc' \in [Procs -> Steps] /\ target' \in [Procs -> Files] /\ at' \in [Procs -> Nodes]
            /\ scripts' \subseteq Nodes
        BY <3>1 DEF Kinds, TypeOK, Steps
      <3>3. Roles' /\ Places'
        BY <2>1, <3>1, Apart DEF Kinds, TypeOK, Roles, Places, SessionPc
      <3> QED
        BY <3>2, <3>3
    <2>3. CASE NextClear(p)
      BY <2>1, <2>3, NextClearKinds DEF Kinds, TypeOK
    <2> QED
      BY <2>2, <2>3 DEF ClearLook
  <1>5. file' \in [Files -> SUBSET Senders] /\ missed' \subseteq Files /\ sent' \subseteq Senders /\ gone' \subseteq Senders
    BY DEF ClearLook, Kinds, TypeOK, history
  <1>6. calls' \in 0..MaxCalls /\ faults' \in 0..MaxFaults /\ shown' \in [Senders -> Nat]
    BY NodeMsgsAssumption DEF ClearLook, Kinds, TypeOK, history, bounds
  <1> QED
    BY <1>1, <1>2, <1>5, <1>6 DEF Kinds, TypeOK

LEMMA KindsUnflag ==
  ASSUME Kinds, NEW p \in Procs, Unflag(p)
  PROVE  Kinds'
  <1>1. node' \in [Nodes -> NodeRecs]
    <2>1. node \in [Nodes -> NodeRecs] /\ at[p] \in Nodes
      BY DEF Kinds, TypeOK
    <2>2. \A k \in Nodes, b \in BOOLEAN :
            /\ [node EXCEPT ![k].nmsg = b] \in [Nodes -> NodeRecs]
            /\ [node EXCEPT ![k].msgw = b] \in [Nodes -> NodeRecs]
      BY <2>1, Record
    <2>3. CASE target[p] \in Nodes
      BY <2>1, <2>2, <2>3 DEF Unflag
    <2>4. CASE target[p] \notin Nodes
      <3>1. PICK b \in BOOLEAN : node' = [node EXCEPT ![at[p]].msgw = b]
        BY <2>1, <2>4 DEF Unflag, NodeRecs, HasUser
      <3> QED
        BY <2>1, <2>2, <3>1
    <2> QED
      BY <2>3, <2>4
  <1>2. /\ pc' \in [Procs -> Steps] /\ target' \in [Procs -> Files] /\ at' \in [Procs -> Nodes]
        /\ scripts' \subseteq Nodes /\ Roles' /\ Places'
    BY NextClearKinds DEF Unflag, Kinds, TypeOK
  <1>5. file' \in [Files -> SUBSET Senders] /\ missed' \subseteq Files /\ sent' \subseteq Senders /\ gone' \subseteq Senders
    BY Apart DEF Unflag, Kinds, TypeOK, NodeRecs
  <1>6. calls' \in 0..MaxCalls /\ faults' \in 0..MaxFaults /\ shown' \in [Senders -> Nat]
    BY NodeMsgsAssumption DEF Unflag, Kinds, TypeOK, history, bounds
  <1> QED
    BY <1>1, <1>2, <1>5, <1>6 DEF Kinds, TypeOK

LEMMA KindsUnflagTimeout ==
  ASSUME Kinds, NEW p \in Procs, UnflagTimeout(p)
  PROVE  Kinds'
  <1>1. node' \in [Nodes -> NodeRecs]
    BY DEF UnflagTimeout, Fault, Kinds, TypeOK, history, bounds, job
  <1>2. /\ pc' \in [Procs -> Steps] /\ target' \in [Procs -> Files] /\ at' \in [Procs -> Nodes]
        /\ scripts' \subseteq Nodes /\ Roles' /\ Places'
    BY NextClearKinds DEF UnflagTimeout, Fault, Kinds, TypeOK
  <1>5. file' \in [Files -> SUBSET Senders] /\ missed' \subseteq Files /\ sent' \subseteq Senders /\ gone' \subseteq Senders
    BY DEF UnflagTimeout, Fault, Kinds, TypeOK, history
  <1>6. calls' \in 0..MaxCalls /\ faults' \in 0..MaxFaults /\ shown' \in [Senders -> Nat]
    BY NodeMsgsAssumption DEF UnflagTimeout, Fault, Kinds, TypeOK, history, bounds
  <1> QED
    BY <1>1, <1>2, <1>5, <1>6 DEF Kinds, TypeOK

LEMMA KindsReadEmpty ==
  ASSUME Kinds, NEW p \in Procs, ReadEmpty(p)
  PROVE  Kinds'
  <1>1. node' \in [Nodes -> NodeRecs]
    BY DEF ReadEmpty, Return, Kinds, TypeOK, history, bounds, job
  <1>2. /\ pc' \in [Procs -> Steps] /\ target' \in [Procs -> Files] /\ at' \in [Procs -> Nodes]
        /\ scripts' \subseteq Nodes
    BY Apart, FirstOfNode DEF ReadEmpty, Return, Kinds, TypeOK, Steps, Go
  <1>3. Roles'
    BY DEF ReadEmpty, Return, Kinds, TypeOK, Roles, SessionPc, SenderPc, Go
  <1>4. Places'
    BY DEF ReadEmpty, Return, Kinds, TypeOK, Places, Go
  <1>5. file' \in [Files -> SUBSET Senders] /\ missed' \subseteq Files /\ sent' \subseteq Senders /\ gone' \subseteq Senders
    BY DEF ReadEmpty, Kinds, TypeOK, history
  <1>6. calls' \in 0..MaxCalls /\ faults' \in 0..MaxFaults /\ shown' \in [Senders -> Nat]
    BY NodeMsgsAssumption DEF ReadEmpty, Return, Kinds, TypeOK, history, bounds
  <1> QED
    BY <1>1, <1>2, <1>3, <1>4, <1>5, <1>6 DEF Kinds, TypeOK

LEMMA KindsReadFile ==
  ASSUME Kinds, NEW p \in Procs, ReadFile(p)
  PROVE  Kinds'
  <1>1. node' \in [Nodes -> NodeRecs]
    BY DEF ReadFile, Kinds, TypeOK, history, bounds, job
  <1>2. /\ pc' \in [Procs -> Steps] /\ target' \in [Procs -> Files] /\ at' \in [Procs -> Nodes]
        /\ scripts' \subseteq Nodes
    BY DEF ReadFile, Kinds, TypeOK, Steps, Go, job
  <1>3. Roles'
    BY DEF ReadFile, Kinds, TypeOK, Roles, SessionPc, SenderPc, Go
  <1>4. Places'
    BY DEF ReadFile, Kinds, TypeOK, Places, Go, job
  <1>5. file' \in [Files -> SUBSET Senders] /\ missed' \subseteq Files /\ sent' \subseteq Senders /\ gone' \subseteq Senders
    BY DEF ReadFile, Kinds, TypeOK
  <1>6. calls' \in 0..MaxCalls /\ faults' \in 0..MaxFaults /\ shown' \in [Senders -> Nat]
    BY NodeMsgsAssumption DEF ReadFile, Kinds, TypeOK, history, bounds
  <1> QED
    BY <1>1, <1>2, <1>3, <1>4, <1>5, <1>6 DEF Kinds, TypeOK

LEMMA KindsReadTimeout ==
  ASSUME Kinds, NEW p \in Procs, ReadTimeout(p)
  PROVE  Kinds'
  <1>1. node' \in [Nodes -> NodeRecs]
    BY DEF ReadTimeout, Fault, Return, Kinds, TypeOK, history, bounds, job
  <1>2. /\ pc' \in [Procs -> Steps] /\ target' \in [Procs -> Files] /\ at' \in [Procs -> Nodes]
        /\ scripts' \subseteq Nodes
    BY Apart, FirstOfNode DEF ReadTimeout, Fault, Return, Kinds, TypeOK, Steps, Go
  <1>3. Roles'
    BY DEF ReadTimeout, Fault, Return, Kinds, TypeOK, Roles, SessionPc, SenderPc, Go
  <1>4. Places'
    BY DEF ReadTimeout, Fault, Return, Kinds, TypeOK, Places, Go
  <1>5. file' \in [Files -> SUBSET Senders] /\ missed' \subseteq Files /\ sent' \subseteq Senders /\ gone' \subseteq Senders
    BY DEF ReadTimeout, Fault, Kinds, TypeOK
  <1>6. calls' \in 0..MaxCalls /\ faults' \in 0..MaxFaults /\ shown' \in [Senders -> Nat]
    BY NodeMsgsAssumption DEF ReadTimeout, Fault, Return, Kinds, TypeOK, history, bounds
  <1> QED
    BY <1>1, <1>2, <1>3, <1>4, <1>5, <1>6 DEF Kinds, TypeOK

LEMMA KindsCut ==
  ASSUME Kinds, NEW p \in Procs, Cut(p)
  PROVE  Kinds'
  <1>1. node' \in [Nodes -> NodeRecs]
    BY DEF Cut, Return, Kinds, TypeOK, history, bounds, job
  <1>2. /\ pc' \in [Procs -> Steps] /\ target' \in [Procs -> Files] /\ at' \in [Procs -> Nodes]
        /\ scripts' \subseteq Nodes
    BY Apart, FirstOfNode DEF Cut, Return, Kinds, TypeOK, Steps, Go
  <1>3. Roles'
    BY DEF Cut, Return, Kinds, TypeOK, Roles, SessionPc, SenderPc, Go
  <1>4. Places'
    BY DEF Cut, Return, Kinds, TypeOK, Places, Go
  <1>5. file' \in [Files -> SUBSET Senders] /\ missed' \subseteq Files /\ sent' \subseteq Senders /\ gone' \subseteq Senders
    BY DEF Cut, Kinds, TypeOK, history
  <1>6. calls' \in 0..MaxCalls /\ faults' \in 0..MaxFaults /\ shown' \in [Senders -> Nat]
    BY NodeMsgsAssumption DEF Cut, Return, Kinds, TypeOK, history, bounds
  <1> QED
    BY <1>1, <1>2, <1>3, <1>4, <1>5, <1>6 DEF Kinds, TypeOK

LEMMA KindsPutOpen ==
  ASSUME Kinds, NEW s \in Senders, PutOpen(s)
  PROVE  Kinds'
  <1>1. node' \in [Nodes -> NodeRecs]
    BY DEF PutOpen, Begin, Kinds, TypeOK, history, bounds, job
  <1>2. /\ pc' \in [Procs -> Steps] /\ target' \in [Procs -> Files] /\ at' \in [Procs -> Nodes]
        /\ scripts' \subseteq Nodes
    BY Apart, FirstOfNode DEF PutOpen, Begin, Kinds, TypeOK, Steps, Go
  <1>3. Roles'
    BY DEF PutOpen, Kinds, TypeOK, Roles, SessionPc, SenderPc, Go
  <1>4. Places'
    BY Apart, FirstOfNode DEF PutOpen, Begin, Kinds, TypeOK, Places, Go
  <1>5. file' \in [Files -> SUBSET Senders] /\ missed' \subseteq Files /\ sent' \subseteq Senders /\ gone' \subseteq Senders
    BY DEF PutOpen, Kinds, TypeOK, history
  <1>6. calls' \in 0..MaxCalls /\ faults' \in 0..MaxFaults /\ shown' \in [Senders -> Nat]
    BY NodeMsgsAssumption DEF PutOpen, Begin, Kinds, TypeOK, history, bounds
  <1> QED
    BY <1>1, <1>2, <1>3, <1>4, <1>5, <1>6 DEF Kinds, TypeOK

LEMMA KindsAppend ==
  ASSUME Kinds, NEW p \in Procs, Append(p)
  PROVE  Kinds'
  <1>1. node' \in [Nodes -> NodeRecs]
    BY DEF Append, Kinds, TypeOK, history, bounds, job
  <1>2. /\ pc' \in [Procs -> Steps] /\ target' \in [Procs -> Files] /\ at' \in [Procs -> Nodes]
        /\ scripts' \subseteq Nodes
    BY DEF Append, Kinds, TypeOK, Steps, Go, job
  <1>3. Roles'
    BY DEF Append, Kinds, TypeOK, Roles, SessionPc, SenderPc, Go
  <1>4. Places'
    BY DEF Append, Kinds, TypeOK, Places, Go, job
  <1>5. file' \in [Files -> SUBSET Senders] /\ missed' \subseteq Files /\ sent' \subseteq Senders /\ gone' \subseteq Senders
    <2>1. p \in Senders /\ target[p] \in Files
      BY Apart DEF Append, Kinds, TypeOK, Roles, SessionPc
    <2>2. /\ file \in [Files -> SUBSET Senders] /\ missed \subseteq Files /\ sent \subseteq Senders
          /\ gone \subseteq Senders
      BY DEF Kinds, TypeOK
    <2> QED
      BY <2>1, <2>2 DEF Append
  <1>6. calls' \in 0..MaxCalls /\ faults' \in 0..MaxFaults /\ shown' \in [Senders -> Nat]
    BY NodeMsgsAssumption DEF Append, Kinds, TypeOK, history, bounds
  <1> QED
    BY <1>1, <1>2, <1>3, <1>4, <1>5, <1>6 DEF Kinds, TypeOK

LEMMA KindsLook ==
  ASSUME Kinds, NEW p \in Procs, Look(p)
  PROVE  Kinds'
  <1>1. node' \in [Nodes -> NodeRecs]
    BY DEF Look, Kinds, TypeOK, history, bounds, job
  <1>2. /\ pc' \in [Procs -> Steps] /\ target' \in [Procs -> Files] /\ at' \in [Procs -> Nodes]
        /\ scripts' \subseteq Nodes /\ Roles' /\ Places'
    <2>1. pc[p] = "look" /\ p \in Senders
      BY Apart DEF Look, Kinds, Roles, SessionPc
    <2>2. CASE Go(p, "flag") /\ UNCHANGED job
      <3>1. /\ target' = target /\ at' = at /\ scripts' = scripts
            /\ pc' = [pc EXCEPT ![p] = "flag"]
        BY <2>2 DEF Go, job
      <3>2. /\ pc' \in [Procs -> Steps] /\ target' \in [Procs -> Files] /\ at' \in [Procs -> Nodes]
            /\ scripts' \subseteq Nodes
        BY <3>1 DEF Kinds, TypeOK, Steps
      <3>3. Roles' /\ Places'
        BY <2>1, <3>1, Apart DEF Kinds, TypeOK, Roles, Places, SenderPc
      <3> QED
        BY <3>2, <3>3
    <2>3. CASE NextLook(p)
      BY <2>1, <2>3, NextLookKinds DEF Kinds, TypeOK
    <2> QED
      BY <2>2, <2>3 DEF Look
  <1>5. file' \in [Files -> SUBSET Senders] /\ missed' \subseteq Files /\ sent' \subseteq Senders /\ gone' \subseteq Senders
    BY DEF Look, Kinds, TypeOK, history
  <1>6. calls' \in 0..MaxCalls /\ faults' \in 0..MaxFaults /\ shown' \in [Senders -> Nat]
    BY NodeMsgsAssumption DEF Look, Kinds, TypeOK, history, bounds
  <1> QED
    BY <1>1, <1>2, <1>5, <1>6 DEF Kinds, TypeOK

LEMMA KindsFlag ==
  ASSUME Kinds, NEW p \in Procs, Flag(p)
  PROVE  Kinds'
  <1>1. node' \in [Nodes -> NodeRecs]
    BY Record, Apart DEF Flag, Kinds, TypeOK, NodeRecs, history, bounds, job
  <1>2. /\ pc' \in [Procs -> Steps] /\ target' \in [Procs -> Files] /\ at' \in [Procs -> Nodes]
        /\ scripts' \subseteq Nodes /\ Roles' /\ Places'
    BY NextLookKinds DEF Flag, Kinds, TypeOK
  <1>5. file' \in [Files -> SUBSET Senders] /\ missed' \subseteq Files /\ sent' \subseteq Senders /\ gone' \subseteq Senders
    BY DEF Flag, Kinds, TypeOK, history
  <1>6. calls' \in 0..MaxCalls /\ faults' \in 0..MaxFaults /\ shown' \in [Senders -> Nat]
    BY NodeMsgsAssumption DEF Flag, Kinds, TypeOK, history, bounds
  <1> QED
    BY <1>1, <1>2, <1>5, <1>6 DEF Kinds, TypeOK

LEMMA KindsFlagTimeout ==
  ASSUME Kinds, NEW s \in Senders, FlagTimeout(s)
  PROVE  Kinds'
  <1>1. node' \in [Nodes -> NodeRecs]
    BY DEF FlagTimeout, Fault, Return, Kinds, TypeOK, history, bounds, job
  <1>2. /\ pc' \in [Procs -> Steps] /\ target' \in [Procs -> Files] /\ at' \in [Procs -> Nodes]
        /\ scripts' \subseteq Nodes
    BY Apart, FirstOfNode DEF FlagTimeout, Fault, Return, Kinds, TypeOK, Steps, Go
  <1>3. Roles'
    BY DEF FlagTimeout, Fault, Return, Kinds, TypeOK, Roles, SessionPc, SenderPc, Go
  <1>4. Places'
    BY DEF FlagTimeout, Fault, Return, Kinds, TypeOK, Places, Go
  <1>5. file' \in [Files -> SUBSET Senders] /\ missed' \subseteq Files /\ sent' \subseteq Senders /\ gone' \subseteq Senders
    BY Apart DEF FlagTimeout, Fault, Kinds, TypeOK
  <1>6. calls' \in 0..MaxCalls /\ faults' \in 0..MaxFaults /\ shown' \in [Senders -> Nat]
    BY NodeMsgsAssumption DEF FlagTimeout, Fault, Return, Kinds, TypeOK, history, bounds
  <1> QED
    BY <1>1, <1>2, <1>3, <1>4, <1>5, <1>6 DEF Kinds, TypeOK

-----------------------------------------------------------------------------
(* Forgotten messages.                                                      *)

LEMMA KindsStep == Kinds /\ [Next]_vars => Kinds'
  <1> SUFFICES ASSUME Kinds, [Next]_vars PROVE Kinds'
    OBVIOUS
  <1>1. CASE UNCHANGED vars
    BY <1>1 DEF Kinds, TypeOK, Roles, Places, vars, job, bounds, history
  <1>2. CASE \E n \in Nodes : Connect(n) \/ Logoff(n) \/ Script(n)
    BY <1>2, KindsConnect, KindsLogoff, KindsScript
  <1>3. CASE \E s \in Senders : PutOpen(s) \/ FlagTimeout(s)
    BY <1>3, KindsPutOpen, KindsFlagTimeout
  <1>4. CASE \E p \in Procs : Work(p) \/ UnflagTimeout(p) \/ ReadTimeout(p)
    BY <1>4, KindsLogon, KindsRemoveMsgs, KindsSync, KindsEndCall, KindsClearLook, KindsUnflag,
       KindsReadEmpty, KindsReadFile, KindsCut, KindsAppend, KindsLook, KindsFlag,
       KindsUnflagTimeout, KindsReadTimeout DEF Work
  <1> QED
    BY <1>1, <1>2, <1>3, <1>4 DEF Next

\* The session of node n is, or will be, told of what waits in file f.
Told(n, f) ==
    \/ file[f] = {}
    \/ IF f = n THEN node[n].nmsg ELSE node[n].msgw
    \/ YetToFlag(n, f) \/ YetToRead(f)
    \/ f \in missed

Due(n, f) == node[n].status = "inuse" /\ pc[n] # "remove" /\ f \in {n, node[n].useron}

LEMMA ToldBefore ==
  ASSUME NotForgotten, NEW n \in Nodes, NEW f, Due(n, f)
  PROVE  Told(n, f)
  BY DEF NotForgotten, Due, Told

LEMMA DueFile ==
  ASSUME Kinds', NEW n \in Nodes, NEW f, Due(n, f)'
  PROVE  f \in Files /\ (f \in Nodes => f = n) /\ (f \notin Nodes => f = node'[n].useron)
  BY Apart DEF Due, Kinds, TypeOK, NodeRecs

LEMMA ToldConnect ==
  ASSUME Kinds, Kinds', NotForgotten, NEW k \in Nodes, Connect(k), NEW n \in Nodes, NEW f, Due(n, f)'
  PROVE  Told(n, f)'
  <1>1. n # k
    BY DEF Connect, Due, Go, Kinds, TypeOK
  <1>2. Due(n, f) /\ node'[n] = node[n] /\ pc'[n] = pc[n]
    BY <1>1 DEF Connect, Due, Go, Kinds, TypeOK
  <1>3. Told(n, f)
    BY <1>2, ToldBefore
  <1>4. YetToFlag(n, f) => YetToFlag(n, f)'
    BY Apart DEF Connect, YetToFlag, Go, Kinds, TypeOK, job
  <1>5. YetToRead(f) => YetToRead(f)'
    BY DEF Connect, YetToRead, Go, Kinds, TypeOK, job
  <1> QED
    BY <1>2, <1>3, <1>4, <1>5 DEF Connect, Told, history

LEMMA ToldLogon ==
  ASSUME Kinds, Kinds', NotForgotten, NEW k \in Nodes, Logon(k), NEW n \in Nodes, NEW f, Due(n, f)'
  PROVE  Told(n, f)'
  <1>1. n # k
    BY DEF Logon, Due, Go, Kinds, TypeOK
  <1>2. Due(n, f) /\ node'[n] = node[n] /\ pc'[n] = pc[n]
    BY <1>1 DEF Logon, Due, Go, Kinds, TypeOK
  <1>3. Told(n, f)
    BY <1>2, ToldBefore
  <1>4. YetToFlag(n, f) => YetToFlag(n, f)'
    BY Apart DEF Logon, YetToFlag, Go, Kinds, TypeOK, job
  <1>5. YetToRead(f) => YetToRead(f)'
    BY DEF Logon, YetToRead, Go, Kinds, TypeOK, job
  <1> QED
    BY <1>2, <1>3, <1>4, <1>5 DEF Logon, Told, history

LEMMA ToldLogoff ==
  ASSUME Kinds, Kinds', NotForgotten, NEW k \in Nodes, Logoff(k), NEW n \in Nodes, NEW f, Due(n, f)'
  PROVE  Told(n, f)'
  <1>1. n # k
    BY DEF Logoff, Due, Go, Kinds, TypeOK
  <1>2. Due(n, f) /\ node'[n] = node[n] /\ pc'[n] = pc[n]
    BY <1>1 DEF Logoff, Due, Go, Kinds, TypeOK
  <1>3. Told(n, f)
    BY <1>2, ToldBefore
  <1>4. YetToFlag(n, f) => YetToFlag(n, f)'
    BY Apart DEF Logoff, YetToFlag, Go, Kinds, TypeOK, job
  <1>5. YetToRead(f) => YetToRead(f)'
    BY DEF Logoff, YetToRead, Go, Kinds, TypeOK, job
  <1> QED
    BY <1>2, <1>3, <1>4, <1>5 DEF Logoff, Told, history

LEMMA ToldEndCall ==
  ASSUME Kinds, Kinds', NotForgotten, NEW k \in Nodes, EndCall(k), NEW n \in Nodes, NEW f, Due(n, f)'
  PROVE  Told(n, f)'
  <1>1. n # k
    BY DEF EndCall, Due, Go, Kinds, TypeOK
  <1>2. Due(n, f) /\ node'[n] = node[n] /\ pc'[n] = pc[n]
    BY <1>1 DEF EndCall, Due, Go, Kinds, TypeOK
  <1>3. Told(n, f)
    BY <1>2, ToldBefore
  <1>4. YetToFlag(n, f) => YetToFlag(n, f)'
    BY Apart DEF EndCall, YetToFlag, Go, Kinds, TypeOK, job
  <1>5. YetToRead(f) => YetToRead(f)'
    BY DEF EndCall, YetToRead, Go, Kinds, TypeOK, job
  <1> QED
    BY <1>2, <1>3, <1>4, <1>5 DEF EndCall, Told, history

LEMMA ToldSync ==
  ASSUME Kinds, Kinds', NotForgotten, NEW k \in Nodes, Sync(k), NEW n \in Nodes, NEW f, Due(n, f)'
  PROVE  Told(n, f)'
  <1>1. Due(n, f) /\ node' = node
    BY DEF Sync, Due, Go, Kinds, TypeOK
  <1>2. Told(n, f)
    BY <1>1, ToldBefore
  <1>3. YetToFlag(n, f) => YetToFlag(n, f)'
    BY Apart DEF Sync, Begin, YetToFlag, Go, Kinds, TypeOK
  <1>4. YetToRead(f) => YetToRead(f)'
    BY DEF Sync, Begin, YetToRead, Go, Kinds, TypeOK
  <1> QED
    BY <1>1, <1>2, <1>3, <1>4 DEF Sync, Told, history

LEMMA ToldScript ==
  ASSUME Kinds, Kinds', NotForgotten, NEW k \in Nodes, Script(k), NEW n \in Nodes, NEW f, Due(n, f)'
  PROVE  Told(n, f)'
  <1>1. Due(n, f) /\ node' = node
    BY DEF Script, Due, Go, Kinds, TypeOK
  <1>2. Told(n, f)
    BY <1>1, ToldBefore
  <1>3. YetToFlag(n, f) => YetToFlag(n, f)'
    BY Apart DEF Script, Begin, YetToFlag, Go, Kinds, TypeOK
  <1>4. YetToRead(f) => YetToRead(f)'
    BY DEF Script, Begin, YetToRead, Go, Kinds, TypeOK
  <1> QED
    BY <1>1, <1>2, <1>3, <1>4 DEF Script, Told, history

LEMMA ToldRemoveMsgs ==
  ASSUME Kinds, Kinds', NotForgotten, NEW k \in Nodes, RemoveMsgs(k), NEW n \in Nodes, NEW f, Due(n, f)'
  PROVE  Told(n, f)'
  <1>0. f \in Files /\ (f \in Nodes => f = n) /\ node' = node
    BY DueFile DEF RemoveMsgs
  <1>1. CASE n = k /\ f = n
    BY <1>0, <1>1 DEF RemoveMsgs, Told, Kinds, TypeOK
  <1>2. CASE n = k /\ f # n
    <2>1. f = node[n].useron
      BY <1>0, <1>2 DEF Due
    <2>2. target'[n] = f /\ pc'[n] = "clear"
      BY <1>2, <2>1, Apart DEF RemoveMsgs, Begin, Kinds, TypeOK
    <2> QED
      BY <2>2, Apart DEF YetToRead, Told
  <1>3. CASE n # k
    <2>1. f # k /\ Due(n, f)
      BY <1>0, <1>3, Apart DEF RemoveMsgs, Due, Kinds, TypeOK
    <2>2. Told(n, f)
      BY <2>1, ToldBefore
    <2>3. YetToFlag(n, f) => YetToFlag(n, f)'
      BY Apart DEF RemoveMsgs, Begin, YetToFlag, Kinds, TypeOK
    <2>4. YetToRead(f) => YetToRead(f)'
      BY <2>1, Apart DEF RemoveMsgs, Begin, YetToRead, Kinds, TypeOK
    <2> QED
      BY <1>0, <2>1, <2>2, <2>3, <2>4 DEF RemoveMsgs, Told, Kinds, TypeOK
  <1> QED
    BY <1>1, <1>2, <1>3

LEMMA ToldClearLook ==
  ASSUME Kinds, Kinds', NotForgotten, NEW p \in Procs, ClearLook(p), NEW n \in Nodes, NEW f, Due(n, f)'
  PROVE  Told(n, f)'
  <1>1. /\ target' = target /\ p \in Nodes
        /\ pc'[p] \in {"clear", "unflag", "read"}
        /\ \A q \in Procs \ {p} : pc'[q] = pc[q] /\ at'[q] = at[q]
    <2>1. pc[p] = "clear" /\ p \in Nodes /\ pc \in [Procs -> Steps]
      BY Apart DEF ClearLook, Kinds, TypeOK, Roles, SenderPc
    <2>2. CASE Go(p, "unflag") /\ UNCHANGED job
      BY <2>1, <2>2 DEF Go, job
    <2>3. CASE NextClear(p)
      BY <2>1, <2>3, NextClearKinds
    <2> QED
      BY <2>1, <2>2, <2>3 DEF ClearLook
  <1>2. Due(n, f) /\ node' = node
    BY <1>1, Apart DEF ClearLook, Due
  <1>3. Told(n, f)
    BY <1>2, ToldBefore
  <1>4. YetToFlag(n, f) => YetToFlag(n, f)'
    BY <1>1, Apart DEF YetToFlag
  <1>5. YetToRead(f) => YetToRead(f)'
    BY <1>1 DEF YetToRead
  <1> QED
    BY <1>2, <1>3, <1>4, <1>5 DEF ClearLook, Told, history

LEMMA ToldUnflagTimeout ==
  ASSUME Kinds, Kinds', NotForgotten, NEW p \in Procs, UnflagTimeout(p), NEW n \in Nodes, NEW f, Due(n, f)'
  PROVE  Told(n, f)'
  <1>1. /\ target' = target /\ p \in Nodes
        /\ pc'[p] \in {"clear", "unflag", "read"}
        /\ \A q \in Procs \ {p} : pc'[q] = pc[q] /\ at'[q] = at[q]
    BY NextClearKinds, Apart DEF UnflagTimeout, Go, job, Kinds, TypeOK, Roles, SenderPc
  <1>2. Due(n, f) /\ node' = node
    BY <1>1, Apart DEF UnflagTimeout, Due
  <1>3. Told(n, f)
    BY <1>2, ToldBefore
  <1>4. YetToFlag(n, f) => YetToFlag(n, f)'
    BY <1>1, Apart DEF YetToFlag
  <1>5. YetToRead(f) => YetToRead(f)'
    BY <1>1 DEF YetToRead
  <1> QED
    BY <1>2, <1>3, <1>4, <1>5 DEF UnflagTimeout, Told, history

LEMMA ToldUnflag ==
  ASSUME Kinds, Kinds', NotForgotten, NEW p \in Procs, Unflag(p), NEW n \in Nodes, NEW f, Due(n, f)'
  PROVE  Told(n, f)'
  <1>1. /\ target' = target /\ p \in Nodes /\ pc[p] = "unflag"
        /\ pc'[p] \in {"clear", "read"}
        /\ \A q \in Procs \ {p} : pc'[q] = pc[q] /\ at'[q] = at[q]
    BY NextClearKinds, Apart DEF Unflag, Kinds, TypeOK, Roles, SenderPc
  <1>2. at[p] \in Nodes /\ (target[p] \in Nodes => at[p] = target[p]) /\ node \in [Nodes -> NodeRecs]
    BY <1>1 DEF Kinds, TypeOK, Places
  <1>3. node'[n].status = node[n].status /\ node'[n].useron = node[n].useron
    BY <1>2 DEF Unflag, NodeRecs
  <1>4. Due(n, f)
    BY <1>1, <1>3, Apart DEF Due
  <1>5. Told(n, f)
    BY <1>4, ToldBefore
  <1>6. YetToFlag(n, f) => YetToFlag(n, f)'
    BY <1>1, Apart DEF YetToFlag
  <1>7. YetToRead(f) => YetToRead(f)'
    BY <1>1 DEF YetToRead
  <1>8. file' = file /\ missed \subseteq missed'
    BY DEF Unflag
  <1>9. f \in Files /\ (f \in Nodes => f = n) /\ (f \notin Nodes => f = node[n].useron)
    BY <1>3, DueFile
  <1>10. CASE f = target[p]
    BY <1>1, <1>10 DEF Told, YetToRead
  <1>11. CASE f # target[p] /\ f = n
    <2>1. node'[n].nmsg = node[n].nmsg
      BY <1>2, <1>11 DEF Unflag, NodeRecs
    <2> QED
      BY <1>5, <1>6, <1>7, <1>8, <1>11, <2>1 DEF Told
  <1>12. CASE f # target[p] /\ f # n
    <2>1. f = node[n].useron /\ f \notin Nodes
      BY <1>9, <1>12
    <2>2. node'[n].msgw = node[n].msgw \/ f \in missed'
      <3>1. CASE target[p] \in Nodes \/ at[p] # n
        BY <1>2, <3>1 DEF Unflag, NodeRecs
      <3>2. CASE target[p] \notin Nodes /\ at[p] = n /\ p \in scripts /\ node[n].msgw
        BY <1>12, <2>1, <3>2 DEF Unflag
      <3>3. CASE target[p] \notin Nodes /\ at[p] = n /\ ~(p \in scripts /\ node[n].msgw)
        <4>1. node' = [node EXCEPT ![n].msgw = @ /\ p \notin scripts /\ ~HasUser(n, target[p])]
          BY <3>3 DEF Unflag
        <4>2. ~HasUser(n, target[p]) /\ node[n].msgw \in BOOLEAN
          BY <1>2, <1>12, <2>1 DEF HasUser, NodeRecs
        <4>3. node'[n].msgw = (node[n].msgw /\ p \notin scripts /\ ~HasUser(n, target[p]))
          BY <1>2, <4>1 DEF NodeRecs
        <4> QED
          BY <3>3, <4>2, <4>3
      <3> QED
        BY <3>1, <3>2, <3>3
    <2> QED
      BY <1>5, <1>6, <1>7, <1>8, <1>12, <2>2 DEF Told
  <1> QED
    BY <1>10, <1>11, <1>12

LEMMA ToldReadEmpty ==
  ASSUME Kinds, Kinds', NotForgotten, NEW p \in Procs, ReadEmpty(p), NEW n \in Nodes, NEW f, Due(n, f)'
  PROVE  Told(n, f)'
  <1>1. \/ pc[p] = "empty"
        \/ pc[p] = "read" /\ file'[target[p]] = {}
    BY DEF ReadEmpty, Kinds, TypeOK
  <1>2. p \in Nodes /\ p \notin Senders
    BY <1>1, Apart DEF Kinds, Roles, SenderPc
  <1>3. \A q \in Procs \ {p} : pc'[q] = pc[q] /\ at'[q] = at[q] /\ target'[q] = target[q]
    BY DEF ReadEmpty, Return, Go, Kinds, TypeOK
  <1>4. Due(n, f) /\ node' = node
    BY <1>1, <1>3, Apart DEF ReadEmpty, Due
  <1>5. Told(n, f)
    BY <1>4, ToldBefore
  <1>6. YetToFlag(n, f) => YetToFlag(n, f)'
    BY <1>2, <1>3, Apart DEF YetToFlag
  <1>7. YetToRead(f) => YetToRead(f)' \/ (target[p] = f /\ pc[p] # "empty")
    BY <1>1, <1>3 DEF YetToRead
  <1>8. missed \subseteq missed' /\ (file'[f] = file[f] \/ file'[f] = {})
    BY DueFile DEF ReadEmpty, history, Kinds, TypeOK
  <1> QED
    BY <1>1, <1>4, <1>5, <1>6, <1>7, <1>8 DEF Told

LEMMA ToldReadTimeout ==
  ASSUME Kinds, Kinds', NotForgotten, NEW p \in Procs, ReadTimeout(p), NEW n \in Nodes, NEW f, Due(n, f)'
  PROVE  Told(n, f)'
  <1>1. \/ pc[p] = "read" /\ target[p] \in missed'
    BY DEF ReadTimeout, Kinds, TypeOK
  <1>2. p \in Nodes /\ p \notin Senders
    BY <1>1, Apart DEF Kinds, Roles, SenderPc
  <1>3. \A q \in Procs \ {p} : pc'[q] = pc[q] /\ at'[q] = at[q] /\ target'[q] = target[q]
    BY DEF ReadTimeout, Return, Go, Kinds, TypeOK
  <1>4. Due(n, f) /\ node' = node
    BY <1>1, <1>3, Apart DEF ReadTimeout, Due
  <1>5. Told(n, f)
    BY <1>4, ToldBefore
  <1>6. YetToFlag(n, f) => YetToFlag(n, f)'
    BY <1>2, <1>3, Apart DEF YetToFlag
  <1>7. YetToRead(f) => YetToRead(f)' \/ (target[p] = f /\ pc[p] # "empty")
    BY <1>1, <1>3 DEF YetToRead
  <1>8. missed \subseteq missed' /\ (file'[f] = file[f] \/ file'[f] = {})
    BY DueFile DEF ReadTimeout, history, Kinds, TypeOK
  <1> QED
    BY <1>1, <1>4, <1>5, <1>6, <1>7, <1>8 DEF Told

LEMMA ToldCut ==
  ASSUME Kinds, Kinds', NotForgotten, NEW p \in Procs, Cut(p), NEW n \in Nodes, NEW f, Due(n, f)'
  PROVE  Told(n, f)'
  <1>1. \/ pc[p] = "cut" /\ file'[target[p]] = {}
    BY DEF Cut, Kinds, TypeOK
  <1>2. p \in Nodes /\ p \notin Senders
    BY <1>1, Apart DEF Kinds, Roles, SenderPc
  <1>3. \A q \in Procs \ {p} : pc'[q] = pc[q] /\ at'[q] = at[q] /\ target'[q] = target[q]
    BY DEF Cut, Return, Go, Kinds, TypeOK
  <1>4. Due(n, f) /\ node' = node
    BY <1>1, <1>3, Apart DEF Cut, Due
  <1>5. Told(n, f)
    BY <1>4, ToldBefore
  <1>6. YetToFlag(n, f) => YetToFlag(n, f)'
    BY <1>2, <1>3, Apart DEF YetToFlag
  <1>7. YetToRead(f) => YetToRead(f)' \/ (target[p] = f /\ pc[p] # "empty")
    BY <1>1, <1>3 DEF YetToRead
  <1>8. missed \subseteq missed' /\ (file'[f] = file[f] \/ file'[f] = {})
    BY DueFile DEF Cut, history, Kinds, TypeOK
  <1> QED
    BY <1>1, <1>4, <1>5, <1>6, <1>7, <1>8 DEF Told

LEMMA ToldReadFile ==
  ASSUME Kinds, Kinds', NotForgotten, NEW p \in Procs, ReadFile(p), NEW n \in Nodes, NEW f, Due(n, f)'
  PROVE  Told(n, f)'
  <1>1. target' = target /\ at' = at /\ pc' = [pc EXCEPT ![p] = "cut"] /\ pc[p] = "read"
    BY DEF ReadFile, Go, job
  <1>2. p \in Nodes /\ p \notin Senders
    BY <1>1, Apart DEF Kinds, Roles, SenderPc
  <1>3. Due(n, f) /\ node' = node
    BY <1>1, Apart DEF ReadFile, Due, Kinds, TypeOK
  <1>4. Told(n, f)
    BY <1>3, ToldBefore
  <1>5. YetToFlag(n, f) => YetToFlag(n, f)'
    BY <1>1, <1>2, Apart DEF YetToFlag, Kinds, TypeOK
  <1>6. YetToRead(f) => YetToRead(f)'
    BY <1>1 DEF YetToRead, Kinds, TypeOK
  <1> QED
    BY <1>3, <1>4, <1>5, <1>6 DEF ReadFile, Told

LEMMA ToldPutOpen ==
  ASSUME Kinds, Kinds', NotForgotten, NEW s \in Senders, PutOpen(s), NEW n \in Nodes, NEW f, Due(n, f)'
  PROVE  Told(n, f)'
  <1>1. pc[s] = "idle" /\ pc' = [pc EXCEPT ![s] = "append"] /\ node' = node /\ s \notin Nodes
    BY Apart DEF PutOpen, Go
  <1>2. Due(n, f)
    BY <1>1, Apart DEF Due, Kinds, TypeOK
  <1>3. Told(n, f)
    BY <1>2, ToldBefore
  <1>4. YetToFlag(n, f) => YetToFlag(n, f)'
    BY <1>1, Apart DEF PutOpen, Begin, YetToFlag, Kinds, TypeOK
  <1>5. YetToRead(f) => YetToRead(f)'
    BY <1>1, Apart DEF PutOpen, Begin, YetToRead, Kinds, TypeOK
  <1> QED
    BY <1>1, <1>3, <1>4, <1>5 DEF PutOpen, Told, history

LEMMA ToldAppend ==
  ASSUME Kinds, Kinds', NotForgotten, NEW p \in Procs, Append(p), NEW n \in Nodes, NEW f, Due(n, f)'
  PROVE  Told(n, f)'
  <1>0. f \in Files /\ (f \in Nodes => f = n)
    BY DueFile
  <1>1. /\ pc[p] \in {"append", "orphan"} /\ p \in Senders /\ p \notin Nodes
        /\ target' = target /\ at' = at /\ node' = node /\ pc' = [pc EXCEPT ![p] = "look"]
    BY Apart DEF Append, Go, job, Kinds, Roles, SessionPc
  <1>2. CASE f = target[p]
    <2>1. at[p] = n \/ at[p] = 1
      BY <1>0, <1>1, <1>2, Apart DEF Kinds, Places
    <2>2. at[p] <= n
      BY <2>1, Numbers
    <2> QED
      BY <1>1, <1>2, <2>2 DEF Told, YetToFlag, Kinds, TypeOK
  <1>3. CASE f # target[p]
    <2>1. Due(n, f) /\ file'[f] = file[f] /\ missed' = missed
      BY <1>0, <1>1, <1>3, Apart DEF Append, Due, Kinds, TypeOK
    <2>2. Told(n, f)
      BY <2>1, ToldBefore
    <2>3. YetToFlag(n, f) => YetToFlag(n, f)'
      BY <1>1, Apart DEF YetToFlag, Kinds, TypeOK
    <2>4. YetToRead(f) => YetToRead(f)'
      BY <1>1, Apart DEF YetToRead, Kinds, TypeOK
    <2> QED
      BY <1>1, <2>1, <2>2, <2>3, <2>4 DEF Told
  <1> QED
    BY <1>2, <1>3

LEMMA ToldLook ==
  ASSUME Kinds, Kinds', NotForgotten, NEW p \in Procs, Look(p), NEW n \in Nodes, NEW f, Due(n, f)'
  PROVE  Told(n, f)'
  <1>0. f \in Files /\ (f \in Nodes => f = n) /\ (f \notin Nodes => f = node'[n].useron)
    BY DueFile
  <1>1. /\ pc[p] = "look" /\ p \in Senders /\ p \notin Nodes /\ at[p] \in Nodes /\ target[p] \in Files
        /\ (target[p] \in Nodes => at[p] = target[p])
        /\ pc \in [Procs -> Steps] /\ target \in [Procs -> Files] /\ at \in [Procs -> Nodes]
        /\ node \in [Nodes -> NodeRecs] /\ file' = file /\ missed' = missed
    BY Apart DEF Look, Kinds, TypeOK, Roles, Places, SessionPc, history
  <1>2. node' = node
    BY DEF Look
  <1>3. CASE Go(p, "flag") /\ UNCHANGED job
    <2>1. target' = target /\ at' = at /\ pc' = [pc EXCEPT ![p] = "flag"]
      BY <1>3 DEF Go, job
    <2>2. Due(n, f)
      BY <1>1, <1>2, <2>1, Apart DEF Due
    <2>3. Told(n, f)
      BY <2>2, ToldBefore
    <2>4. YetToFlag(n, f) => YetToFlag(n, f)'
      BY <1>1, <2>1, Apart DEF YetToFlag
    <2>5. YetToRead(f) => YetToRead(f)'
      BY <1>1, <2>1 DEF YetToRead
    <2> QED
      BY <1>1, <1>2, <2>3, <2>4, <2>5 DEF Told
  <1>4. CASE ~(Go(p, "flag") /\ UNCHANGED job)
    <2>1. NextLook(p)
      BY <1>4 DEF Look
    <2>2. ~(IF target[p] \in Nodes THEN node[at[p]].status = "inuse" /\ ~node[at[p]].nmsg
                                   ELSE HasUser(at[p], target[p]) /\ ~node[at[p]].msgw)
      BY <1>4 DEF Look
    <2>3. /\ \A q \in Procs \ {p} : pc'[q] = pc[q] /\ at'[q] = at[q] /\ target'[q] = target[q]
          /\ Last(p) => pc'[p] = "done"
          /\ ~Last(p) => pc'[p] = "look" /\ target'[p] = target[p] /\ at'[p] = at[p] + 1
      BY <1>1, <2>1, NextLookKinds
    <2>4. Due(n, f)
      BY <1>1, <1>2, <2>3, Apart DEF Due
    <2>5. Told(n, f)
      BY <2>4, ToldBefore
    <2>6. YetToRead(f) => YetToRead(f)'
      BY <1>1, <2>3 DEF YetToRead
    <2>7. CASE f = target[p] /\ at[p] = n
      <3>1. IF f = n THEN node[n].nmsg ELSE node[n].msgw
        BY <1>0, <1>1, <1>2, <2>2, <2>4, <2>7, Apart DEF Due, HasUser
      <3> QED
        BY <1>2, <3>1 DEF Told
    <2>8. CASE ~(f = target[p] /\ at[p] = n)
      <3>1. YetToFlag(n, f) => YetToFlag(n, f)'
        <4> SUFFICES ASSUME NEW s \in Senders, target[s] = f, pc[s] \in {"look", "flag"}, at[s] <= n
                     PROVE  YetToFlag(n, f)'
          BY DEF YetToFlag
        <4>1. CASE s # p
          BY <2>3, <4>1, Apart DEF YetToFlag
        <4>2. CASE s = p
          <5>1. at[p] # n
            BY <2>8, <4>2
          <5>2. ~Last(p) /\ at[p] + 1 <= n
            BY <1>0, <1>1, <4>2, <5>1, Numbers DEF Last
          <5> QED
            BY <2>3, <4>2, <5>2 DEF YetToFlag
        <4> QED
          BY <4>1, <4>2
      <3> QED
        BY <1>1, <1>2, <2>5, <2>6, <3>1 DEF Told
    <2> QED
      BY <2>7, <2>8
  <1> QED
    BY <1>3, <1>4

LEMMA ToldFlag ==
  ASSUME Kinds, Kinds', NotForgotten, NEW p \in Procs, Flag(p), NEW n \in Nodes, NEW f, Due(n, f)'
  PROVE  Told(n, f)'
  <1>0. f \in Files /\ (f \in Nodes => f = n) /\ (f \notin Nodes => f = node'[n].useron)
    BY DueFile
  <1>1. /\ pc[p] = "flag" /\ p \in Senders /\ p \notin Nodes /\ at[p] \in Nodes /\ target[p] \in Files
        /\ (target[p] \in Nodes => at[p] = target[p])
        /\ pc \in [Procs -> Steps] /\ target \in [Procs -> Files] /\ at \in [Procs -> Nodes]
        /\ node \in [Nodes -> NodeRecs] /\ file' = file /\ missed' = missed
    BY Apart DEF Flag, Kinds, TypeOK, Roles, Places, SessionPc, history
  <1>2. /\ \A q \in Procs \ {p} : pc'[q] = pc[q] /\ at'[q] = at[q] /\ target'[q] = target[q]
        /\ Last(p) => pc'[p] = "done"
        /\ ~Last(p) => pc'[p] = "look" /\ target'[p] = target[p] /\ at'[p] = at[p] + 1
    BY <1>1, NextLookKinds DEF Flag
  <1>3. /\ node'[n].status = node[n].status /\ node'[n].useron = node[n].useron
        /\ node[n].nmsg => node'[n].nmsg
        /\ node[n].msgw => node'[n].msgw
    BY <1>1 DEF Flag, NodeRecs
  <1>4. Due(n, f)
    BY <1>1, <1>2, <1>3, Apart DEF Due
  <1>5. Told(n, f)
    BY <1>4, ToldBefore
  <1>6. YetToRead(f) => YetToRead(f)'
    BY <1>1, <1>2 DEF YetToRead
  <1>7. CASE f = target[p] /\ at[p] = n
    <2>1. IF f = n THEN node'[n].nmsg ELSE node'[n].msgw
      BY <1>0, <1>1, <1>7, Apart DEF Flag, NodeRecs
    <2> QED
      BY <2>1 DEF Told
  <1>8. CASE ~(f = target[p] /\ at[p] = n)
    <2>1. YetToFlag(n, f) => YetToFlag(n, f)'
      <3> SUFFICES ASSUME NEW s \in Senders, target[s] = f, pc[s] \in {"look", "flag"}, at[s] <= n
                   PROVE  YetToFlag(n, f)'
        BY DEF YetToFlag
      <3>1. CASE s # p
        BY <1>2, <3>1, Apart DEF YetToFlag
      <3>2. CASE s = p
        <4>1. at[p] # n
          BY <1>8, <3>2
        <4>2. ~Last(p) /\ at[p] + 1 <= n
          BY <1>0, <1>1, <3>2, <4>1, Numbers DEF Last
        <4> QED
          BY <1>2, <3>2, <4>2 DEF YetToFlag
      <3> QED
        BY <3>1, <3>2
    <2> QED
      BY <1>1, <1>3, <1>5, <1>6, <2>1 DEF Told
  <1> QED
    BY <1>7, <1>8

LEMMA ToldFlagTimeout ==
  ASSUME Kinds, Kinds', NotForgotten, NEW s \in Senders, FlagTimeout(s), NEW n \in Nodes, NEW f, Due(n, f)'
  PROVE  Told(n, f)'
  <1>1. pc[s] = "flag" /\ node' = node /\ file' = file /\ s \notin Nodes /\ missed' = missed \cup {target[s]}
    BY Apart DEF FlagTimeout
  <1>2. \A q \in Procs \ {s} : pc'[q] = pc[q] /\ at'[q] = at[q] /\ target'[q] = target[q]
    BY DEF FlagTimeout, Return, Go, Kinds, TypeOK
  <1>3. Due(n, f)
    BY <1>1, <1>2, Apart DEF Due
  <1>4. Told(n, f)
    BY <1>3, ToldBefore
  <1>5. YetToFlag(n, f) => YetToFlag(n, f)' \/ f = target[s]
    BY <1>2, Apart DEF YetToFlag
  <1>6. YetToRead(f) => YetToRead(f)'
    BY <1>1, <1>2 DEF YetToRead
  <1> QED
    BY <1>1, <1>4, <1>5, <1>6 DEF Told

LEMMA ForgottenStep == Kinds /\ Kinds' /\ NotForgotten /\ [Next]_vars => NotForgotten'
  <1> SUFFICES ASSUME Kinds, Kinds', NotForgotten, [Next]_vars,
                      NEW n \in Nodes, NEW f, Due(n, f)'
               PROVE  Told(n, f)'
    BY DEF NotForgotten, Due, Told
  <1>1. CASE UNCHANGED vars
    <2>1. Told(n, f)
      BY <1>1, ToldBefore DEF Due, vars
    <2> QED
      BY <1>1, <2>1 DEF Told, YetToFlag, YetToRead, vars, job, history
  <1>2. CASE \E k \in Nodes : Connect(k) \/ Logoff(k) \/ Script(k)
    BY <1>2, ToldConnect, ToldLogoff, ToldScript
  <1>3. CASE \E s \in Senders : PutOpen(s) \/ FlagTimeout(s)
    BY <1>3, ToldPutOpen, ToldFlagTimeout
  <1>4. CASE \E p \in Procs : Work(p) \/ UnflagTimeout(p) \/ ReadTimeout(p)
    BY <1>4, ToldLogon, ToldRemoveMsgs, ToldSync, ToldEndCall, ToldClearLook, ToldUnflag,
       ToldReadEmpty, ToldReadFile, ToldCut, ToldAppend, ToldLook, ToldFlag,
       ToldUnflagTimeout, ToldReadTimeout DEF Work
  <1> QED
    BY <1>1, <1>2, <1>3, <1>4 DEF Next

\* Messages between nodes keep to their types.
THEOREM NodeTypes == Spec => []TypeOK
  <1>1. Init => Kinds
    BY InitKinds
  <1>2. Kinds /\ [Next]_vars => Kinds'
    BY KindsStep
  <1>3. Kinds => TypeOK
    BY DEF Kinds
  <1> QED
    BY <1>1, <1>2, <1>3, PTL DEF Spec

\* A message that waits for a session is known to it, however many nodes, users
\* and messages there are.
THEOREM NobodyForgotten == Spec => []NotForgotten
  <1>1. Init => Kinds /\ NotForgotten
    BY InitKinds DEF Init, NotForgotten
  <1>2. Kinds /\ NotForgotten /\ [Next]_vars => (Kinds /\ NotForgotten)'
    BY KindsStep, ForgottenStep
  <1> QED
    BY <1>1, <1>2, PTL DEF Spec

-----------------------------------------------------------------------------
(* Lost messages.                                                           *)

\* What is known of the messages: those in a file have been written, are in no
\* other, and have been shown only if the reader is about to empty the file;
\* nobody else has the file open then.
Fates ==
    /\ \A m \in Senders : m \in sent => pc[m] \notin {"idle", "append", "orphan"}
    /\ \A m \in Senders : m \notin sent => shown[m] = 0
    /\ \A f \in Files : file[f] \subseteq sent
    /\ \A f, g \in Files : f # g => file[f] \cap file[g] = {}
    /\ \A p, q \in Procs : pc[p] \in {"append", "cut"} /\ pc[q] \in {"append", "cut"} /\ target[p] = target[q]
                             => p = q
    /\ \A p \in Procs : pc[p] = "cut" => \A m \in file[target[p]] : shown[m] = 1
    /\ \A f \in Files : \A m \in file[f] :
         shown[m] = 0 \/ \E p \in Procs : pc[p] = "cut" /\ target[p] = f

LEMMA InitFates == Init => Fates /\ ShownOnce
  BY Apart DEF Init, Fates, ShownOnce

\* Most steps neither write nor show nor remove, and open no file.
LEMMA FatesFrame ==
  ASSUME Fates, ShownOnce, UNCHANGED <<file, shown, sent, gone>>,
         \A m \in Senders : pc'[m] \in {"idle", "append", "orphan"} => pc[m] \in {"idle", "append", "orphan"},
         \A p \in Procs : \/ pc'[p] = pc[p] /\ target'[p] = target[p]
                          \/ pc'[p] \notin {"append", "cut"} /\ pc[p] \notin {"append", "cut"}
  PROVE  Fates' /\ ShownOnce'
  <1>1. ShownOnce'
    BY DEF ShownOnce
  <1>2. Fates'
    BY DEF Fates
  <1> QED
    BY <1>1, <1>2

LEMMA FatesConnect ==
  ASSUME Kinds, Fates, ShownOnce, NEW k \in Nodes, Connect(k)
  PROVE  Fates' /\ ShownOnce'
  <1>1. pc' = [pc EXCEPT ![k] = pc'[k]] /\ pc'[k] \notin {"idle", "append", "orphan", "cut"}
    BY DEF Connect, Go, Kinds, TypeOK
  <1>2. pc[k] \notin {"append", "cut"} /\ \A q \in Procs \ {k} : target'[q] = target[q]
    BY DEF Connect, Kinds, TypeOK, job
  <1>3. \A q \in Procs \ {k} : pc'[q] = pc[q]
    BY <1>1 DEF Kinds, TypeOK
  <1>4. UNCHANGED <<file, shown, sent, gone>>
    BY DEF Connect, history
  <1> QED
    BY <1>1, <1>2, <1>3, <1>4, FatesFrame, Apart

LEMMA FatesLogon ==
  ASSUME Kinds, Fates, ShownOnce, NEW k \in Nodes, Logon(k)
  PROVE  Fates' /\ ShownOnce'
  <1>1. pc' = [pc EXCEPT ![k] = pc'[k]] /\ pc'[k] \notin {"idle", "append", "orphan", "cut"}
    <2>1. pc' = [pc EXCEPT ![k] = "remove"]
      BY DEF Logon, Go
    <2> QED
      BY <2>1, Apart DEF Kinds, TypeOK
  <1>2. pc[k] \notin {"append", "cut"} /\ \A q \in Procs \ {k} : target'[q] = target[q]
    BY DEF Logon, Kinds, TypeOK, job
  <1>3. \A q \in Procs \ {k} : pc'[q] = pc[q]
    BY <1>1 DEF Kinds, TypeOK
  <1>4. UNCHANGED <<file, shown, sent, gone>>
    BY DEF Logon, history
  <1> QED
    BY <1>1, <1>2, <1>3, <1>4, FatesFrame, Apart

LEMMA FatesLogoff ==
  ASSUME Kinds, Fates, ShownOnce, NEW k \in Nodes, Logoff(k)
  PROVE  Fates' /\ ShownOnce'
  <1>1. pc' = [pc EXCEPT ![k] = pc'[k]] /\ pc'[k] \notin {"idle", "append", "orphan", "cut"}
    BY DEF Logoff, Go, Kinds, TypeOK
  <1>2. pc[k] \notin {"append", "cut"} /\ \A q \in Procs \ {k} : target'[q] = target[q]
    BY DEF Logoff, Kinds, TypeOK, job
  <1>3. \A q \in Procs \ {k} : pc'[q] = pc[q]
    BY <1>1 DEF Kinds, TypeOK
  <1>4. UNCHANGED <<file, shown, sent, gone>>
    BY DEF Logoff, history
  <1> QED
    BY <1>1, <1>2, <1>3, <1>4, FatesFrame, Apart

LEMMA FatesEndCall ==
  ASSUME Kinds, Fates, ShownOnce, NEW k \in Nodes, EndCall(k)
  PROVE  Fates' /\ ShownOnce'
  <1>1. pc' = [pc EXCEPT ![k] = pc'[k]] /\ pc'[k] \notin {"idle", "append", "orphan", "cut"}
    BY DEF EndCall, Go, Kinds, TypeOK
  <1>2. pc[k] \notin {"append", "cut"} /\ \A q \in Procs \ {k} : target'[q] = target[q]
    BY DEF EndCall, Kinds, TypeOK, job
  <1>3. \A q \in Procs \ {k} : pc'[q] = pc[q]
    BY <1>1 DEF Kinds, TypeOK
  <1>4. UNCHANGED <<file, shown, sent, gone>>
    BY DEF EndCall, history
  <1> QED
    BY <1>1, <1>2, <1>3, <1>4, FatesFrame, Apart

LEMMA FatesSync ==
  ASSUME Kinds, Fates, ShownOnce, NEW k \in Nodes, Sync(k)
  PROVE  Fates' /\ ShownOnce'
  <1>1. pc' = [pc EXCEPT ![k] = pc'[k]] /\ pc'[k] \notin {"idle", "append", "orphan", "cut"}
    BY DEF Sync, Go, Begin, Kinds, TypeOK
  <1>2. pc[k] \notin {"append", "cut"} /\ \A q \in Procs \ {k} : target'[q] = target[q]
    BY DEF Sync, Begin, Kinds, TypeOK, job
  <1>3. \A q \in Procs \ {k} : pc'[q] = pc[q]
    BY <1>1 DEF Kinds, TypeOK
  <1>4. UNCHANGED <<file, shown, sent, gone>>
    BY DEF Sync, history
  <1> QED
    BY <1>1, <1>2, <1>3, <1>4, FatesFrame, Apart

LEMMA FatesScript ==
  ASSUME Kinds, Fates, ShownOnce, NEW k \in Nodes, Script(k)
  PROVE  Fates' /\ ShownOnce'
  <1>1. pc' = [pc EXCEPT ![k] = pc'[k]] /\ pc'[k] \notin {"idle", "append", "orphan", "cut"}
    BY DEF Script, Go, Begin, Kinds, TypeOK
  <1>2. pc[k] \notin {"append", "cut"} /\ \A q \in Procs \ {k} : target'[q] = target[q]
    BY DEF Script, Begin, Kinds, TypeOK, job
  <1>3. \A q \in Procs \ {k} : pc'[q] = pc[q]
    BY <1>1 DEF Kinds, TypeOK
  <1>4. UNCHANGED <<file, shown, sent, gone>>
    BY DEF Script, history
  <1> QED
    BY <1>1, <1>2, <1>3, <1>4, FatesFrame, Apart

LEMMA FatesReadEmpty ==
  ASSUME Kinds, Fates, ShownOnce, NEW p \in Procs, ReadEmpty(p)
  PROVE  Fates' /\ ShownOnce'
  <1>1. pc' = [pc EXCEPT ![p] = pc'[p]] /\ pc'[p] \notin {"idle", "append", "orphan", "cut"}
    BY DEF ReadEmpty, Go, Return, Kinds, TypeOK
  <1>2. pc[p] \notin {"append", "cut"} /\ \A q \in Procs \ {p} : target'[q] = target[q]
    BY DEF ReadEmpty, Return, Kinds, TypeOK, job
  <1>3. \A q \in Procs \ {p} : pc'[q] = pc[q]
    BY <1>1 DEF Kinds, TypeOK
  <1>4. UNCHANGED <<file, shown, sent, gone>>
    BY DEF ReadEmpty, history
  <1> QED
    BY <1>1, <1>2, <1>3, <1>4, FatesFrame, Apart

LEMMA FatesReadTimeout ==
  ASSUME Kinds, Fates, ShownOnce, NEW p \in Procs, ReadTimeout(p)
  PROVE  Fates' /\ ShownOnce'
  <1>1. pc' = [pc EXCEPT ![p] = pc'[p]] /\ pc'[p] \notin {"idle", "append", "orphan", "cut"}
    BY DEF ReadTimeout, Go, Return, Kinds, TypeOK
  <1>2. pc[p] \notin {"append", "cut"} /\ \A q \in Procs \ {p} : target'[q] = target[q]
    BY DEF ReadTimeout, Return, Kinds, TypeOK, job
  <1>3. \A q \in Procs \ {p} : pc'[q] = pc[q]
    BY <1>1 DEF Kinds, TypeOK
  <1>4. UNCHANGED <<file, shown, sent, gone>>
    BY DEF ReadTimeout, history
  <1> QED
    BY <1>1, <1>2, <1>3, <1>4, FatesFrame, Apart

LEMMA FatesFlagTimeout ==
  ASSUME Kinds, Fates, ShownOnce, NEW s \in Senders, FlagTimeout(s)
  PROVE  Fates' /\ ShownOnce'
  <1>1. pc' = [pc EXCEPT ![s] = pc'[s]] /\ pc'[s] \notin {"idle", "append", "orphan", "cut"}
    BY DEF FlagTimeout, Go, Return, Kinds, TypeOK
  <1>2. pc[s] \notin {"append", "cut"} /\ \A q \in Procs \ {s} : target'[q] = target[q]
    BY DEF FlagTimeout, Return, Kinds, TypeOK, job
  <1>3. \A q \in Procs \ {s} : pc'[q] = pc[q]
    BY <1>1 DEF Kinds, TypeOK
  <1>4. UNCHANGED <<file, shown, sent, gone>>
    BY DEF FlagTimeout, history
  <1> QED
    BY <1>1, <1>2, <1>3, <1>4, FatesFrame, Apart

LEMMA FatesClearLook ==
  ASSUME Kinds, Fates, ShownOnce, NEW p \in Procs, ClearLook(p)
  PROVE  Fates' /\ ShownOnce'
  <1>1. pc[p] = "clear"
    BY DEF ClearLook
  <1>2. /\ pc'[p] \notin {"idle", "append", "orphan", "cut"}
        /\ \A q \in Procs \ {p} : pc'[q] = pc[q] /\ target'[q] = target[q]
    <2>1. CASE Go(p, "unflag") /\ UNCHANGED job
      BY <2>1 DEF Go, job, Kinds, TypeOK
    <2>2. CASE NextClear(p)
      BY <1>1, <2>2, NextClearKinds, Apart
    <2> QED
      BY <2>1, <2>2 DEF ClearLook
  <1>3. UNCHANGED <<file, shown, sent, gone>>
    BY DEF ClearLook, history
  <1> QED
    BY <1>1, <1>2, <1>3, FatesFrame, Apart

LEMMA FatesUnflag ==
  ASSUME Kinds, Fates, ShownOnce, NEW p \in Procs, Unflag(p)
  PROVE  Fates' /\ ShownOnce'
  <1>1. pc[p] = "unflag"
    BY DEF Unflag
  <1>2. /\ pc'[p] \notin {"idle", "append", "orphan", "cut"}
        /\ \A q \in Procs \ {p} : pc'[q] = pc[q] /\ target'[q] = target[q]
    BY <1>1, NextClearKinds DEF Unflag
  <1>3. UNCHANGED <<file, shown, sent, gone>>
    BY DEF Unflag, history
  <1> QED
    BY <1>1, <1>2, <1>3, FatesFrame, Apart

LEMMA FatesUnflagTimeout ==
  ASSUME Kinds, Fates, ShownOnce, NEW p \in Procs, UnflagTimeout(p)
  PROVE  Fates' /\ ShownOnce'
  <1>1. pc[p] = "unflag"
    BY DEF UnflagTimeout
  <1>2. /\ pc'[p] \notin {"idle", "append", "orphan", "cut"}
        /\ \A q \in Procs \ {p} : pc'[q] = pc[q] /\ target'[q] = target[q]
    BY <1>1, NextClearKinds DEF UnflagTimeout
  <1>3. UNCHANGED <<file, shown, sent, gone>>
    BY DEF UnflagTimeout, history
  <1> QED
    BY <1>1, <1>2, <1>3, FatesFrame, Apart

LEMMA FatesLook ==
  ASSUME Kinds, Fates, ShownOnce, NEW p \in Procs, Look(p)
  PROVE  Fates' /\ ShownOnce'
  <1>1. pc[p] = "look"
    BY DEF Look
  <1>2. /\ pc'[p] \notin {"idle", "append", "orphan", "cut"}
        /\ \A q \in Procs \ {p} : pc'[q] = pc[q] /\ target'[q] = target[q]
    <2>1. CASE Go(p, "flag") /\ UNCHANGED job
      BY <2>1 DEF Go, job, Kinds, TypeOK
    <2>2. CASE NextLook(p)
      BY <1>1, <2>2, NextLookKinds, Apart
    <2> QED
      BY <2>1, <2>2 DEF Look
  <1>3. UNCHANGED <<file, shown, sent, gone>>
    BY DEF Look, history
  <1> QED
    BY <1>1, <1>2, <1>3, FatesFrame, Apart

LEMMA FatesFlag ==
  ASSUME Kinds, Fates, ShownOnce, NEW p \in Procs, Flag(p)
  PROVE  Fates' /\ ShownOnce'
  <1>1. pc[p] = "flag"
    BY DEF Flag
  <1>2. /\ pc'[p] \notin {"idle", "append", "orphan", "cut"}
        /\ \A q \in Procs \ {p} : pc'[q] = pc[q] /\ target'[q] = target[q]
    BY <1>1, NextLookKinds DEF Flag
  <1>3. UNCHANGED <<file, shown, sent, gone>>
    BY DEF Flag, history
  <1> QED
    BY <1>1, <1>2, <1>3, FatesFrame, Apart

LEMMA FatesPutOpen ==
  ASSUME Kinds, Fates, ShownOnce, NEW s \in Senders, PutOpen(s)
  PROVE  Fates' /\ ShownOnce'
  <1>1. PICK f \in Addressed : ~Held(f) /\ Begin(s, f, FALSE)
    BY DEF PutOpen
  <1>2. /\ pc[s] = "idle" /\ pc' = [pc EXCEPT ![s] = "append"] /\ target' = [target EXCEPT ![s] = f]
        /\ pc \in [Procs -> Steps] /\ target \in [Procs -> Files] /\ s \in Procs
    BY <1>1, Apart DEF PutOpen, Go, Begin, Kinds, TypeOK
  <1>3. UNCHANGED <<file, shown, sent, gone>>
    BY DEF PutOpen, history
  <1>4. \A p \in Procs : pc[p] \in {"append", "cut"} => target[p] # f
    BY <1>1 DEF Held
  <1>5. Fates'
    BY <1>2, <1>3, <1>4 DEF Fates
  <1>6. ShownOnce'
    BY <1>3 DEF ShownOnce
  <1> QED
    BY <1>5, <1>6

LEMMA FatesReadFile ==
  ASSUME Kinds, Fates, ShownOnce, NEW p \in Procs, ReadFile(p)
  PROVE  Fates' /\ ShownOnce'
  <1> DEFINE f == target[p]
  <1>1. /\ pc[p] = "read" /\ pc' = [pc EXCEPT ![p] = "cut"] /\ target' = target
        /\ file' = file /\ sent' = sent /\ gone' = gone /\ f \in Files
        /\ pc \in [Procs -> Steps] /\ file \in [Files -> SUBSET Senders]
        /\ sent \subseteq Senders /\ p \in Nodes /\ p \notin Senders
    BY Apart DEF ReadFile, Go, job, Kinds, TypeOK, Roles, SenderPc
  <1>2. \A q \in Procs : pc[q] \in {"append", "cut"} => target[q] # f
    BY DEF ReadFile, Held
  <1>3. \A m \in file[f] : shown[m] = 0
    BY <1>1, <1>2 DEF Fates
  <1>4. \A m \in Senders : shown'[m] = IF m \in file[f] THEN 1 ELSE shown[m]
    BY <1>3 DEF ReadFile, Kinds, TypeOK
  <1>5. /\ \A m \in Senders : m \in sent => pc'[m] \notin {"idle", "append", "orphan"}
        /\ \A m \in Senders : m \notin sent => shown'[m] = 0
    BY <1>1, <1>4 DEF Fates
  <1>6. /\ \A q, r \in Procs : pc'[q] \in {"append", "cut"} /\ pc'[r] \in {"append", "cut"} /\ target[q] = target[r]
                                => q = r
    BY <1>1, <1>2 DEF Fates
  <1>7. \A q \in Procs : pc'[q] = "cut" => \A m \in file[target[q]] : shown'[m] = 1
    <2> SUFFICES ASSUME NEW q \in Procs, pc'[q] = "cut", NEW m \in file[target[q]]
                 PROVE  shown'[m] = 1
      OBVIOUS
    <2>1. m \in Senders
      BY <1>1 DEF Kinds, TypeOK
    <2>2. CASE q = p
      BY <1>4, <2>1, <2>2
    <2>3. CASE q # p
      BY <1>1, <1>4, <2>1, <2>3 DEF Fates
    <2> QED
      BY <2>2, <2>3
  <1>8. \A g \in Files : \A m \in file[g] :
           shown'[m] = 0 \/ \E q \in Procs : pc'[q] = "cut" /\ target[q] = g
    <2> SUFFICES ASSUME NEW g \in Files, NEW m \in file[g]
                 PROVE  shown'[m] = 0 \/ \E q \in Procs : pc'[q] = "cut" /\ target[q] = g
      OBVIOUS
    <2>1. CASE g = f
      BY <1>1, <2>1
    <2>2. CASE g # f
      BY <1>1, <1>4, <2>2 DEF Fates
    <2> QED
      BY <2>1, <2>2
  <1>9. Fates'
    BY <1>1, <1>5, <1>6, <1>7, <1>8 DEF Fates
  <1>10. ShownOnce'
    BY <1>1, <1>4 DEF ShownOnce
  <1> QED
    BY <1>9, <1>10

LEMMA FatesCut ==
  ASSUME Kinds, Fates, ShownOnce, NEW p \in Procs, Cut(p)
  PROVE  Fates' /\ ShownOnce'
  <1> DEFINE f == target[p]
  <1>1. /\ pc[p] = "cut" /\ pc'[p] \in {"menu", "done"} /\ p \in Nodes
        /\ \A q \in Procs \ {p} : pc'[q] = pc[q] /\ target'[q] = target[q]
        /\ UNCHANGED <<shown, sent, gone>> /\ sent \subseteq Senders
        /\ file' = [file EXCEPT ![f] = {}] /\ f \in Files /\ file \in [Files -> SUBSET Senders]
    BY Apart DEF Cut, Return, Go, history, Kinds, TypeOK, Roles, SenderPc
  <1>2. \A m \in file[f] : shown[m] = 1
    BY <1>1 DEF Fates
  <1>3. \A g \in Files : file'[g] = IF g = f THEN {} ELSE file[g]
    BY <1>1
  <1>4. ShownOnce'
    <2> SUFFICES ASSUME NEW m \in sent
                 PROVE  shown[m] = 1 \/ (shown[m] = 0 /\ (m \in gone \/ \E g \in Files : m \in file'[g]))
      BY <1>1 DEF ShownOnce
    <2> QED
      BY <1>2, <1>3 DEF ShownOnce
  <1>5. Fates'
    BY <1>1, <1>3, Apart DEF Fates
  <1> QED
    BY <1>4, <1>5

LEMMA FatesRemoveMsgs ==
  ASSUME Kinds, Fates, ShownOnce, NEW k \in Nodes, RemoveMsgs(k)
  PROVE  Fates' /\ ShownOnce'
  <1>1. /\ pc[k] = "remove" /\ pc'[k] = "clear" /\ k \in Files /\ k \in Procs
        /\ UNCHANGED <<shown, sent>> /\ sent \subseteq Senders /\ gone' = gone \cup file[k]
        /\ \A g \in Files : file'[g] = IF g = k THEN {} ELSE file[g]
        /\ file \in [Files -> SUBSET Senders]
    BY Apart DEF RemoveMsgs, Kinds, TypeOK
  <1>2. \A q \in Procs \ {k} : target'[q] = target[q]
    BY DEF RemoveMsgs, Begin, Kinds, TypeOK
  <1>3. \A q \in Procs : pc'[q] \in {"append", "cut"} => q # k /\ pc'[q] = pc[q] /\ target[q] # k
    BY DEF RemoveMsgs
  <1>4. \A q \in Procs \ {k} : pc'[q] = pc[q] \/ target[q] = k
    BY DEF RemoveMsgs
  <1>5. \A m \in Senders : pc'[m] \in {"idle", "append", "orphan"} => pc[m] \in {"idle", "append", "orphan"}
    BY Apart DEF RemoveMsgs
  <1>6. ShownOnce'
    <2> SUFFICES ASSUME NEW m \in sent
                 PROVE  shown[m] = 1 \/ (shown[m] = 0 /\ (m \in gone' \/ \E g \in Files : m \in file'[g]))
      BY <1>1 DEF ShownOnce
    <2> QED
      BY <1>1 DEF ShownOnce
  <1>7. \A g \in Files : \A m \in file'[g] :
           shown[m] = 0 \/ \E q \in Procs : pc'[q] = "cut" /\ target'[q] = g
    BY <1>1, <1>2, <1>4 DEF Fates
  <1>8. Fates'
    <2>1. /\ \A m \in Senders : m \in sent' => pc'[m] \notin {"idle", "append", "orphan"}
          /\ \A m \in Senders : m \notin sent' => shown'[m] = 0
      BY <1>1, <1>5 DEF Fates
    <2>2. /\ \A g \in Files : file'[g] \subseteq sent'
          /\ \A f, g \in Files : f # g => file'[f] \cap file'[g] = {}
      BY <1>1 DEF Fates
    <2>3. \A p, q \in Procs : pc'[p] \in {"append", "cut"} /\ pc'[q] \in {"append", "cut"} /\ target'[p] = target'[q]
                             => p = q
      BY <1>2, <1>3 DEF Fates
    <2>4. \A p \in Procs : pc'[p] = "cut" => \A m \in file'[target'[p]] : shown'[m] = 1
      <3> SUFFICES ASSUME NEW p \in Procs, pc'[p] = "cut" PROVE \A m \in file'[target'[p]] : shown'[m] = 1
        OBVIOUS
      <3>1. p # k /\ pc[p] = "cut" /\ target'[p] = target[p] /\ target[p] # k /\ target[p] \in Files
        BY <1>2, <1>3 DEF Kinds, TypeOK
      <3> QED
        BY <1>1, <3>1 DEF Fates
    <2> QED
      BY <1>1, <1>7, <2>1, <2>2, <2>3, <2>4 DEF Fates
  <1> QED
    BY <1>6, <1>8

LEMMA FatesAppend ==
  ASSUME Kinds, Fates, ShownOnce, NEW p \in Procs, Append(p)
  PROVE  Fates' /\ ShownOnce'
  <1>1. /\ pc[p] \in {"append", "orphan"} /\ p \in Senders /\ pc' = [pc EXCEPT ![p] = "look"]
        /\ target' = target /\ shown' = shown /\ sent' = sent \cup {p} /\ target[p] \in Files
        /\ pc \in [Procs -> Steps] /\ file \in [Files -> SUBSET Senders] /\ sent \subseteq Senders
    BY Apart DEF Append, Go, job, Kinds, TypeOK, Roles, SessionPc
  <1>2. p \notin sent /\ shown[p] = 0 /\ \A g \in Files : p \notin file[g]
    BY <1>1 DEF Fates
  <1>3. CASE pc[p] = "append"
    <2>1. /\ \A g \in Files : file'[g] = IF g = target[p] THEN file[g] \cup {p} ELSE file[g]
          /\ gone' = gone
      BY <1>1, <1>3 DEF Append
    <2>2. \A q \in Procs : pc'[q] = "cut" => target[q] # target[p]
      BY <1>1, <1>3, Apart DEF Fates
    <2>3. /\ \A m \in Senders : m \in sent' => pc'[m] \notin {"idle", "append", "orphan"}
          /\ \A m \in Senders : m \notin sent' => shown[m] = 0
          /\ \A f \in Files : file'[f] \subseteq sent'
      <3>1. /\ \A m \in Senders : m \in sent => pc[m] \notin {"idle", "append", "orphan"}
            /\ \A m \in Senders : m \notin sent => shown[m] = 0
            /\ \A f \in Files : file[f] \subseteq sent
        BY DEF Fates
      <3>2. \A m \in Senders : m \in sent' => pc'[m] \notin {"idle", "append", "orphan"}
        BY <1>1, <3>1, Apart
      <3>3. \A f \in Files : file'[f] \subseteq sent'
        BY <1>1, <2>1, <3>1
      <3> QED
        BY <1>1, <3>1, <3>2, <3>3
    <2>4. \A f, g \in Files : f # g => file'[f] \cap file'[g] = {}
      <3>1. \A f, g \in Files : f # g => file[f] \cap file[g] = {}
        BY DEF Fates
      <3> SUFFICES ASSUME NEW f \in Files, NEW g \in Files, f # g, NEW m \in file'[f], m \in file'[g]
                   PROVE  FALSE
        OBVIOUS
      <3>2. CASE m = p
        BY <1>2, <2>1, <3>2
      <3>3. CASE m # p
        BY <2>1, <3>1, <3>3
      <3> QED
        BY <3>2, <3>3
    <2>5. \A q, r \in Procs : pc'[q] \in {"append", "cut"} /\ pc'[r] \in {"append", "cut"} /\ target[q] = target[r]
                               => q = r
      BY <1>1 DEF Fates
    <2>6. \A q \in Procs : pc'[q] = "cut" => \A m \in file'[target[q]] : shown[m] = 1
      BY <1>1, <2>1, <2>2 DEF Fates, Kinds, TypeOK
    <2>7. \A f \in Files : \A m \in file'[f] :
            shown[m] = 0 \/ \E q \in Procs : pc'[q] = "cut" /\ target[q] = f
      <3> SUFFICES ASSUME NEW f \in Files, NEW m \in file'[f], m # p
                   PROVE  shown[m] = 0 \/ \E q \in Procs : pc'[q] = "cut" /\ target[q] = f
        BY <1>2
      <3>1. m \in file[f]
        BY <2>1
      <3>2. shown[m] = 0 \/ \E q \in Procs : pc[q] = "cut" /\ target[q] = f
        BY <3>1 DEF Fates
      <3> QED
        BY <1>1, <1>3, <3>2
    <2>8. Fates'
      BY <1>1, <2>3, <2>4, <2>5, <2>6, <2>7 DEF Fates
    <2>9. ShownOnce'
      BY <1>1, <1>2, <2>1 DEF ShownOnce
    <2> QED
      BY <2>8, <2>9
  <1>4. CASE pc[p] = "orphan"
    <2>1. file' = file /\ gone' = gone \cup {p}
      BY <1>4 DEF Append
    <2>2. Fates'
      BY <1>1, <1>4, <2>1 DEF Fates
    <2>3. ShownOnce'
      BY <1>1, <1>2, <2>1 DEF ShownOnce
    <2> QED
      BY <2>2, <2>3
  <1> QED
    BY <1>1, <1>3, <1>4

\* No message is emptied out of its file before somebody was shown it, and none
\* is shown twice.
THEOREM NothingLost == Spec => []ShownOnce
  <1>1. Init => Kinds /\ Fates /\ ShownOnce
    BY InitKinds, InitFates
  <1>2. Kinds /\ Fates /\ ShownOnce /\ [Next]_vars => Fates' /\ ShownOnce'
    <2> SUFFICES ASSUME Kinds, Fates, ShownOnce, [Next]_vars PROVE Fates' /\ ShownOnce'
      OBVIOUS
    <2>1. CASE UNCHANGED vars
      BY <2>1, FatesFrame DEF vars, job, history
    <2>2. CASE \E k \in Nodes : Connect(k) \/ Logoff(k) \/ Script(k)
      BY <2>2, FatesConnect, FatesLogoff, FatesScript
    <2>3. CASE \E s \in Senders : PutOpen(s) \/ FlagTimeout(s)
      BY <2>3, FatesPutOpen, FatesFlagTimeout
    <2>4. CASE \E p \in Procs : Work(p) \/ UnflagTimeout(p) \/ ReadTimeout(p)
      BY <2>4, FatesLogon, FatesRemoveMsgs, FatesSync, FatesEndCall, FatesClearLook, FatesUnflag,
         FatesReadEmpty, FatesReadFile, FatesCut, FatesAppend, FatesLook, FatesFlag,
         FatesUnflagTimeout, FatesReadTimeout DEF Work
    <2> QED
      BY <2>1, <2>2, <2>3, <2>4 DEF Next
  <1>3. Kinds /\ [Next]_vars => Kinds'
    BY KindsStep
  <1> QED
    BY <1>1, <1>2, <1>3, PTL DEF Spec

=============================================================================
