--------------------------- MODULE ManagerProofs ----------------------------
(***************************************************************************)
(* The table of AEM-Manager for every set of types, slots and process ids. *)
(***************************************************************************)
EXTENDS Manager, TLAPS, SequenceTheorems, WellFoundedInduction, NaturalsInduction

(* The search for a free slot finds one if there is one.                   *)
LEMMA FirstIsOne ==
  ASSUME NEW S \in SUBSET Nat, S # {}
  PROVE  First(S) \in S
<1>1. PICK i \in S : \A k \in S : ~(<<k, i>> \in OpToRel(<, Nat))
  BY NatLessThanWellFounded, WFMin, Zenon
<1>2. \A k \in S : i <= k
  <2> TAKE k \in S
  <2>1. ~(k < i)
    BY <1>1 DEF OpToRel
  <2> QED
    BY <2>1
<1> QED
  BY <1>2 DEF First

LEMMA FreeSlot ==
  ASSUME NEW t, Free(t) # {}
  PROVE  First(Free(t)) \in Slots /\ aemPid[t][First(Free(t))] = 0
<1>1. Free(t) \in SUBSET Nat
  BY ManagerAssumption DEF Free
<1>2. First(Free(t)) \in Free(t)
  BY <1>1, FirstIsOne
<1> QED
  BY <1>2 DEF Free

-----------------------------------------------------------------------------
LEMMA NoneAndOther ==
  /\ None \in Process /\ Other \in Process
  /\ "none" \notin Type /\ "other" \notin Type
  BY ManagerAssumption DEF None, Other, Process, Type, Server

LEMMA ChildType ==
  ASSUME NEW t \in Type, NEW key \in BOOLEAN
  PROVE  /\ Child(t, key) \in Process /\ Child(t, key).type = t
         /\ ~Child(t, key).ready
<1>1. (key \/ t = "api") \in BOOLEAN
  OBVIOUS
<1> QED
  BY <1>1 DEF Child, Process

(* setupManager: what runs at first are the servers, each under its type.  *)
LEMMA ServersFirst ==
  ASSUME Init, NEW p \in Pid
  PROVE  process[p] \in Process /\ process[p].type \notin Worker
<1>2. CASE \E t \in Server : pid[t] = p
  <2> DEFINE t == CHOOSE t \in Server : pid[t] = p
  <2>1. t \in Server
    BY <1>2
  <2> HIDE DEF t
  <2>2. process[p] = Child(t, t \in {"account", "storage"})
    BY <1>2 DEF Init, t
  <2>3. (t \in {"account", "storage"}) \in BOOLEAN /\ t \in Type
    BY <2>1 DEF Type
  <2>4. process[p] \in Process /\ process[p].type = t
    BY <2>2, <2>3, ChildType
  <2> QED
    BY <2>1, <2>4, ManagerAssumption DEF Server
<1>3. CASE ~\E t \in Server : pid[t] = p
  <2>1. process[p] = None
    BY <1>3 DEF Init
  <2> QED
    BY <2>1, NoneAndOther DEF None, Type
<1> QED
  BY <1>2, <1>3

(* refreshPids keeps ids or clears them. *)
LEMMA RefreshType ==
  ASSUME TypeOK, refreshPids
  PROVE  aemPid' \in [Worker -> [Slots -> PidOrNone]] /\ pid' \in [Server -> PidOrNone]
<1>1. ASSUME NEW p \in PidOrNone PROVE Kept(p) \in PidOrNone
  BY <1>1 DEF Kept, PidOrNone
<1>2. \A t \in Worker, i \in Slots : aemPid[t][i] \in PidOrNone
  BY DEF TypeOK
<1>3. \A t \in Server : pid[t] \in PidOrNone
  BY DEF TypeOK
<1> QED
  BY <1>1, <1>2, <1>3 DEF refreshPids

(* The ids in the tables are those of processes that were started.         *)
THEOREM ManagerType == Spec => []TypeOK
<1>1. Init => TypeOK
  <2> SUFFICES ASSUME Init PROVE TypeOK
    OBVIOUS
  <2>1. process \in [Pid -> Process]
    <3>1. process = [p \in Pid |-> process[p]]
      BY DEF Init
    <3> QED
      BY <3>1, ServersFirst
  <2> QED
    BY <2>1 DEF Init, TypeOK, PidOrNone
<1>2. TypeOK /\ [Next]_vars => TypeOK'
  <2> SUFFICES ASSUME TypeOK, [Next]_vars PROVE TypeOK'
    OBVIOUS
  <2>1. CASE Info
    BY <2>1, RefreshType DEF Info, TypeOK
  <2>2. ASSUME NEW p \in Pid, Start(p) \/ End(p) \/ OtherStarts(p) PROVE TypeOK'
    <3>1. CASE Start(p)
      <4>1. [process[p] EXCEPT !.ready = TRUE] \in Process
        BY DEF TypeOK, Process
      <4> QED
        BY <3>1, <4>1 DEF Start, TypeOK
    <3>2. CASE End(p)
      BY <3>2, NoneAndOther DEF End, TypeOK
    <3>3. CASE OtherStarts(p)
      BY <3>3, NoneAndOther DEF OtherStarts, TypeOK
    <3> QED
      BY <2>2, <3>1, <3>2, <3>3
  <2>3. ASSUME NEW p \in Pid, NEW t \in Worker, SpawnWorker(t, p) PROVE TypeOK'
    <3>1. First(Free(t)) \in Slots
      BY <2>3, FreeSlot DEF SpawnWorker
    <3>2. Child(t, FALSE) \in Process
      BY ChildType DEF Type
    <3> QED
      BY <2>3, <3>1, <3>2 DEF SpawnWorker, TypeOK, PidOrNone
  <2>4. ASSUME NEW p \in Pid, NEW t \in Worker, Kill(t, p) PROVE TypeOK'
    BY <2>4, NoneAndOther, RefreshType DEF Kill, TypeOK
  <2>5. ASSUME NEW p \in Pid, NEW t \in Worker, KillIgnored(t, p) PROVE TypeOK'
    BY <2>5, RefreshType DEF KillIgnored, TypeOK
  <2>6. ASSUME NEW p \in Pid, NEW t \in Server, SpawnServer(t, p) PROVE TypeOK'
    <3>1. Child(t, FALSE) \in Process
      BY ChildType DEF Type
    <3> QED
      BY <2>6, <3>1 DEF SpawnServer, TypeOK, PidOrNone
  <2>7. CASE UNCHANGED vars
    BY <2>7 DEF vars, TypeOK
  <2> QED
    BY <2>1, <2>2, <2>3, <2>4, <2>5, <2>6, <2>7 DEF Next
<1> QED
  BY <1>1, <1>2, PTL DEF Spec

-----------------------------------------------------------------------------
(* process_spawn takes a free slot and refreshPids clears those of ended   *)
(* processes only, so a worker that runs is in the table.                  *)
THEOREM ManagerWorkersRecorded == Spec => []WorkersRecorded
<1>1. Init => WorkersRecorded
  BY ServersFirst DEF WorkersRecorded
<1>2. TypeOK /\ WorkersRecorded /\ [Next]_vars => WorkersRecorded'
  <2> SUFFICES ASSUME TypeOK, WorkersRecorded, [Next]_vars,
                      NEW q \in Pid, process'[q].type \in Worker
               PROVE  \E i \in Slots : aemPid'[process'[q].type][i] = q
    BY DEF WorkersRecorded, Found
  <2> DEFINE t0 == process'[q].type
  <2>0. /\ None.type \notin Worker /\ Other.type \notin Worker
        /\ process \in [Pid -> Process] /\ 0 \notin Pid
        /\ aemPid \in [Worker -> [Slots -> PidOrNone]]
    BY NoneAndOther, ManagerAssumption DEF None, Other, Type, TypeOK
  <2>1. ASSUME process'[q].type = process[q].type, UNCHANGED aemPid
        PROVE  \E i \in Slots : aemPid'[t0][i] = q
    BY <2>1 DEF WorkersRecorded, Found
  <2>2. ASSUME process'[q].type = process[q].type, refreshPids
        PROVE  \E i \in Slots : aemPid'[t0][i] = q
    <3>1. PICK i \in Slots : aemPid[t0][i] = q
      BY <2>2 DEF WorkersRecorded, Found
    <3>2. Exists(q)
      BY <2>2, <2>0 DEF Exists
    <3>3. aemPid'[t0][i] = Kept(aemPid[t0][i])
      BY <2>2 DEF refreshPids
    <3> QED
      BY <3>1, <3>2, <3>3 DEF Kept
  <2>3. CASE Info
    BY <2>3, <2>2 DEF Info
  <2>4. ASSUME NEW p \in Pid, Start(p) \/ End(p) \/ OtherStarts(p)
        PROVE  \E i \in Slots : aemPid'[t0][i] = q
    <3>1. process'[q].type = process[q].type /\ UNCHANGED aemPid
      <4>1. CASE Start(p)
        <5>1. process[p] \in Process
          BY <2>0
        <5>2. [process[p] EXCEPT !.ready = TRUE].type = process[p].type
          BY <5>1 DEF Process
        <5> QED
          BY <4>1, <5>2, <2>0 DEF Start
      <4>2. CASE End(p) \/ OtherStarts(p)
        BY <4>2, <2>0 DEF End, OtherStarts
      <4> QED
        BY <2>4, <4>1, <4>2
    <3> QED
      BY <3>1, <2>1
  <2>5. ASSUME NEW p \in Pid, NEW t \in Worker, SpawnWorker(t, p)
        PROVE  \E i \in Slots : aemPid'[t0][i] = q
    <3> DEFINE k == First(Free(t))
    <3>1. k \in Slots /\ aemPid[t][k] = 0
      BY <2>5, FreeSlot DEF SpawnWorker
    <3>2. aemPid' = [aemPid EXCEPT ![t][k] = p]
      BY <2>5 DEF SpawnWorker
    <3>3. process' = [process EXCEPT ![p] = Child(t, FALSE)]
      BY <2>5 DEF SpawnWorker
    <3>4. Child(t, FALSE).type = t
      BY ChildType DEF Type
    <3> HIDE DEF k
    <3>5. CASE q = p
      <4>1. t0 = t
        BY <3>3, <3>4, <3>5, <2>0
      <4> QED
        BY <3>1, <3>2, <3>5, <4>1, <2>0
    <3>6. CASE q # p
      <4>1. process'[q].type = process[q].type
        BY <3>3, <3>6, <2>0
      <4>2. PICK i \in Slots : aemPid[t0][i] = q
        BY <4>1 DEF WorkersRecorded, Found
      <4>3. ~(t0 = t /\ i = k)
        BY <3>1, <4>2, <2>0
      <4> QED
        BY <3>1, <3>2, <4>2, <4>3, <2>0
    <3> QED
      BY <3>5, <3>6
  <2>6. ASSUME NEW p \in Pid, NEW t \in Worker, Kill(t, p) \/ KillIgnored(t, p)
        PROVE  \E i \in Slots : aemPid'[t0][i] = q
    <3>1. process'[q].type = process[q].type /\ refreshPids
      BY <2>6, <2>0 DEF Kill, KillIgnored
    <3> QED
      BY <3>1, <2>2
  <2>7. ASSUME NEW p \in Pid, NEW t \in Server, SpawnServer(t, p)
        PROVE  \E i \in Slots : aemPid'[t0][i] = q
    <3>1. Child(t, FALSE).type = t /\ t \notin Worker
      BY ChildType, ManagerAssumption DEF Type, Server
    <3>2. process'[q].type = process[q].type /\ UNCHANGED aemPid
      BY <2>7, <3>1, <2>0 DEF SpawnServer
    <3> QED
      BY <3>2, <2>1
  <2>8. CASE UNCHANGED vars
    <3>1. UNCHANGED <<aemPid, process>>
      BY <2>8 DEF vars
    <3> QED
      BY <3>1, <2>1
  <2> QED
    BY <2>3, <2>4, <2>5, <2>6, <2>7, <2>8 DEF Next
<1> QED
  BY <1>1, <1>2, ManagerType, PTL DEF Spec

-----------------------------------------------------------------------------
(* Every AEM-API is given a key, no AEM-Web is. *)
KeyRight(t, key) == (t = "api" => key) /\ (t = "web" => ~key)

(* Packets of other kinds that come too early, because one is missing, are  *)
(* long enough for the first reads; but not for all of them.               *)
LEMMA LengthsTell ==
  ASSUME NEW t \in Type, NEW key \in BOOLEAN, Complete(t, key), KeyRight(t, key)
  PROVE  TakenRight(t, key)
<1> USE DEF Complete, TakenRight, KeyRight, Written, Read, IdsSent, FilesSent, Ids, Key, Bundle, File
<1>1. CASE t = "account"
  BY <1>1
<1>2. CASE t = "deliver"
  BY <1>2
<1>3. CASE t = "enquiry"
  BY <1>3
<1>4. CASE t = "storage"
  BY <1>4
<1>5. CASE t = "api"
  BY <1>5
<1>6. CASE t = "mta"
  BY <1>6
<1>7. CASE t = "web"
  BY <1>7
<1> QED
  BY <1>1, <1>2, <1>3, <1>4, <1>5, <1>6, <1>7, ManagerAssumption DEF Type, Server

LEMMA CallsHaveKeys ==
  ASSUME NEW c \in Type, NEW s \in Calls(c)
  PROVE  SameKey(c, s) /\ s \in Type
<1> USE DEF Calls, SameKey, ClientKeys, ServerKeys, ClientNumber, Type, Server
<1>1. CASE c = "account"
  BY <1>1
<1>2. CASE c = "deliver"
  BY <1>2
<1>3. CASE c = "storage"
  BY <1>3
<1>4. CASE c = "api"
  BY <1>4
<1>5. CASE c = "mta"
  BY <1>5
<1>6. CASE c \notin {"account", "deliver", "storage", "api", "mta"}
  BY <1>6
<1> QED
  BY <1>1, <1>2, <1>3, <1>4, <1>5, <1>6

(* What a process is given when it is spawned, and what it is when ready.   *)
Spawned(r) == KeyRight(r.type, r.key) /\ (r.ready /\ r.type \in Type => Complete(r.type, r.key))

LEMMA NoneSpawned == Spawned(None) /\ Spawned(Other)
  BY NoneAndOther DEF Spawned, KeyRight, None, Other

LEMMA ChildSpawned ==
  ASSUME NEW t \in Type, NEW key \in BOOLEAN, t = "web" => ~key
  PROVE  Spawned(Child(t, key))
  BY DEF Spawned, KeyRight, Child

(* A process that is ready took what it was sent for what it is, whatever  *)
(* was missing when others were spawned, so it has the keys that           *)
(* sendIntComKeys made for it, and both ends of each call have the same.   *)
THEOREM ManagerLinksWork == Spec => []LinksWork
<1> DEFINE Good == \A p \in Pid : Spawned(process[p])
<1>1. Init => Good
  <2> SUFFICES ASSUME Init, NEW p \in Pid PROVE Spawned(process[p])
    OBVIOUS
  <2>1. CASE \E t \in Server : pid[t] = p
    <3> DEFINE t == CHOOSE t \in Server : pid[t] = p
    <3>1. process[p] = Child(t, t \in {"account", "storage"}) /\ t \in Server
      BY <2>1 DEF Init
    <3> HIDE DEF t
    <3>2. t \in Type /\ t # "web" /\ (t \in {"account", "storage"}) \in BOOLEAN
      BY <3>1 DEF Type, Server
    <3> QED
      BY <3>1, <3>2, ChildSpawned
  <2>2. CASE ~\E t \in Server : pid[t] = p
    BY <2>2, NoneSpawned DEF Init
  <2> QED
    BY <2>1, <2>2
<1>2. TypeOK /\ Good /\ [Next]_vars => Good'
  <2> SUFFICES ASSUME TypeOK, Good, [Next]_vars, NEW q \in Pid PROVE Spawned(process'[q])
    BY DEF Spawned
  <2>0. process \in [Pid -> Process]
    BY DEF TypeOK
  <2>1. ASSUME process'[q] \in {process[q], None, Other} PROVE Spawned(process'[q])
    BY <2>1, NoneSpawned
  <2>2. CASE Info \/ UNCHANGED vars
    BY <2>2, <2>1 DEF Info, vars
  <2>3. ASSUME NEW p \in Pid, Start(p) PROVE Spawned(process'[q])
    <3> DEFINE new == [process[p] EXCEPT !.ready = TRUE]
    <3>1. new.type = process[p].type /\ new.key = process[p].key
      BY <2>0 DEF Process
    <3>2. Complete(process[p].type, process[p].key)
      BY <2>3 DEF Start
    <3>3. Spawned(process[p])
      OBVIOUS
    <3>4. Spawned(new)
      <4> HIDE DEF new
      <4> QED
        BY <3>1, <3>2, <3>3 DEF Spawned
    <3>5. process' = [process EXCEPT ![p] = new]
      BY <2>3, <2>0 DEF Start
    <3> HIDE DEF new
    <3> QED
      BY <3>4, <3>5, <2>0
  <2>4. ASSUME NEW p \in Pid, End(p) \/ OtherStarts(p) PROVE Spawned(process'[q])
    <3>1. process'[q] \in {process[q], None, Other}
      BY <2>4, <2>0 DEF End, OtherStarts
    <3> QED
      BY <3>1, <2>1
  <2>5. ASSUME NEW p \in Pid, NEW t \in Worker \cup Server, SpawnWorker(t, p) \/ SpawnServer(t, p)
        PROVE  Spawned(process'[q])
    <3>1. process' = [process EXCEPT ![p] = Child(t, FALSE)]
      BY <2>5 DEF SpawnWorker, SpawnServer
    <3>2. Spawned(Child(t, FALSE))
      BY ChildSpawned DEF Type
    <3> QED
      BY <3>1, <3>2, <2>0
  <2>6. ASSUME NEW p \in Pid, NEW t \in Worker, Kill(t, p) \/ KillIgnored(t, p)
        PROVE  Spawned(process'[q])
    <3>1. process'[q] \in {process[q], None, Other}
      BY <2>6, <2>0 DEF Kill, KillIgnored
    <3> QED
      BY <3>1, <2>1
  <2> QED
    BY <2>2, <2>3, <2>4, <2>5, <2>6 DEF Next
<1>3. TypeOK /\ Good => LinksWork
  <2> SUFFICES ASSUME TypeOK, Good, NEW p \in Pid, NEW q \in Pid,
                      process[p].ready, process[p].type \in Type,
                      process[q].ready, process[q].type \in Calls(process[p].type)
               PROVE  Reaches(p, q)
    BY DEF LinksWork
  <2>1. SameKey(process[p].type, process[q].type) /\ process[q].type \in Type
    BY CallsHaveKeys
  <2>2. ASSUME NEW r \in {p, q} PROVE TakenRight(process[r].type, process[r].key)
    <3>1. r \in Pid /\ process[r].type \in Type /\ process[r].ready
      BY <2>2, <2>1
    <3>2. process[r].key \in BOOLEAN
      BY <3>1 DEF TypeOK, Process
    <3>3. Complete(process[r].type, process[r].key) /\ KeyRight(process[r].type, process[r].key)
      BY <3>1 DEF Spawned
    <3> QED
      BY <3>1, <3>2, <3>3, LengthsTell
  <2> QED
    BY <2>1, <2>2 DEF Reaches
<1> QED
  <2>1. TypeOK /\ Good => LinksWork
    BY <1>3
  <2> QED
    BY <1>1, <1>2, <2>1, ManagerType, PTL DEF Spec
=============================================================================
