------------------------------ MODULE Manager -------------------------------
(***************************************************************************)
(* AEM-Manager (src/manager/manager.c) starts the other processes, keeps   *)
(* their process ids, and starts and stops processes when ManagerClient    *)
(* asks it to.  It serves one command at a time; in between processes may  *)
(* end, and their ids may be given to others.                              *)
(***************************************************************************)
EXTENDS Naturals, Sequences

CONSTANTS
  Worker,   \* types of which there may be several: web, API, MTA
  Stopped,  \* those with a type of 2 or less
  Pid,      \* process ids
  Slots     \* 1 .. AEM_MAXPROCESSES

Server == {"account", "deliver", "enquiry", "storage"}
Type   == Worker \cup Server

ASSUME ManagerAssumption ==
  /\ Worker \subseteq {"web", "api", "mta"} /\ Stopped \subseteq Worker
  /\ 0 \notin Pid
  /\ Slots \subseteq Nat

VARIABLES
  aemPid,   \* aemPid[t][i]: the id of a worker, 0 for none
  pid,      \* pid[t]: the id of a server, 0 for none
  process,  \* process[p]: its type, none or other; whether it is ready; and
            \* whether a key was put on its pipe
  stopping  \* the workers that ManagerClient asked to stop

vars == <<aemPid, pid, process, stopping>>

PidOrNone == Pid \cup {0}
Process   == [type : Type \cup {"none", "other"}, ready : BOOLEAN, key : BOOLEAN]

None  == [type |-> "none", ready |-> FALSE, key |-> FALSE]
Other == [type |-> "other", ready |-> TRUE, key |-> FALSE]

TypeOK ==
  /\ aemPid \in [Worker -> [Slots -> PidOrNone]]
  /\ pid \in [Server -> PidOrNone]
  /\ process \in [Pid -> Process]
  /\ stopping \subseteq Pid

-----------------------------------------------------------------------------
(* The pipe from AEM-Manager to a process, which is one of packets: a read  *)
(* takes one packet, and what it has no room for is lost.  Nothing in a     *)
(* packet says what it is.                                                 *)

Ids(n)  == [what |-> "ids", len |-> 4 * n]
Key     == [what |-> "key", len |-> 40]
Bundle  == [what |-> "bundle", len |-> 256]
File(f) == [what |-> f, len |-> 8]  \* its size, which stands for it as well

(* process_spawn: how many ids a process is sent, and which files.          *)
IdsSent(t) ==
  CASE t = "account"            -> 1
    [] t \in {"deliver", "mta"} -> 2
    [] t = "api"                -> 3
    [] OTHER                    -> 0

FilesSent(t) ==
  CASE t = "account"        -> <<File("RSA_Admin"), File("RSA_Users")>>
    [] t = "web"            -> <<File("web"), File("TLS.crt"), File("TLS.key")>>
    [] t \in {"api", "mta"} -> <<File("TLS.crt"), File("TLS.key")>>
    [] OTHER                -> <<>>

Written(t, key) ==
  (IF IdsSent(t) > 0 THEN <<Ids(IdsSent(t))>> ELSE <<>>)
    \o (IF key THEN <<Key>> ELSE <<>>)
    \o (IF t = "web" THEN <<>> ELSE <<Bundle>>)
    \o FilesSent(t)

(* What each program reads, one after the other.  AEM-API reads the first   *)
(* two of its ids.                                                         *)
Read(t) ==
  CASE t = "account" -> <<Ids(1), Key, Bundle, File("RSA_Admin"), File("RSA_Users")>>
    [] t = "deliver" -> <<Ids(2), Bundle>>
    [] t = "enquiry" -> <<Bundle>>
    [] t = "storage" -> <<Key, Bundle>>
    [] t = "api"     -> <<Ids(2), Key, Bundle, File("TLS.crt"), File("TLS.key")>>
    [] t = "mta"     -> <<Ids(2), Bundle, File("TLS.crt"), File("TLS.key")>>
    [] t = "web"     -> <<File("web"), File("TLS.crt"), File("TLS.key")>>

(* Each read returns as many bytes as were asked for.  A slip: what it      *)
(* returns is not looked at.                                               *)
CompleteUnseen(t, key) == TRUE

Complete(t, key) ==
  \A i \in DOMAIN Read(t) :
    i \in DOMAIN Written(t, key) /\ Written(t, key)[i].len >= Read(t)[i].len

(* setupManager forwards keys to two servers; AEM-API always gets its own. *)
Child(t, key) == [type |-> t, ready |-> FALSE, key |-> key \/ t = "api"]

(* setupManager starts Enquiry, Storage, Deliver and Account, in this order. *)
Init ==
  /\ aemPid = [t \in Worker |-> [i \in Slots |-> 0]]
  /\ pid \in [Server -> Pid]
  /\ \A s, t \in Server : s # t => pid[s] # pid[t]
  /\ process = [p \in Pid |-> IF \E t \in Server : pid[t] = p
                                THEN LET t == CHOOSE t \in Server : pid[t] = p
                                     IN  Child(t, t \in {"account", "storage"})
                                ELSE None]
  /\ stopping = {}

Exists(p) == p # 0 /\ process[p] # None

-----------------------------------------------------------------------------
(* The processes. *)

Ready(t) == \E p \in Pid : process[p].type = t /\ process[p].ready

(* A process ends, instead, if the pipe does not bring all that it reads,   *)
(* and a server if another one has the name of its socket.                 *)
Start(p) ==
  LET t == process[p].type
  IN  /\ t \in Type /\ ~process[p].ready
      /\ Complete(t, process[p].key)
      /\ t \in Server => ~Ready(t)
      /\ process' = [process EXCEPT ![p].ready = TRUE]
      /\ UNCHANGED <<aemPid, pid, stopping>>

End(p) ==
  /\ process[p] # None
  /\ process' = [process EXCEPT ![p] = None]
  /\ stopping' = stopping \ {p}
  /\ UNCHANGED <<aemPid, pid>>

OtherStarts(p) ==
  /\ process[p] = None
  /\ process' = [process EXCEPT ![p] = Other]
  /\ UNCHANGED <<aemPid, pid, stopping>>

-----------------------------------------------------------------------------
(* The commands. *)

Kept(p) == IF Exists(p) THEN p ELSE 0

refreshPids ==
  /\ aemPid' = [t \in Worker |-> [i \in Slots |-> Kept(aemPid[t][i])]]
  /\ pid' = [t \in Server |-> Kept(pid[t])]

(* After a request for information, and after the last of the processes     *)
(* that a command spawns.                                                  *)
Info == refreshPids /\ UNCHANGED <<process, stopping>>

Free(t) == {i \in Slots : aemPid[t][i] = 0}

First(S) == CHOOSE i \in S : \A k \in S : i <= k

(* process_spawn; the process may fail to start (61 .. 63).  A command      *)
(* may spawn several; the first failure ends it, without refreshing the     *)
(* ids.  A slip: it takes the last slot, whether that is free or not.       *)
SpawnOverLast(t, p) ==
  /\ t \in Worker
  /\ process[p] = None
  /\ process' = [process EXCEPT ![p] = Child(t, FALSE)]
  /\ aemPid' = [aemPid EXCEPT ![t][CHOOSE i \in Slots : \A k \in Slots : i >= k] = p]
  /\ UNCHANGED <<pid, stopping>>

SpawnWorker(t, p) ==
  /\ t \in Worker
  /\ process[p] = None
  /\ Free(t) # {}
  /\ process' = [process EXCEPT ![p] = Child(t, FALSE)]
  /\ aemPid' = [aemPid EXCEPT ![t][First(Free(t))] = p]
  /\ UNCHANGED <<pid, stopping>>

SpawnServer(t, p) ==
  /\ t \in Server
  /\ process[p] = None
  /\ process' = [process EXCEPT ![p] = Child(t, FALSE)]
  /\ pid' = [pid EXCEPT ![t] = p]
  /\ UNCHANGED <<aemPid, stopping>>

(* process_kill sends a signal to a process that it finds in its table; it *)
(* looks only for types up to 2. *)
Found(t, p) == \E i \in Slots : aemPid[t][i] = p

Kill(t, p) ==
  /\ t \in Stopped /\ Found(t, p) /\ Exists(p)
  /\ process' = [process EXCEPT ![p] = None]
  /\ stopping' = stopping \ {p}
  /\ refreshPids

KillIgnored(t, p) ==
  /\ t \in Worker /\ p \in Pid
  /\ ~(t \in Stopped /\ Found(t, p) /\ Exists(p))
  /\ stopping' = IF Found(t, p) /\ Exists(p) THEN stopping \cup {p} ELSE stopping
  /\ refreshPids
  /\ UNCHANGED process

Next ==
  \/ Info
  \/ \E p \in Pid :
       \/ Start(p) \/ End(p) \/ OtherStarts(p)
       \/ \E t \in Worker : SpawnWorker(t, p) \/ Kill(t, p) \/ KillIgnored(t, p)
       \/ \E t \in Server : SpawnServer(t, p)

Spec == Init /\ [][Next]_vars

-----------------------------------------------------------------------------
(* Calls between the processes.                                            *)

(* The servers that a process calls: intcom, intcom_stream_open. *)
Calls(t) ==
  CASE t = "account" -> {"storage"}
    [] t = "deliver" -> {"enquiry", "storage"}
    [] t = "storage" -> {"account"}
    [] t = "api"     -> {"account", "enquiry", "storage"}
    [] t = "mta"     -> {"account", "deliver"}
    [] OTHER         -> {}

(* sendIntComKeys: the key of a client for each server, and that of a       *)
(* server for each number of a client.                                     *)
ClientKeys(t) ==
  CASE t = "account" -> [storage |-> "STORAGE_ACC"]
    [] t = "deliver" -> [enquiry |-> "ENQUIRY_DLV", storage |-> "STORAGE_DLV"]
    [] t = "storage" -> [account |-> "ACCOUNT_STO"]
    [] t = "api"     -> [account |-> "ACCOUNT_API", enquiry |-> "ENQUIRY_API", storage |-> "STORAGE_API"]
    [] t = "mta"     -> [account |-> "ACCOUNT_MTA", deliver |-> "STREAM"]
    [] OTHER         -> <<>>

ServerKeys(t) ==
  CASE t = "account" -> [api |-> "ACCOUNT_API", mta |-> "ACCOUNT_MTA", storage |-> "ACCOUNT_STO"]
    [] t = "deliver" -> [mta |-> "STREAM"]
    [] t = "enquiry" -> [api |-> "ENQUIRY_API", mta |-> "ENQUIRY_DLV"]
    [] t = "storage" -> [account |-> "STORAGE_ACC", api |-> "STORAGE_API", mta |-> "STORAGE_DLV"]
    [] OTHER         -> <<>>

(* The number with which a client begins its call.  AEM-Deliver and AEM-MTA *)
(* share one.                                                              *)
ClientNumber(t) == IF t = "deliver" THEN "mta" ELSE t

SameKey(c, s) ==
  /\ s \in DOMAIN ClientKeys(c) /\ ClientNumber(c) \in DOMAIN ServerKeys(s)
  /\ ClientKeys(c)[s] = ServerKeys(s)[ClientNumber(c)]

(* What a process took for its keys, ids and files are these. *)
TakenRight(t, key) ==
  \A i \in DOMAIN Read(t) :
    i \in DOMAIN Written(t, key) /\ Written(t, key)[i].what = Read(t)[i].what

(* p connects to the socket of q's type, each finds the other to be of the  *)
(* same user (peerOk), and the server can decrypt what the client says.     *)
Reaches(p, q) ==
  /\ process[p].ready /\ process[q].ready
  /\ \A r \in {p, q} : TakenRight(process[r].type, process[r].key)
  /\ SameKey(process[p].type, process[q].type)

-----------------------------------------------------------------------------
(* Properties. *)

(* process_spawn, refreshPids: a worker that runs is in the table, under   *)
(* its type, whatever ended and started in between.                        *)
WorkersRecorded ==
  \A p \in Pid : process[p].type \in Worker => Found(process[p].type, p)

(* Whatever was spawned again, without the keys that only setupManager     *)
(* has: a process that got ready reaches each server that it calls, for as  *)
(* long as one is at work.  Both ends of the pipe agree in what is sent     *)
(* (process_spawn and seven programs), both ends of a call in the number of *)
(* the client and its key.                                                 *)
LinksWork ==
  \A p, q \in Pid :
    /\ process[p].ready /\ process[p].type \in Type
    /\ process[q].ready /\ process[q].type \in Calls(process[p].type)
    => Reaches(p, q)

(* respond_manager: a process that ManagerClient asks to stop is stopped.  *)
StopStops == stopping = {}

(* The server that is at work is the one whose id AEM-Manager keeps.       *)
ServersRecorded ==
  \A p \in Pid : process[p].ready /\ process[p].type \in Server => pid[process[p].type] = p
=============================================================================
