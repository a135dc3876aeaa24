------------------------------ MODULE Storage ------------------------------
(***************************************************************************)
(* AEM-Storage (src/storage): a single-threaded server that keeps          *)
(*   - per user, a file Msg/<user> with the user's envelopes end to end,   *)
(*   - in memory, the Stindex: per user the id and size of each envelope,  *)
(*   - an encrypted copy of the Stindex in Stindex.aem.                    *)
(*                                                                         *)
(* Requests are served one at a time, but each writes two files one after  *)
(* the other, and Stindex.aem is truncated before it is rewritten.  The    *)
(* model therefore splits a request into the steps between which a crash   *)
(* leaves different files behind:                                          *)
(*                                                                         *)
(*    request ---> "save" ---> "saving" ---> idle      (create, write,     *)
(*      |            |  truncate    | write             delete, empty)     *)
(*      |                           '---> "unlink" ---> idle       (drop)  *)
(*      '--> "failed": a file operation went wrong half-way                *)
(*                                                                         *)
(* Sizes.  A cell is the place in the file where the index expects one     *)
(* envelope; Mixed is a place that holds bytes of several envelopes, or a  *)
(* part of one, in their right number.  A fragment (Torn) has another      *)
(* length than any place: what follows it is nowhere expected.             *)
(***************************************************************************)
EXTENDS Naturals, Sequences, FiniteSets, SequencesExt

CONSTANTS
  User,          \* UserIDs
  Msg,           \* messages received from AEM-API and AEM-Deliver
  Welcome,       \* the system message of storage_create
  Emptied,       \* the system message of storage_empty
  MasterAdmin,   \* the user made by utils/Creator
  IdCount,       \* envelope ids, and values of stindex_count: 2^16 in the code
  Torn,          \* part of an envelope, of a length that the index does not know
  Mixed,         \* a place that was overwritten, whose length is the expected one
  MaxCells       \* bound of the model: cells of a file, entries of an index

ASSUME StorageAssumption ==
  /\ MasterAdmin \in User
  /\ IdCount \in Nat /\ IdCount > 1
  /\ MaxCells \in Nat

EnvId    == 0 .. (IdCount - 1)
Message  == Msg \cup {Welcome, Emptied}
Envelope == [id : EnvId, msg : Message]

ASSUME TornAssumption == {Torn, Mixed} \cap Envelope = {}

Cell == Envelope \cup {Torn, Mixed}

VARIABLES
  index,       \* stindex, stindex_count: the ids of each user, oldest first
  alloc,       \* whether the arrays of stindex[u] are "null", "live" or "freed"
  file,        \* the cells of Msg/<u>
  hasFile,     \* the users for which Msg/<u> exists
  diskOk,      \* Stindex.aem can be read and decrypted
  diskIndex,   \* the index in Stindex.aem, when it can be read
  pc,          \* step of the request in progress
  kind, cur,   \* the request in progress: what, and for whom
  ret          \* the last answer; "busy" before it, "restart" after a start

memory == <<index, alloc>>
files  == <<file, hasFile>>
saved  == <<diskOk, diskIndex>>
disk   == <<file, hasFile, diskOk, diskIndex>>
vars   == <<index, alloc, file, hasFile, diskOk, diskIndex, pc, kind, cur, ret>>

PC    == {"idle", "save", "saving", "unlink", "failed"}
Kind  == {"none", "create", "write", "delete", "empty", "drop"}
Ret   == {"ok", "err", "exist", "notexist", "busy", "restart"}
Alloc == {"null", "live", "freed"}

TypeOK ==
  /\ index \in [User -> Seq(EnvId)]
  /\ alloc \in [User -> Alloc]
  /\ file \in [User -> Seq(Cell)]
  /\ hasFile \in SUBSET User
  /\ diskOk \in BOOLEAN
  /\ diskIndex \in [User -> Seq(EnvId)]
  /\ pc \in PC
  /\ kind \in Kind
  /\ cur \in User
  /\ ret \in Ret

(* The home folder as utils/Creator leaves it, and a first start. *)
Init ==
  /\ index = [u \in User |-> IF u = MasterAdmin THEN <<0>> ELSE <<>>]
  /\ alloc = [u \in User |-> IF u = MasterAdmin THEN "live" ELSE "null"]
  /\ file = [u \in User |-> IF u = MasterAdmin
                            THEN <<[id |-> 0, msg |-> Welcome]>> ELSE <<>>]
  /\ hasFile = {MasterAdmin}
  /\ diskOk = TRUE
  /\ diskIndex = index
  /\ pc = "idle"
  /\ kind = "none"
  /\ cur = MasterAdmin
  /\ ret = "restart"

-----------------------------------------------------------------------------
(* Steps shared by the requests. *)

Idle             == pc = "idle"
Proceed(k, u, p) == kind' = k /\ cur' = u /\ pc' = p /\ ret' = "busy"
Answer(r)        == kind' = "none" /\ cur' = MasterAdmin /\ pc' = "idle" /\ ret' = r
Refuse(r)        == Answer(r) /\ UNCHANGED <<memory, disk>>

(* Slip: the entry is put in front of the older ones. *)
AddEntryInFront(s, id) == <<id>> \o s

(* Slip: an id is drawn without looking at the used ones. *)
AnyId(u) == EnvId

(* Slot i of u's index leads to its envelope: api_message_browse finds at   *)
(* the offset it computes the envelope that the index means.               *)
Readable(u, i) ==
  /\ i \in DOMAIN file[u]
  /\ \A k \in 1 .. i : file[u][k] # Torn
  /\ file[u][i] # Mixed
  /\ file[u][i].id = index[u][i]

(* The lseek comparison with which storage_delete begins: it sees the       *)
(* length of the file, not what is in it.                                  *)
SizesAgree(u) ==
  /\ Len(file[u]) = Len(index[u])
  /\ Torn \notin ToSet(file[u])

(* The file is not what the index says: then whether the lengths agree is   *)
(* also a matter of the sizes of the envelopes, which have no place here.  *)
Disordered(u) == \E i \in DOMAIN index[u] : ~Readable(u, i)

(* stindex_count is a uint16_t: the entry number 2^16 wraps it to zero. *)
AddEntry(s, id) == IF Len(s) + 1 = IdCount THEN <<>> ELSE Append(s, id)

(* msg2evp draws keys until the envelope id is none of the used ones. *)
UnusedIds(u) == EnvId \ ToSet(index[u])

(* Bound of the model. *)
Room(u) == Len(file[u]) < MaxCells /\ Len(index[u]) < MaxCells

(* The start of the process: what loadStindex can read, or nothing. *)
Loaded == IF diskOk THEN diskIndex ELSE [u \in User |-> <<>>]

Reload ==
  /\ index' = Loaded
  /\ alloc' = [u \in User |-> IF Loaded[u] # <<>> THEN "live" ELSE "null"]
  /\ Answer("restart")

-----------------------------------------------------------------------------
(* The requests. *)

(* The welcome envelope is sealed with keys read past the end of the      *)
(* request, which may be unusable: then the request fails.                *)
Create(u) ==
  /\ Idle
  /\ \/ index[u] # <<>> /\ Refuse("exist")
     \/ index[u] = <<>> /\ Refuse("err")
     \/ /\ index[u] = <<>>
        /\ u \notin hasFile
        /\ file' = [file EXCEPT ![u] = <<[id |-> 0, msg |-> Welcome]>>]
        /\ hasFile' = hasFile \cup {u}
        /\ index' = [index EXCEPT ![u] = <<0>>]
        /\ alloc' = [alloc EXCEPT ![u] = "live"]
        /\ Proceed("create", u, "save")
        /\ UNCHANGED saved

(* Any write may be refused: AEM-Account may not provide the keys. *)
Write(u, m) ==
  /\ Idle
  /\ \/ Refuse("err")
     \/ /\ index[u] # <<>>
        /\ u \in hasFile
        /\ Room(u)
        /\ \E id \in UnusedIds(u) :
             /\ file' = [file EXCEPT ![u] = Append(@, [id |-> id, msg |-> m])]
             /\ index' = [index EXCEPT ![u] = AddEntry(@, id)]
        /\ Proceed("write", u, "save")
        /\ UNCHANGED <<alloc, hasFile, saved>>

(* Slip: no save after the newest envelope has been cut off. *)
DeleteUnsaved(u, id) ==
  /\ Idle
  /\ u \in hasFile /\ SizesAgree(u)
  /\ \E i \in DOMAIN index[u] :
       /\ index[u][i] = id
       /\ file' = [file EXCEPT ![u] = RemoveAt(@, i)]
       /\ index' = [index EXCEPT ![u] = RemoveAt(@, i)]
  /\ Answer("ok")
  /\ UNCHANGED <<alloc, hasFile, saved>>

(* Slip: the index keeps its tail and loses its first entry. *)
DeleteFirstEntry(u, id) ==
  /\ Idle
  /\ u \in hasFile /\ SizesAgree(u)
  /\ \E i \in DOMAIN index[u] :
       /\ index[u][i] = id
       /\ file' = [file EXCEPT ![u] = RemoveAt(@, i)]
       /\ index' = [index EXCEPT ![u] = Tail(@)]
  /\ Proceed("delete", u, "save")
  /\ UNCHANGED <<alloc, hasFile, saved>>

Delete(u, id) ==
  /\ Idle
  /\ \/ (u \notin hasFile \/ ~SizesAgree(u) \/ Disordered(u)) /\ Refuse("err")
     \/ /\ u \in hasFile /\ SizesAgree(u)
        /\ id \notin ToSet(index[u])
        /\ Refuse("notexist")
     \/ /\ u \in hasFile /\ SizesAgree(u)
        /\ \E i \in DOMAIN index[u] :
             /\ index[u][i] = id
             /\ \A k \in 1 .. (i - 1) : index[u][k] # id
             /\ file' = [file EXCEPT ![u] = RemoveAt(@, i)]
             /\ index' = [index EXCEPT ![u] = RemoveAt(@, i)]
        /\ Proceed("delete", u, "save")
        /\ UNCHANGED <<alloc, hasFile, saved>>

(* Slip: the old envelopes are left in front of the new one. *)
EmptyAppends(u) ==
  /\ Idle
  /\ u \in hasFile /\ alloc[u] # "null"
  /\ file' = [file EXCEPT ![u] = Append(@, [id |-> 0, msg |-> Emptied])]
  /\ index' = [index EXCEPT ![u] = <<0>>]
  /\ Proceed("empty", u, "save")
  /\ UNCHANGED <<alloc, hasFile, saved>>

(* After a start, the arrays of a user without envelopes are NULL, and      *)
(* the assignment to bc[0] kills the process; arrays that were freed by    *)
(* acc_storage_delete (and survived as dangling pointers) may be written   *)
(* to, or the process dies, now or at a later use of them (Restart).       *)
Empty(u) ==
  /\ Idle
  /\ \/ Refuse("err")
     \/ /\ u \in hasFile
        /\ file' = [file EXCEPT ![u] = <<[id |-> 0, msg |-> Emptied]>>]
        /\ \/ /\ alloc[u] # "null"
              /\ index' = [index EXCEPT ![u] = <<0>>]
              /\ Proceed("empty", u, "save")
              /\ UNCHANGED alloc
           \/ alloc[u] # "live" /\ Reload
        /\ UNCHANGED <<hasFile, saved>>

Drop(u) ==
  /\ Idle
  /\ \/ /\ index[u] = <<>>
        /\ file' = [file EXCEPT ![u] = <<>>]
        /\ hasFile' = hasFile \ {u}
        /\ Answer("ok")
        /\ UNCHANGED <<memory, saved>>
     \/ /\ index[u] # <<>>
        /\ index' = [index EXCEPT ![u] = <<>>]
        /\ alloc' = [alloc EXCEPT ![u] = "freed"]
        /\ Proceed("drop", u, "save")
        /\ UNCHANGED disk

-----------------------------------------------------------------------------
(* saveStindex, and what follows it. *)

SaveTruncate ==
  /\ pc = "save"
  /\ diskOk' = FALSE
  /\ Proceed(kind, cur, "saving")
  /\ UNCHANGED <<memory, files, diskIndex>>

AfterSave == IF kind = "drop" THEN Proceed(kind, cur, "unlink") ELSE Answer("ok")

SaveWrite ==
  /\ pc = "saving"
  /\ diskOk' = TRUE
  /\ diskIndex' = index
  /\ AfterSave
  /\ UNCHANGED <<memory, files>>

Unlink ==
  /\ pc = "unlink"
  /\ file' = [file EXCEPT ![cur] = <<>>]
  /\ hasFile' = hasFile \ {cur}
  /\ Answer(IF cur \in hasFile THEN "ok" ELSE "err")
  /\ UNCHANGED <<memory, saved>>

(* SIGTERM is acted upon between requests. *)
Restart ==
  /\ Idle
  /\ Reload
  /\ UNCHANGED disk

Next ==
  \/ \E u \in User :
       \/ Create(u)
       \/ \E m \in Msg : Write(u, m)
       \/ \E id \in EnvId : Delete(u, id)
       \/ Empty(u)
       \/ Drop(u)
  \/ SaveTruncate
  \/ SaveWrite
  \/ Unlink
  \/ Restart

Spec == Init /\ [][Next]_vars

-----------------------------------------------------------------------------
(* Correctness. *)

(* The envelopes that u can still get. *)
Held(u) == {file[u][i] : i \in {k \in DOMAIN index[u] : Readable(u, k)}}

(* No two envelopes of a mailbox have the same id, so that the id in a      *)
(* Message/Delete request means one envelope: msg2evp's search for an      *)
(* unused id, through deletions, emptying and starts from the saved index. *)
IdsUnique == \A u \in User : IsInjective(index[u])

(* As long as file operations succeed, the file of every user with an       *)
(* index holds exactly the envelopes of the index, in its order: appending, *)
(* shifting and rewriting in storage_write, _delete and _empty keep the two *)
(* in step.                                                                *)
FileMatchesIndex ==
  \A u \in User : index[u] # <<>> =>
    /\ u \in hasFile
    /\ Len(file[u]) = Len(index[u])
    /\ \A i \in DOMAIN index[u] : Readable(u, i)

(* Between requests Stindex.aem holds the index in memory: every operation  *)
(* that changes the index saves it before it answers.                      *)
SavedWhenIdle == pc = "idle" => diskOk /\ diskIndex = index

(* The mailboxes of module MailStore, read through the index. *)
Mailbox(u) == [i \in DOMAIN index[u] |-> file[u][i].msg]

Store == INSTANCE MailStore WITH box <- [u \in User |-> Mailbox(u)]

(* Storage implements MailStore: browsing after any sequence of requests    *)
(* shows what the requests ask for, and orderly restarts are invisible.    *)
ImplementsMailStore == Store!Spec

(* "As this is your oldest message now, it can only be deleted by emptying  *)
(* your storage again": storage_delete leaves the oldest message alone.    *)
OldestStays ==
  [][\A u \in User :
       kind' = "delete" /\ index'[u] # index[u] /\ ret' = "busy"
         => index'[u] # <<>> /\ Head(index'[u]) = Head(index[u])]_vars

(* "The size of each Envelope is kept in the Storage Index": there is no    *)
(* envelope in a user's file that the index does not know.                 *)
EveryEnvelopeIndexed ==
  pc = "idle" => \A u \in User : Len(file[u]) = Len(index[u])

(* The same of the envelope that storage_write has just stored.             *)
StoredIsIndexed ==
  [][\A u \in User :
       kind' = "write" /\ file'[u] # file[u] => index'[u] # <<>>]_vars
=============================================================================
