--------------------------- MODULE StorageFaults ---------------------------
(***************************************************************************)
(* Storage when things go wrong: a file operation that stops half-way, a   *)
(* save that fails, and the end of the process at any moment.  A process   *)
(* that ends during a write leaves the same files as a write that stops    *)
(* half-way and a process that ends before it answers, so both begin with  *)
(* a step to "failed".                                                     *)
(***************************************************************************)
EXTENDS Storage

CONSTANT MaxFailures   \* bound of the model: failures that the process survives

VARIABLES
  missed,    \* a save has failed, and none has gone through after it
  failures   \* how many failures there were

allVars == <<vars, missed, failures>>

(* acc_storage_create: the file exists, the envelope is not (all) in it, or  *)
(* there is no memory for the arrays.                                      *)
CreateHalf(u) ==
  /\ Idle
  /\ index[u] = <<>> /\ u \notin hasFile
  /\ \E left \in {<<>>, <<Torn>>, <<[id |-> 0, msg |-> Welcome]>>} : file' = [file EXCEPT ![u] = left]
  /\ hasFile' = hasFile \cup {u}
  /\ Proceed("create", u, "failed")
  /\ UNCHANGED <<memory, saved>>

(* storage_write: O_APPEND, and nothing takes the fragment away again. *)
WriteHalf(u) ==
  /\ Idle
  /\ index[u] # <<>> /\ u \in hasFile
  /\ Room(u)
  /\ file' = [file EXCEPT ![u] = Append(@, Torn)]
  /\ Proceed("write", u, "failed")
  /\ UNCHANGED <<memory, hasFile, saved>>

(* The file f after the first n places from number i on have been written   *)
(* with what was behind them.  Those in broken hold parts of two envelopes, *)
(* because the sizes differ or because the write ended there.              *)
Shifted(f, i, n, broken) ==
  [k \in DOMAIN f |-> CASE k \in broken -> Mixed
                      [] k \notin broken /\ k \in i .. (i + n - 1) -> f[k + 1]
                      [] OTHER -> f[k]]

(* storage_delete: pwrite stops early, or ftruncate is not done.  The       *)
(* length of the file stays, so a repeated request is not refused.         *)
DeleteHalf(u, i) ==
  /\ Idle
  /\ u \in hasFile /\ SizesAgree(u)
  /\ i \in DOMAIN index[u]
  /\ \E n \in 0 .. (Len(index[u]) - i), broken \in SUBSET (i .. Len(index[u])) :
       /\ i = Len(index[u]) => broken = {}
       /\ broken \subseteq i .. (i + n)
       /\ file' = [file EXCEPT ![u] = Shifted(@, i, n, broken)]
  /\ Proceed("delete", u, "failed")
  /\ UNCHANGED <<memory, hasFile, saved>>

(* storage_empty: O_TRUNC has been done, the envelope is not (all) there,   *)
(* or just as much of it as all the places of the index take.              *)
EmptyHalf(u) ==
  /\ Idle
  /\ u \in hasFile
  /\ \E left \in {<<>>, <<Torn>>, [k \in DOMAIN index[u] |-> Mixed]} :
       file' = [file EXCEPT ![u] = left]
  /\ Proceed("empty", u, "failed")
  /\ UNCHANGED <<memory, hasFile, saved>>

Half ==
  \E u \in User :
    \/ CreateHalf(u)
    \/ WriteHalf(u)
    \/ \E i \in DOMAIN index[u] : DeleteHalf(u, i)
    \/ EmptyHalf(u)

(* Kill, power loss, or a fault of the process; then a start. *)
Crash == Reload /\ UNCHANGED disk

-----------------------------------------------------------------------------
(* What the code does when the disk fails and the process goes on. *)

FailureAnswered ==
  /\ pc = "failed"
  /\ Answer("err")
  /\ UNCHANGED <<memory, disk>>

(* saveStindex returns nothing: its failures are only logged. *)
SaveNotOpened ==
  /\ pc = "save"
  /\ AfterSave
  /\ UNCHANGED <<memory, disk>>

SaveNotWritten ==
  /\ pc = "saving"
  /\ AfterSave
  /\ UNCHANGED <<memory, disk>>

NotUnlinked ==
  /\ \/ pc = "unlink" /\ Answer("err")
     \/ Idle /\ (\E u \in User : index[u] = <<>> /\ u \in hasFile) /\ Answer("ok")
  /\ UNCHANGED <<memory, disk>>

(* The next save that goes through writes the whole index; a start takes    *)
(* what there is.                                                          *)
Missed == missed /\ pc # "saving" /\ ret' # "restart"

FaultNext ==
  \/ /\ Next \/ Half \/ Crash
     /\ missed' = Missed
     /\ UNCHANGED failures
  \/ /\ FailureAnswered \/ NotUnlinked
     /\ failures < MaxFailures
     /\ missed' = Missed
     /\ failures' = failures + 1
  \/ /\ SaveNotOpened \/ SaveNotWritten
     /\ failures < MaxFailures
     /\ missed' = TRUE
     /\ failures' = failures + 1

FaultSpec == Init /\ missed = FALSE /\ failures = 0 /\ [][FaultNext]_allVars

-----------------------------------------------------------------------------
(* Correctness. *)

(* However often the process ends, and wherever: what Stindex.aem says when *)
(* it can be read is the index in memory, but for the user whose request   *)
(* is in progress, unless saveStindex, which reports no error, has failed. *)
DiskCurrent ==
  diskOk /\ ~missed =>
    /\ \A u \in User \ {cur} : diskIndex[u] = index[u]
    /\ pc \in {"idle", "failed"} => diskIndex[cur] = index[cur]

(* "AEM-Storage holds this index in memory, and keeps an encrypted copy at  *)
(* /var/lib/allears/Stindex.aem": after the end of the process, wherever it *)
(* comes, a start finds at least the mail of the users nothing was asked   *)
(* for.                                                                    *)
CopyIsKept ==
  [][ret' = "restart" => \A u \in User \ {cur} : Held(u) \subseteq Held(u)']_allVars

(* Even when files and index have come apart, only a request to delete, to  *)
(* empty or to drop a mailbox, or a start of the process, makes an envelope *)
(* of it unreadable: storage_write never does, however it fails.           *)
LostOnlyOnRequest ==
  [][\A u \in User :
       \/ Held(u) \subseteq Held(u)'
       \/ ret' = "restart"
       \/ cur' = u /\ kind' \in {"delete", "empty", "drop"}
       \/ cur = u /\ kind = "drop"]_allVars

(* storage_delete that goes through takes nothing but what it was asked to: *)
(* every other envelope that could be read can be read, though earlier      *)
(* failures left overwritten places in a file of the right length.         *)
DeleteLosesOne ==
  [][\A u \in User :
       kind' = "delete" /\ pc' = "save" /\ cur' = u
         => \A e \in Held(u) : e.id \in ToSet(index'[u]) => e \in Held(u)']_allVars
=============================================================================
