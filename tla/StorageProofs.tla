--------------------------- MODULE StorageProofs ---------------------------
(***************************************************************************)
(* Theorems about Storage and StorageFaults, for every number of users and *)
(* messages and every value of IdCount and MaxCells.                       *)
(***************************************************************************)
EXTENDS StorageFaults, Browse, SequenceLemmas, TLAPS

-----------------------------------------------------------------------------
(* Types and the uniqueness of envelope ids, under all faults.              *)

(* IdsUnique alone is not inductive: a start takes the index from           *)
(* Stindex.aem, so the ids saved there have to be different as well.       *)
SavedIdsUnique == \A u \in User : IsInjective(diskIndex[u])

IdInv == TypeOK /\ IdsUnique /\ SavedIdsUnique

LEMMA Zero == 0 \in EnvId
  BY StorageAssumption DEF EnvId

LEMMA CellTypes ==
  ASSUME NEW id \in EnvId, NEW m \in Message
  PROVE  /\ [id |-> id, msg |-> m] \in Cell
         /\ <<[id |-> id, msg |-> m]>> \in Seq(Cell)
         /\ <<Torn>> \in Seq(Cell)
         /\ Mixed \in Cell
         /\ <<>> \in Seq(Cell)
         /\ <<id>> \in Seq(EnvId)
         /\ <<>> \in Seq(EnvId)
  BY DEF Envelope, Cell

LEMMA IdInvInit == Init => IdInv
  <1> SUFFICES ASSUME Init PROVE IdInv
    OBVIOUS
  <1> USE StorageAssumption, Zero DEF Init
  <1>1. TypeOK
    <2>1. Welcome \in Message
      BY DEF Message
    <2>2. index \in [User -> Seq(EnvId)] /\ diskIndex \in [User -> Seq(EnvId)]
      BY CellTypes, <2>1
    <2>3. file \in [User -> Seq(Cell)]
      BY CellTypes, <2>1
    <2>4. alloc \in [User -> Alloc] /\ hasFile \in SUBSET User
      BY DEF Alloc
    <2>5. pc \in PC /\ kind \in Kind /\ ret \in Ret /\ cur \in User /\ diskOk \in BOOLEAN
      BY DEF PC, Kind, Ret
    <2> QED BY <2>2, <2>3, <2>4, <2>5 DEF TypeOK
  <1>2. IdsUnique
    <2> SUFFICES ASSUME NEW u \in User PROVE IsInjective(index[u])
      BY DEF IdsUnique
    <2> QED BY EmptyInjective
  <1>3. SavedIdsUnique
    BY <1>2 DEF IdsUnique, SavedIdsUnique
  <1> QED BY <1>1, <1>2, <1>3 DEF IdInv

(* A start: the index is the saved one, or empty. *)
LEMMA ReloadKeepsIds ==
  ASSUME IdInv, Reload
  PROVE  /\ index' \in [User -> Seq(EnvId)]
         /\ alloc' \in [User -> Alloc]
         /\ IdsUnique'
         /\ pc' = "idle" /\ kind' = "none" /\ cur' = MasterAdmin /\ ret' = "restart"
  <1>1. Loaded \in [User -> Seq(EnvId)]
    BY DEF IdInv, TypeOK, Loaded
  <1>2. \A u \in User : IsInjective(Loaded[u])
    BY EmptyInjective DEF IdInv, SavedIdsUnique, Loaded
  <1> QED BY <1>1, <1>2 DEF Reload, Answer, Alloc, IdsUnique

(* The step names of a request have the right types. *)
LEMMA ProceedTypes ==
  ASSUME NEW k \in Kind, NEW u \in User, NEW p \in PC, Proceed(k, u, p)
  PROVE  pc' \in PC /\ kind' \in Kind /\ cur' \in User /\ ret' \in Ret
  BY DEF Proceed, Ret

LEMMA AnswerTypes ==
  ASSUME NEW r \in Ret, Answer(r)
  PROVE  pc' \in PC /\ kind' \in Kind /\ cur' \in User /\ ret' \in Ret
  BY StorageAssumption DEF Answer, PC, Kind

LEMMA RefuseKeepsIds ==
  ASSUME IdInv, NEW r \in Ret, Refuse(r)
  PROVE  IdInv'
  <1>1. pc' \in PC /\ kind' \in Kind /\ cur' \in User /\ ret' \in Ret
    BY AnswerTypes DEF Refuse
  <1> QED BY <1>1 DEF IdInv, TypeOK, IdsUnique, SavedIdsUnique, Refuse, memory, disk

(* A step that changes only where the request stands. *)
LEMMA ControlKeepsIds ==
  ASSUME IdInv, UNCHANGED <<memory, disk>>,
         pc' \in PC, kind' \in Kind, cur' \in User, ret' \in Ret
  PROVE  IdInv'
  BY DEF IdInv, TypeOK, IdsUnique, SavedIdsUnique, memory, disk

(* A step that changes one user's index and file, and not Stindex.aem. *)
LEMMA OneMailboxKeepsIds ==
  ASSUME IdInv, NEW u \in User, NEW s \in Seq(EnvId), IsInjective(s),
         NEW f \in Seq(Cell),
         index' = [index EXCEPT ![u] = s],
         file' = [file EXCEPT ![u] = f],
         alloc' \in [User -> Alloc], hasFile' \in SUBSET User, UNCHANGED saved,
         pc' \in PC, kind' \in Kind, cur' \in User, ret' \in Ret
  PROVE  IdInv'
  <1>1. TypeOK'
    BY DEF IdInv, TypeOK, saved
  <1>2. IdsUnique'
    <2> SUFFICES ASSUME NEW v \in User PROVE IsInjective(index'[v])
      BY DEF IdsUnique
    <2> QED BY DEF IdInv, TypeOK, IdsUnique
  <1>3. SavedIdsUnique'
    BY DEF IdInv, SavedIdsUnique, saved
  <1> QED BY <1>1, <1>2, <1>3 DEF IdInv

(* A step that changes files only. *)
LEMMA FilesKeepIds ==
  ASSUME IdInv, file' \in [User -> Seq(Cell)],
         hasFile' \in SUBSET User, UNCHANGED <<memory, saved>>,
         pc' \in PC, kind' \in Kind, cur' \in User, ret' \in Ret
  PROVE  IdInv'
  BY DEF IdInv, TypeOK, IdsUnique, SavedIdsUnique, memory, saved

LEMMA CreateKeepsIds ==
  ASSUME IdInv, NEW u \in User, Create(u)
  PROVE  IdInv'
  <1>1. CASE \E r \in {"exist", "err"} : Refuse(r)
    BY <1>1, RefuseKeepsIds DEF Ret
  <1>2. CASE /\ file' = [file EXCEPT ![u] = <<[id |-> 0, msg |-> Welcome]>>]
             /\ hasFile' = hasFile \cup {u}
             /\ index' = [index EXCEPT ![u] = << 0 >>]
             /\ alloc' = [alloc EXCEPT ![u] = "live"]
             /\ Proceed("create", u, "save")
             /\ UNCHANGED saved
    <2>1. pc' \in PC /\ kind' \in Kind /\ cur' \in User /\ ret' \in Ret
      BY <1>2, ProceedTypes DEF Kind, PC
    <2>2. Welcome \in Message
      BY DEF Message
    <2>3. alloc' \in [User -> Alloc] /\ hasFile' \in SUBSET User
      BY <1>2 DEF IdInv, TypeOK, Alloc
    <2> QED BY <1>2, <2>1, <2>2, <2>3, CellTypes, Zero, EmptyInjective, OneMailboxKeepsIds
  <1> QED BY <1>1, <1>2 DEF Create

LEMMA WriteKeepsIds ==
  ASSUME IdInv, NEW u \in User, NEW m \in Msg, Write(u, m)
  PROVE  IdInv'
  <1>1. CASE Refuse("err")
    BY <1>1, RefuseKeepsIds DEF Ret
  <1>2. ASSUME NEW id \in UnusedIds(u),
               file' = [file EXCEPT ![u] = Append(@, [id |-> id, msg |-> m])],
               index' = [index EXCEPT ![u] = AddEntry(@, id)],
               Proceed("write", u, "save"),
               UNCHANGED <<alloc, hasFile, saved>>
        PROVE  IdInv'
    <2>1. pc' \in PC /\ kind' \in Kind /\ cur' \in User /\ ret' \in Ret
      BY <1>2, ProceedTypes DEF Kind, PC
    <2>2. id \in EnvId /\ id \notin ToSet(index[u]) /\ m \in Message
      BY <1>2 DEF UnusedIds, Message
    <2>3. index[u] \in Seq(EnvId) /\ IsInjective(index[u])
      BY DEF IdInv, TypeOK, IdsUnique
    <2>4. AddEntry(index[u], id) \in Seq(EnvId) /\ IsInjective(AddEntry(index[u], id))
      <3>1. CASE Len(index[u]) + 1 = IdCount
        BY <3>1, EmptyInjective DEF AddEntry
      <3>2. CASE Len(index[u]) + 1 # IdCount
        BY <2>2, <2>3, <3>2, AppendInjectiveSeq DEF AddEntry
      <3> QED BY <3>1, <3>2
    <2>5. Append(file[u], [id |-> id, msg |-> m]) \in Seq(Cell)
      <3>1. file[u] \in Seq(Cell)
        BY DEF IdInv, TypeOK
      <3>2. [id |-> id, msg |-> m] \in Cell
        BY <2>2, CellTypes
      <3> QED BY <3>1, <3>2
    <2>6. alloc' \in [User -> Alloc] /\ hasFile' \in SUBSET User
      BY <1>2 DEF IdInv, TypeOK
    <2>7. /\ index' = [index EXCEPT ![u] = AddEntry(index[u], id)]
          /\ file' = [file EXCEPT ![u] = Append(file[u], [id |-> id, msg |-> m])]
      BY <1>2
    <2> QED BY <1>2, <2>1, <2>4, <2>5, <2>6, <2>7, OneMailboxKeepsIds
  <1> QED BY <1>1, <1>2 DEF Write

LEMMA DeleteKeepsIds ==
  ASSUME IdInv, NEW u \in User, NEW id \in EnvId, Delete(u, id)
  PROVE  IdInv'
  <1>1. CASE \E r \in {"err", "notexist"} : Refuse(r)
    BY <1>1, RefuseKeepsIds DEF Ret
  <1>2. ASSUME SizesAgree(u),
               NEW i \in DOMAIN index[u],
               file' = [file EXCEPT ![u] = RemoveAt(@, i)],
               index' = [index EXCEPT ![u] = RemoveAt(@, i)],
               Proceed("delete", u, "save"),
               UNCHANGED <<alloc, hasFile, saved>>
        PROVE  IdInv'
    <2>1. pc' \in PC /\ kind' \in Kind /\ cur' \in User /\ ret' \in Ret
      BY <1>2, ProceedTypes DEF Kind, PC
    <2>2. /\ index[u] \in Seq(EnvId) /\ IsInjective(index[u])
          /\ file[u] \in Seq(Cell)
      BY DEF IdInv, TypeOK, IdsUnique
    <2>3. RemoveAt(index[u], i) \in Seq(EnvId) /\ IsInjective(RemoveAt(index[u], i))
      BY <2>2, RemoveAtProperties, RemoveAtInjective
    <2>4. i \in DOMAIN file[u]
      BY <1>2, <2>2 DEF SizesAgree
    <2>5. RemoveAt(file[u], i) \in Seq(Cell)
      BY <2>2, <2>4, RemoveAtProperties
    <2>6. alloc' \in [User -> Alloc] /\ hasFile' \in SUBSET User
      BY <1>2 DEF IdInv, TypeOK
    <2>7. /\ index' = [index EXCEPT ![u] = RemoveAt(index[u], i)]
          /\ file' = [file EXCEPT ![u] = RemoveAt(file[u], i)]
      BY <1>2
    <2> QED BY <1>2, <2>1, <2>3, <2>5, <2>6, <2>7, OneMailboxKeepsIds
  <1> QED BY <1>1, <1>2 DEF Delete

LEMMA EmptyKeepsIds ==
  ASSUME IdInv, NEW u \in User, Empty(u)
  PROVE  IdInv'
  <1>1. CASE Refuse("err")
    BY <1>1, RefuseKeepsIds DEF Ret
  <1>2. Emptied \in Message
    BY DEF Message
  <1>3. ASSUME file' = [file EXCEPT ![u] = <<[id |-> 0, msg |-> Emptied]>>],
               index' = [index EXCEPT ![u] = << 0 >>],
               Proceed("empty", u, "save"),
               UNCHANGED alloc, UNCHANGED <<hasFile, saved>>
        PROVE  IdInv'
    <2>1. pc' \in PC /\ kind' \in Kind /\ cur' \in User /\ ret' \in Ret
      BY <1>3, ProceedTypes DEF Kind, PC
    <2>2. alloc' \in [User -> Alloc] /\ hasFile' \in SUBSET User
      BY <1>3 DEF IdInv, TypeOK
    <2> QED BY <1>2, <1>3, <2>1, <2>2, CellTypes, Zero, EmptyInjective, OneMailboxKeepsIds
  <1>4. ASSUME file' = [file EXCEPT ![u] = <<[id |-> 0, msg |-> Emptied]>>],
               Reload, UNCHANGED <<hasFile, saved>>
        PROVE  IdInv'
    <2>1. /\ index' \in [User -> Seq(EnvId)] /\ alloc' \in [User -> Alloc] /\ IdsUnique'
          /\ pc' = "idle" /\ kind' = "none" /\ cur' = MasterAdmin /\ ret' = "restart"
      BY <1>4, ReloadKeepsIds
    <2>2. file' \in [User -> Seq(Cell)]
      BY <1>2, <1>4, CellTypes, Zero DEF IdInv, TypeOK
    <2> QED BY <1>4, <2>1, <2>2, StorageAssumption
            DEF IdInv, TypeOK, SavedIdsUnique, saved, PC, Kind, Ret
  <1> QED BY <1>1, <1>3, <1>4 DEF Empty

LEMMA DropKeepsIds ==
  ASSUME IdInv, NEW u \in User, Drop(u)
  PROVE  IdInv'
  <1>1. CASE /\ file' = [file EXCEPT ![u] = <<>>]
             /\ hasFile' = hasFile \ {u}
             /\ Answer("ok")
             /\ UNCHANGED <<memory, saved>>
    <2>1. pc' \in PC /\ kind' \in Kind /\ cur' \in User /\ ret' \in Ret
      BY <1>1, AnswerTypes DEF Ret
    <2>2. file' \in [User -> Seq(Cell)] /\ hasFile' \in SUBSET User
      BY <1>1 DEF IdInv, TypeOK
    <2> QED BY <1>1, <2>1, <2>2, FilesKeepIds
  <1>2. CASE /\ index' = [index EXCEPT ![u] = <<>>]
             /\ alloc' = [alloc EXCEPT ![u] = "freed"]
             /\ Proceed("drop", u, "save")
             /\ UNCHANGED disk
    <2>1. pc' \in PC /\ kind' \in Kind /\ cur' \in User /\ ret' \in Ret
      BY <1>2, ProceedTypes DEF Kind, PC
    <2>2. alloc' \in [User -> Alloc] /\ hasFile' \in SUBSET User
      BY <1>2 DEF IdInv, TypeOK, Alloc, disk
    <2>3. file' = [file EXCEPT ![u] = file[u]] /\ file[u] \in Seq(Cell)
      BY <1>2 DEF IdInv, TypeOK, disk
    <2>4. UNCHANGED saved
      BY <1>2 DEF disk, saved
    <2>5. <<>> \in Seq(EnvId) /\ IsInjective(<<>>)
      BY EmptyInjective
    <2>6. index' = [index EXCEPT ![u] = <<>>]
      BY <1>2
    <2> QED BY <2>1, <2>2, <2>3, <2>4, <2>5, <2>6, OneMailboxKeepsIds
  <1> QED BY <1>1, <1>2 DEF Drop

(* saveStindex: what is saved is the index in memory. *)
LEMMA SaveKeepsIds ==
  ASSUME IdInv, SaveTruncate \/ SaveWrite \/ Unlink \/ SaveNotOpened \/ SaveNotWritten
  PROVE  IdInv'
  <1>1. ASSUME AfterSave
        PROVE  pc' \in PC /\ kind' \in Kind /\ cur' \in User /\ ret' \in Ret
    BY <1>1, StorageAssumption DEF IdInv, TypeOK, AfterSave, Proceed, Answer, PC, Ret, Kind
  <1>2. CASE SaveTruncate
    BY <1>2 DEF SaveTruncate, Proceed, IdInv, TypeOK, IdsUnique, SavedIdsUnique,
                memory, files, PC, Ret
  <1>3. CASE SaveWrite
    BY <1>1, <1>3 DEF SaveWrite, IdInv, TypeOK, IdsUnique, SavedIdsUnique, memory, files
  <1>4. CASE Unlink
    <2>1. pc' \in PC /\ kind' \in Kind /\ cur' \in User /\ ret' \in Ret
      BY <1>4, AnswerTypes DEF Unlink, Ret
    <2>2. file' \in [User -> Seq(Cell)] /\ hasFile' \in SUBSET User
      BY <1>4 DEF Unlink, IdInv, TypeOK
    <2> QED BY <1>4, <2>1, <2>2, FilesKeepIds DEF Unlink
  <1>5. CASE SaveNotOpened \/ SaveNotWritten
    BY <1>1, <1>5, ControlKeepsIds DEF SaveNotOpened, SaveNotWritten
  <1> QED BY <1>2, <1>3, <1>4, <1>5

LEMMA StartKeepsIds ==
  ASSUME IdInv, Restart \/ Crash
  PROVE  IdInv'
  BY ReloadKeepsIds, StorageAssumption
     DEF Restart, Crash, IdInv, TypeOK, SavedIdsUnique, disk, PC, Kind, Ret

(* A file operation that stops half-way changes one file and no index. *)
LEMMA HalfKeepsIds ==
  ASSUME IdInv, Half
  PROVE  IdInv'
  <1>1. ASSUME NEW u \in User, CreateHalf(u)
        PROVE  IdInv'
    <2>1. pc' \in PC /\ kind' \in Kind /\ cur' \in User /\ ret' \in Ret
      BY <1>1, ProceedTypes DEF CreateHalf, Kind, PC
    <2>2. file' \in [User -> Seq(Cell)] /\ hasFile' \in SUBSET User
      <3>1. /\ <<>> \in Seq(Cell) /\ <<Torn>> \in Seq(Cell)
            /\ <<[id |-> 0, msg |-> Welcome]>> \in Seq(Cell)
        BY CellTypes, Zero DEF Message
      <3>2. PICK left \in Seq(Cell) : file' = [file EXCEPT ![u] = left]
        BY <1>1, <3>1 DEF CreateHalf
      <3> QED BY <1>1, <3>2 DEF CreateHalf, IdInv, TypeOK
    <2> QED BY <1>1, <2>1, <2>2, FilesKeepIds DEF CreateHalf
  <1>2. ASSUME NEW u \in User, WriteHalf(u)
        PROVE  IdInv'
    <2>1. pc' \in PC /\ kind' \in Kind /\ cur' \in User /\ ret' \in Ret
      BY <1>2, ProceedTypes DEF WriteHalf, Kind, PC
    <2>2. file' \in [User -> Seq(Cell)] /\ hasFile' \in SUBSET User
      BY <1>2 DEF WriteHalf, IdInv, TypeOK, Cell
    <2> QED BY <1>2, <2>1, <2>2, FilesKeepIds DEF WriteHalf, memory, saved
  <1>3. ASSUME NEW u \in User, NEW i \in DOMAIN index[u], DeleteHalf(u, i)
        PROVE  IdInv'
    <2>1. pc' \in PC /\ kind' \in Kind /\ cur' \in User /\ ret' \in Ret
      BY <1>3, ProceedTypes DEF DeleteHalf, Kind, PC
    <2>2. /\ file[u] \in Seq(Cell) /\ index[u] \in Seq(EnvId)
          /\ Len(file[u]) = Len(index[u])
      BY <1>3 DEF DeleteHalf, SizesAgree, IdInv, TypeOK
    <2>3. PICK n \in 0 .. (Len(index[u]) - i), broken \in SUBSET (i .. Len(index[u])) :
            file' = [file EXCEPT ![u] = Shifted(file[u], i, n, broken)]
      BY <1>3 DEF DeleteHalf
    <2>4. Shifted(file[u], i, n, broken) \in Seq(Cell)
      <3>1. ASSUME NEW k \in 1 .. Len(file[u])
            PROVE  Shifted(file[u], i, n, broken)[k] \in Cell
        <4>1. k \in i .. (i + n - 1) => k + 1 \in 1 .. Len(file[u])
          BY <2>2, <2>3
        <4>2. Mixed \in Cell
          BY DEF Cell
        <4> QED BY <2>2, <4>1, <4>2 DEF Shifted
      <3>2. DOMAIN Shifted(file[u], i, n, broken) = 1 .. Len(file[u])
        BY <2>2 DEF Shifted
      <3>3. Shifted(file[u], i, n, broken) \in [1 .. Len(file[u]) -> Cell]
        BY <3>1, <3>2 DEF Shifted
      <3> QED BY <2>2, <3>3
    <2>5. file' \in [User -> Seq(Cell)] /\ hasFile' \in SUBSET User
      BY <1>3, <2>3, <2>4 DEF DeleteHalf, IdInv, TypeOK
    <2> QED BY <1>3, <2>1, <2>5, FilesKeepIds DEF DeleteHalf, memory, saved
  <1>4. ASSUME NEW u \in User, EmptyHalf(u)
        PROVE  IdInv'
    <2>1. pc' \in PC /\ kind' \in Kind /\ cur' \in User /\ ret' \in Ret
      BY <1>4, ProceedTypes DEF EmptyHalf, Kind, PC
    <2>2. file' \in [User -> Seq(Cell)] /\ hasFile' \in SUBSET User
      <3>1. <<>> \in Seq(Cell) /\ <<Torn>> \in Seq(Cell)
        BY DEF Cell
      <3>3. [k \in DOMAIN index[u] |-> Mixed] \in Seq(Cell)
        <4>1. Len(index[u]) \in Nat /\ DOMAIN index[u] = 1 .. Len(index[u])
          BY DEF IdInv, TypeOK
        <4> QED BY <4>1 DEF Cell
      <3>2. PICK left \in Seq(Cell) : file' = [file EXCEPT ![u] = left]
        BY <1>4, <3>1, <3>3 DEF EmptyHalf
      <3> QED BY <1>4, <3>2 DEF EmptyHalf, IdInv, TypeOK
    <2> QED BY <1>4, <2>1, <2>2, FilesKeepIds DEF EmptyHalf, memory, saved
  <1> QED BY <1>1, <1>2, <1>3, <1>4 DEF Half

LEMMA AnswersKeepIds ==
  ASSUME IdInv, FailureAnswered \/ NotUnlinked
  PROVE  IdInv'
  BY AnswerTypes, ControlKeepsIds DEF FailureAnswered, NotUnlinked, Ret

(* The steps of FaultSpec without its counters. *)
AnyStep ==
  \/ Next \/ Half \/ Crash
  \/ FailureAnswered \/ NotUnlinked
  \/ SaveNotOpened \/ SaveNotWritten

LEMMA FaultsAreSteps == [FaultNext]_allVars => [AnyStep]_vars
  BY DEF FaultNext, AnyStep, allVars

LEMMA IdInvStep == IdInv /\ [AnyStep]_vars => IdInv'
  <1> SUFFICES ASSUME IdInv, [AnyStep]_vars PROVE IdInv'
    OBVIOUS
  <1>1. ASSUME NEW u \in User, Create(u) PROVE IdInv'
    BY <1>1, CreateKeepsIds
  <1>2. ASSUME NEW u \in User, NEW m \in Msg, Write(u, m) PROVE IdInv'
    BY <1>2, WriteKeepsIds
  <1>3. ASSUME NEW u \in User, NEW id \in EnvId, Delete(u, id) PROVE IdInv'
    BY <1>3, DeleteKeepsIds
  <1>4. ASSUME NEW u \in User, Empty(u) PROVE IdInv'
    BY <1>4, EmptyKeepsIds
  <1>5. ASSUME NEW u \in User, Drop(u) PROVE IdInv'
    BY <1>5, DropKeepsIds
  <1>6. CASE SaveTruncate \/ SaveWrite \/ Unlink \/ SaveNotOpened \/ SaveNotWritten
    BY <1>6, SaveKeepsIds
  <1>7. CASE Restart \/ Crash
    BY <1>7, StartKeepsIds
  <1>8. CASE Half
    BY <1>8, HalfKeepsIds
  <1>9. CASE FailureAnswered \/ NotUnlinked
    BY <1>9, AnswersKeepIds
  <1>10. CASE UNCHANGED vars
    BY <1>10 DEF vars, IdInv, TypeOK, IdsUnique, SavedIdsUnique
  <1> QED BY <1>1, <1>2, <1>3, <1>4, <1>5, <1>6, <1>7, <1>8, <1>9, <1>10
          DEF AnyStep, Next

LEMMA IdInvHolds == FaultSpec => []IdInv
  BY IdInvInit, IdInvStep, FaultsAreSteps, PTL DEF FaultSpec

(* Every value stays of its type, whatever fails and whenever it does. *)
THEOREM TypeCorrect == FaultSpec => []TypeOK
  BY IdInvHolds, PTL DEF IdInv

(* The envelope ids of a mailbox are always different: an id in a          *)
(* Message/Delete request means one envelope, after any failures, crashes  *)
(* and starts, and even when stindex_count wraps.                          *)
THEOREM IdsAlwaysUnique == FaultSpec => []IdsUnique
  BY IdInvHolds, PTL DEF IdInv

-----------------------------------------------------------------------------
(* Stindex.aem, under all faults.                                          *)

(* DiskCurrent says nothing of the user whose mailbox is being dropped      *)
(* between the save and the unlinking; then, too, the save is done.        *)
Current ==
  diskOk /\ ~missed =>
    /\ \A u \in User \ {cur} : diskIndex[u] = index[u]
    /\ pc \in {"idle", "failed", "unlink"} => diskIndex[cur] = index[cur]

LEMMA RequestKeepsCurrent ==
  ASSUME IdInv, Current, Idle, NEW u \in User, cur' = u, pc' = "save",
         \A v \in User \ {u} : index'[v] = index[v],
         UNCHANGED <<saved, missed>>
  PROVE  Current'
  <1>1. cur \in User
    BY DEF IdInv, TypeOK
  <1> QED BY <1>1 DEF Current, Idle, saved

LEMMA SameIndexKeepsCurrent ==
  ASSUME IdInv, Current, pc \in {"idle", "failed", "unlink"}, cur' \in User,
         UNCHANGED <<index, saved>>, missed' = missed
  PROVE  Current'
  <1>1. cur \in User
    BY DEF IdInv, TypeOK
  <1> QED BY <1>1 DEF Current, saved

LEMMA LoadedIsCurrent == ASSUME Reload, UNCHANGED saved PROVE Current'
  BY DEF Current, Reload, Loaded, saved, Answer

(* In a step that is no start, of a process that is not saving. *)
LEMMA MissedKept ==
  ASSUME missed' = Missed, missed \in BOOLEAN, pc # "saving", ret' # "restart"
  PROVE  missed' = missed
  BY DEF Missed

LEMMA AnswerKeepsCurrent ==
  ASSUME IdInv, Current, missed \in BOOLEAN, missed' = Missed,
         pc \in {"idle", "failed", "unlink"},
         NEW r \in Ret \ {"restart"}, Answer(r), UNCHANGED <<index, saved>>
  PROVE  Current'
  <1>1. cur' \in User /\ ret' # "restart"
    BY StorageAssumption DEF Answer
  <1> QED BY <1>1, MissedKept, SameIndexKeepsCurrent

LEMMA RefuseKeepsCurrent ==
  ASSUME IdInv, Current, missed \in BOOLEAN, missed' = Missed, Idle,
         NEW r \in Ret \ {"restart"}, Refuse(r)
  PROVE  Current'
  BY AnswerKeepsCurrent DEF Refuse, Idle, memory, disk, saved

LEMMA RequestsKeepCurrent ==
  ASSUME IdInv, Current, missed \in BOOLEAN, missed' = Missed, NEW u \in User,
         \/ Create(u) \/ Empty(u) \/ Drop(u)
         \/ \E m \in Msg : Write(u, m)
         \/ \E id \in EnvId : Delete(u, id)
  PROVE  Current'
  <1> USE DEF Ret
  <1>1. index \in [User -> Seq(EnvId)] /\ Idle
    BY DEF IdInv, TypeOK, Create, Empty, Drop, Write, Delete
  <1>2. ASSUME NEW k, Proceed(k, u, "save"), UNCHANGED saved,
               \A v \in User \ {u} : index'[v] = index[v]
        PROVE  Current'
    <2>1. missed' = missed
      BY <1>1, <1>2, MissedKept DEF Proceed, Idle
    <2> QED BY <1>1, <1>2, <2>1, RequestKeepsCurrent DEF Proceed
  <1>3. CASE Create(u)
    BY <1>1, <1>2, <1>3, RefuseKeepsCurrent DEF Create
  <1>4. ASSUME NEW m \in Msg, Write(u, m) PROVE Current'
    BY <1>1, <1>2, <1>4, RefuseKeepsCurrent DEF Write
  <1>5. ASSUME NEW id \in EnvId, Delete(u, id) PROVE Current'
    BY <1>1, <1>2, <1>5, RefuseKeepsCurrent DEF Delete
  <1>6. CASE Empty(u)
    BY <1>1, <1>2, <1>6, RefuseKeepsCurrent, LoadedIsCurrent DEF Empty
  <1>7. CASE Drop(u)
    <2>1. CASE Answer("ok") /\ UNCHANGED <<memory, saved>>
      BY <1>1, <2>1, AnswerKeepsCurrent DEF memory, Idle
    <2>2. CASE /\ index' = [index EXCEPT ![u] = <<>>]
               /\ Proceed("drop", u, "save")
               /\ UNCHANGED disk
      BY <1>1, <1>2, <2>2 DEF disk, saved
    <2> QED BY <1>7, <2>1, <2>2 DEF Drop
  <1> QED BY <1>3, <1>4, <1>5, <1>6, <1>7

LEMMA HalfKeepsCurrent ==
  ASSUME IdInv, Current, missed \in BOOLEAN, missed' = Missed, Half
  PROVE  Current'
  <1>1. PICK u \in User : /\ Idle
                          /\ \E k \in Kind : Proceed(k, u, "failed")
                          /\ UNCHANGED <<memory, saved>>
    BY DEF Half, CreateHalf, WriteHalf, DeleteHalf, EmptyHalf, Kind
  <1>2. cur' = u /\ ret' # "restart" /\ UNCHANGED <<index, saved>>
    BY <1>1 DEF Proceed, memory
  <1> QED BY <1>1, <1>2, MissedKept, SameIndexKeepsCurrent DEF Idle

LEMMA SaveKeepsCurrent ==
  ASSUME IdInv, Current, missed \in BOOLEAN, missed' = Missed,
         SaveTruncate \/ SaveWrite \/ Unlink
  PROVE  Current'
  <1>1. CASE SaveTruncate
    BY <1>1 DEF SaveTruncate, Current
  <1>2. CASE SaveWrite
    BY <1>2 DEF SaveWrite, Current, memory
  <1>3. CASE Unlink
    <2>1. PICK r \in Ret \ {"restart"} : Answer(r)
      BY <1>3 DEF Unlink, Ret
    <2> QED BY <1>3, <2>1, AnswerKeepsCurrent DEF Unlink, memory
  <1> QED BY <1>1, <1>2, <1>3

DiskInv == IdInv /\ missed \in BOOLEAN /\ Current

LEMMA CurrentStep ==
  ASSUME DiskInv, [FaultNext]_allVars
  PROVE  Current'
  <1>1. IdInv /\ Current /\ missed \in BOOLEAN
    BY DEF DiskInv
  <1>2. CASE (Next \/ Half \/ Crash) /\ missed' = Missed
    <2>1. ASSUME NEW u \in User,
                 \/ Create(u) \/ Empty(u) \/ Drop(u)
                 \/ \E m \in Msg : Write(u, m)
                 \/ \E id \in EnvId : Delete(u, id)
          PROVE  Current'
      BY <1>1, <1>2, <2>1, RequestsKeepCurrent
    <2>2. CASE SaveTruncate \/ SaveWrite \/ Unlink
      BY <1>1, <1>2, <2>2, SaveKeepsCurrent
    <2>3. CASE Restart \/ Crash
      BY <2>3, LoadedIsCurrent DEF Restart, Crash, disk, saved
    <2>4. CASE Half
      BY <1>1, <1>2, <2>4, HalfKeepsCurrent
    <2> QED BY <1>2, <2>1, <2>2, <2>3, <2>4 DEF Next
  <1>3. CASE (FailureAnswered \/ NotUnlinked) /\ missed' = Missed
    <2>1. /\ \E r \in Ret \ {"restart"} : Answer(r)
          /\ pc \in {"idle", "failed", "unlink"}
          /\ UNCHANGED <<index, saved>>
      BY <1>3 DEF FailureAnswered, NotUnlinked, Ret, Idle, memory, disk, saved
    <2> QED BY <1>1, <1>3, <2>1, AnswerKeepsCurrent
  <1>4. CASE missed' = TRUE
    BY <1>4 DEF Current
  <1>5. CASE UNCHANGED allVars
    BY <1>1, <1>5 DEF allVars, vars, Current
  <1> QED BY <1>2, <1>3, <1>4, <1>5 DEF FaultNext

LEMMA DiskInvStep == DiskInv /\ [FaultNext]_allVars => DiskInv'
  <1> SUFFICES ASSUME DiskInv, [FaultNext]_allVars PROVE DiskInv'
    OBVIOUS
  <1>1. IdInv'
    BY IdInvStep, FaultsAreSteps DEF DiskInv
  <1>2. missed' \in BOOLEAN
    BY DEF DiskInv, FaultNext, Missed, allVars
  <1> QED BY <1>1, <1>2, CurrentStep DEF DiskInv

(* Wherever the process ends, and whatever else fails: unless saveStindex   *)
(* itself has failed, Stindex.aem, when it can be read, is up to date but   *)
(* for the request in progress.                                            *)
THEOREM DiskAlwaysCurrent == FaultSpec => []DiskCurrent
  <1>1. Init /\ missed = FALSE => DiskInv
    BY IdInvInit DEF Init, DiskInv, Current
  <1>2. DiskInv => DiskCurrent
    BY DEF DiskInv, Current, DiskCurrent
  <1> QED BY <1>1, <1>2, DiskInvStep, PTL DEF FaultSpec

-----------------------------------------------------------------------------
(* Files and index, as long as file operations succeed and stindex_count    *)
(* does not wrap.                                                          *)

NoWrap == MaxCells < IdCount

(* FileMatchesIndex for one user, without the nested quantifier. *)
Matches(u) ==
  index[u] # <<>> =>
    /\ u \in hasFile
    /\ Len(file[u]) = Len(index[u])
    /\ \A i \in DOMAIN index[u] : file[u][i] \in Envelope /\ file[u][i].id = index[u][i]

(* storage_empty uses the arrays of a user who has a file, other requests   *)
(* those of a user who has an index; the only freed ones left belong to    *)
(* the mailbox that is being dropped, or to one without a file.            *)
AllocOk(u) ==
  /\ index[u] # <<>> => alloc[u] = "live"
  /\ alloc[u] = "freed" /\ u \in hasFile => pc # "idle" /\ kind = "drop" /\ cur = u

(* A start finds the index that was in memory because none happens between  *)
(* the steps of a request; and what a dropped mailbox leaves of its file   *)
(* does no harm because its index is empty.                                *)
SInv ==
  /\ IdInv
  /\ \A u \in User : Matches(u)
  /\ \A u \in User : AllocOk(u)
  /\ pc \in {"idle", "save", "saving", "unlink"}
  /\ SavedWhenIdle
  /\ pc = "unlink" => diskOk /\ diskIndex = index /\ kind = "drop"
  /\ pc # "idle" /\ kind = "drop" => index[cur] = <<>>

LEMMA MatchesIsEnough ==
  ASSUME IdInv, \A u \in User : Matches(u)
  PROVE  FileMatchesIndex
  <1> SUFFICES ASSUME NEW u \in User, index[u] # <<>>
               PROVE  /\ u \in hasFile
                      /\ Len(file[u]) = Len(index[u])
                      /\ \A i \in DOMAIN index[u] : Readable(u, i)
    BY DEF FileMatchesIndex
  <1>1. index[u] \in Seq(EnvId) /\ file[u] \in Seq(Cell)
    BY DEF IdInv, TypeOK
  <1>2. /\ u \in hasFile
        /\ Len(file[u]) = Len(index[u])
        /\ \A i \in DOMAIN index[u] : file[u][i] \in Envelope /\ file[u][i].id = index[u][i]
    BY DEF Matches
  <1>3. ASSUME NEW i \in DOMAIN index[u] PROVE Readable(u, i)
    <2>1. DOMAIN index[u] = 1 .. Len(index[u]) /\ DOMAIN file[u] = 1 .. Len(file[u])
      BY <1>1
    <2>2. \A k \in 1 .. i : k \in DOMAIN index[u]
      BY <1>1, <2>1
    <2> QED BY <1>2, <2>1, <2>2, TornAssumption DEF Readable
  <1> QED BY <1>2, <1>3

LEMMA SInvInit == Init => SInv
  <1> SUFFICES ASSUME Init PROVE SInv
    OBVIOUS
  <1>1. IdInv
    BY IdInvInit
  <1>2. ASSUME NEW u \in User PROVE Matches(u)
    <2>1. [id |-> 0, msg |-> Welcome] \in Envelope
      BY Zero DEF Envelope, Message
    <2>2. CASE u = MasterAdmin
      BY <2>1, <2>2 DEF Init, Matches
    <2>3. CASE u # MasterAdmin
      BY <2>3 DEF Init, Matches
    <2> QED BY <2>2, <2>3
  <1>3. ASSUME NEW u \in User PROVE AllocOk(u)
    BY DEF Init, AllocOk
  <1> QED BY <1>1, <1>2, <1>3 DEF SInv, Init, SavedWhenIdle

(* A request that changes u's mailbox only and has the index saved next. *)
LEMMA OneMailboxKeepsMatch ==
  ASSUME SInv, IdInv', NEW u \in User,
         index' = [index EXCEPT ![u] = index'[u]],
         file' = [file EXCEPT ![u] = file'[u]],
         alloc' = [alloc EXCEPT ![u] = alloc'[u]],
         \A v \in User \ {u} : v \in hasFile <=> v \in hasFile',
         Matches(u)', AllocOk(u)',
         pc = "idle", pc' = "save", cur' = u, kind' = "drop" => index'[u] = <<>>
  PROVE  SInv'
  <1>1. ASSUME NEW v \in User PROVE Matches(v)'
    <2>1. CASE v = u
      BY <2>1
    <2>2. CASE v # u
      <3>1. index'[v] = index[v] /\ file'[v] = file[v]
        BY <2>2 DEF SInv, IdInv, TypeOK
      <3>2. Matches(v)
        BY DEF SInv
      <3> QED BY <2>2, <3>1, <3>2 DEF Matches
    <2> QED BY <2>1, <2>2
  <1>2. ASSUME NEW v \in User PROVE AllocOk(v)'
    <2>1. CASE v = u
      BY <2>1
    <2>2. CASE v # u
      <3>1. index'[v] = index[v] /\ alloc'[v] = alloc[v]
        BY <2>2 DEF SInv, IdInv, TypeOK
      <3>2. AllocOk(v)
        BY DEF SInv
      <3> QED BY <2>2, <3>1, <3>2 DEF AllocOk
    <2> QED BY <2>1, <2>2
  <1> QED BY <1>1, <1>2 DEF SInv, SavedWhenIdle

LEMMA RefuseKeepsSInv ==
  ASSUME SInv, IdInv', pc = "idle", NEW r, Refuse(r)
  PROVE  SInv'
  BY DEF SInv, Matches, AllocOk, SavedWhenIdle, Refuse, Answer, memory, disk

LEMMA CreateKeepsSInv ==
  ASSUME SInv, IdInv', NEW u \in User, Create(u)
  PROVE  SInv'
  <1>1. CASE \E r \in {"exist", "err"} : Refuse(r)
    BY <1>1, RefuseKeepsSInv DEF Create, Idle
  <1>2. CASE /\ file' = [file EXCEPT ![u] = <<[id |-> 0, msg |-> Welcome]>>]
             /\ hasFile' = hasFile \cup {u}
             /\ index' = [index EXCEPT ![u] = << 0 >>]
             /\ alloc' = [alloc EXCEPT ![u] = "live"]
             /\ Proceed("create", u, "save")
             /\ pc = "idle"
    <2>1. [id |-> 0, msg |-> Welcome] \in Envelope
      BY Zero DEF Envelope, Message
    <2>2. index'[u] = << 0 >> /\ file'[u] = <<[id |-> 0, msg |-> Welcome]>>
      BY <1>2 DEF SInv, IdInv, TypeOK
    <2>3. Matches(u)'
      <3>1. Len(index'[u]) = 1 /\ Len(file'[u]) = 1 /\ DOMAIN index'[u] = {1}
        BY <2>2
      <3>2. index'[u][1] = 0 /\ file'[u][1] = [id |-> 0, msg |-> Welcome]
        BY <2>2
      <3>3. file'[u][1] \in Envelope /\ file'[u][1].id = index'[u][1]
        BY <3>2, <2>1
      <3>4. u \in hasFile'
        BY <1>2
      <3> QED BY <3>1, <3>3, <3>4 DEF Matches
    <2>4. pc' = "save" /\ cur' = u /\ kind' = "create"
      BY <1>2 DEF Proceed
    <2>5. alloc'[u] = "live"
      BY <1>2 DEF SInv, IdInv, TypeOK
    <2>6. AllocOk(u)'
      BY <2>5 DEF AllocOk
    <2> QED BY <1>2, <2>2, <2>3, <2>4, <2>5, <2>6, OneMailboxKeepsMatch
  <1> QED BY <1>1, <1>2 DEF Create, Idle

LEMMA WriteKeepsSInv ==
  ASSUME NoWrap, SInv, IdInv', NEW u \in User, NEW m \in Msg, Write(u, m)
  PROVE  SInv'
  <1>1. CASE Refuse("err")
    BY <1>1, RefuseKeepsSInv DEF Write, Idle
  <1>2. ASSUME pc = "idle", index[u] # <<>>, u \in hasFile, Room(u),
               NEW id \in UnusedIds(u),
               file' = [file EXCEPT ![u] = Append(@, [id |-> id, msg |-> m])],
               index' = [index EXCEPT ![u] = AddEntry(@, id)],
               Proceed("write", u, "save"),
               UNCHANGED <<alloc, hasFile, saved>>
        PROVE  SInv'
    <2> DEFINE e == [id |-> id, msg |-> m]
    <2>1. e \in Envelope /\ e.id = id
      <3>1. id \in EnvId /\ m \in Message
        BY <1>2 DEF UnusedIds, Message
      <3> QED BY <3>1 DEF Envelope
    <2>2. index[u] \in Seq(EnvId) /\ file[u] \in Seq(Cell)
      BY DEF SInv, IdInv, TypeOK
    <2>3. AddEntry(index[u], id) = Append(index[u], id)
      BY <1>2, <2>2, StorageAssumption DEF NoWrap, Room, AddEntry
    <2>4. index'[u] = Append(index[u], id) /\ file'[u] = Append(file[u], e)
      BY <1>2, <2>3 DEF SInv, IdInv, TypeOK
    <2>5. /\ Len(file[u]) = Len(index[u])
          /\ \A i \in DOMAIN index[u] : file[u][i] \in Envelope /\ file[u][i].id = index[u][i]
      BY <1>2 DEF SInv, Matches
    <2> HIDE DEF e
    <2>6. Matches(u)'
      <3>1. Len(file'[u]) = Len(index'[u])
        BY <2>2, <2>4, <2>5
      <3>2. ASSUME NEW i \in DOMAIN index'[u]
            PROVE  file'[u][i] \in Envelope /\ file'[u][i].id = index'[u][i]
        <4>1. CASE i = Len(index[u]) + 1
          BY <2>1, <2>2, <2>4, <2>5, <4>1
        <4>2. CASE i # Len(index[u]) + 1
          <5>1. i \in DOMAIN index[u]
            BY <2>2, <2>4, <4>2
          <5> QED BY <2>2, <2>4, <2>5, <5>1
        <4> QED BY <4>1, <4>2
      <3> QED BY <1>2, <3>1, <3>2 DEF Matches
    <2>7. pc' = "save" /\ cur' = u /\ kind' = "write"
      BY <1>2 DEF Proceed
    <2>8. /\ index' = [index EXCEPT ![u] = index'[u]]
          /\ file' = [file EXCEPT ![u] = file'[u]]
      BY <1>2, <2>3, <2>4 DEF e
    <2>9. AllocOk(u)' /\ alloc' = [alloc EXCEPT ![u] = alloc'[u]]
      <3>1. alloc[u] = "live" /\ alloc' = alloc
        BY <1>2 DEF SInv, AllocOk
      <3>2. alloc' = [alloc EXCEPT ![u] = alloc'[u]]
        BY <3>1 DEF SInv, IdInv, TypeOK
      <3> QED BY <3>1, <3>2 DEF AllocOk
    <2> QED BY <1>2, <2>6, <2>7, <2>8, <2>9, OneMailboxKeepsMatch
  <1> QED BY <1>1, <1>2 DEF Write, Idle

LEMMA DeleteKeepsSInv ==
  ASSUME SInv, IdInv', NEW u \in User, NEW id \in EnvId, Delete(u, id)
  PROVE  SInv'
  <1>1. CASE \E r \in {"err", "notexist"} : Refuse(r)
    BY <1>1, RefuseKeepsSInv DEF Delete, Idle
  <1>2. ASSUME pc = "idle", u \in hasFile, SizesAgree(u),
               NEW i \in DOMAIN index[u],
               file' = [file EXCEPT ![u] = RemoveAt(@, i)],
               index' = [index EXCEPT ![u] = RemoveAt(@, i)],
               Proceed("delete", u, "save"),
               UNCHANGED <<alloc, hasFile, saved>>
        PROVE  SInv'
    <2>1. index[u] \in Seq(EnvId) /\ file[u] \in Seq(Cell)
      BY DEF SInv, IdInv, TypeOK
    <2>2. index'[u] = RemoveAt(index[u], i) /\ file'[u] = RemoveAt(file[u], i)
      BY <1>2 DEF SInv, IdInv, TypeOK
    <2>3. /\ Len(file[u]) = Len(index[u])
          /\ \A k \in DOMAIN index[u] : file[u][k] \in Envelope /\ file[u][k].id = index[u][k]
      BY <1>2, <2>1 DEF SInv, Matches
    <2>4. /\ index'[u] \in Seq(EnvId)
          /\ Len(index'[u]) = Len(index[u]) - 1
          /\ \A k \in 1 .. (Len(index[u]) - 1) :
               index'[u][k] = IF k < i THEN index[u][k] ELSE index[u][k + 1]
      BY <2>1, <2>2, RemoveAtProperties
    <2>5. /\ Len(file'[u]) = Len(file[u]) - 1
          /\ \A k \in 1 .. (Len(file[u]) - 1) :
               file'[u][k] = IF k < i THEN file[u][k] ELSE file[u][k + 1]
      <3>1. i \in DOMAIN file[u]
        BY <2>1, <2>3
      <3> QED BY <2>1, <2>2, <3>1, RemoveAtProperties, ZenonT(60)
    <2>6. Matches(u)'
      <3>1. Len(file'[u]) = Len(index'[u])
        BY <2>3, <2>4, <2>5
      <3>2. ASSUME NEW k \in DOMAIN index'[u]
            PROVE  file'[u][k] \in Envelope /\ file'[u][k].id = index'[u][k]
        <4>1. k \in 1 .. (Len(index[u]) - 1) /\ DOMAIN index[u] = 1 .. Len(index[u])
          BY <2>1, <2>4
        <4>2. k \in DOMAIN index[u] /\ k + 1 \in DOMAIN index[u]
          BY <2>1, <4>1
        <4>3. CASE k < i
          BY <2>3, <2>4, <2>5, <4>1, <4>2, <4>3
        <4>4. CASE ~(k < i)
          <5>1. file'[u][k] = file[u][k + 1] /\ index'[u][k] = index[u][k + 1]
            BY <2>3, <2>4, <2>5, <4>1, <4>4
          <5> QED BY <2>3, <4>2, <5>1
        <4> QED BY <4>3, <4>4
      <3> QED BY <1>2, <3>1, <3>2 DEF Matches
    <2>7. pc' = "save" /\ cur' = u /\ kind' = "delete"
      BY <1>2 DEF Proceed
    <2>8. /\ index' = [index EXCEPT ![u] = index'[u]]
          /\ file' = [file EXCEPT ![u] = file'[u]]
      BY <1>2, <2>2
    <2>9. index[u] # <<>>
      BY <1>2, <2>1
    <2>10. AllocOk(u)' /\ alloc' = [alloc EXCEPT ![u] = alloc'[u]]
      <3>1. alloc[u] = "live" /\ alloc' = alloc
        BY <1>2, <2>9 DEF SInv, AllocOk
      <3>2. alloc' = [alloc EXCEPT ![u] = alloc'[u]]
        BY <3>1 DEF SInv, IdInv, TypeOK
      <3> QED BY <3>1, <3>2 DEF AllocOk
    <2> QED BY <1>2, <2>6, <2>7, <2>8, <2>10, OneMailboxKeepsMatch
  <1> QED BY <1>1, <1>2 DEF Delete, Idle

(* A start between requests brings back the index that was in memory. *)
LEMMA IdleReload ==
  ASSUME SInv, pc = "idle", Reload
  PROVE  index' = index /\ pc' = "idle" /\ kind' = "none"
  BY DEF SInv, SavedWhenIdle, Reload, Loaded, Answer

LEMMA ReloadAlloc ==
  ASSUME Reload, NEW u \in User
  PROVE  alloc'[u] = IF index'[u] # <<>> THEN "live" ELSE "null"
  BY DEF Reload

LEMMA EmptyKeepsSInv ==
  ASSUME SInv, IdInv', NEW u \in User, Empty(u)
  PROVE  SInv'
  <1>1. CASE Refuse("err")
    BY <1>1, RefuseKeepsSInv DEF Empty, Idle
  <1>2. [id |-> 0, msg |-> Emptied] \in Envelope
    BY Zero DEF Envelope, Message
  <1>3. ASSUME pc = "idle", u \in hasFile, alloc[u] # "null",
               file' = [file EXCEPT ![u] = <<[id |-> 0, msg |-> Emptied]>>],
               index' = [index EXCEPT ![u] = << 0 >>],
               Proceed("empty", u, "save"),
               UNCHANGED alloc, UNCHANGED <<hasFile, saved>>
        PROVE  SInv'
    <2>1. index'[u] = << 0 >> /\ file'[u] = <<[id |-> 0, msg |-> Emptied]>>
      BY <1>3 DEF SInv, IdInv, TypeOK
    <2>2. Matches(u)'
      <3>1. Len(index'[u]) = 1 /\ Len(file'[u]) = 1 /\ DOMAIN index'[u] = {1}
        BY <2>1
      <3>2. index'[u][1] = 0 /\ file'[u][1] = [id |-> 0, msg |-> Emptied]
        BY <2>1
      <3>3. file'[u][1] \in Envelope /\ file'[u][1].id = index'[u][1]
        BY <3>2, <1>2
      <3>4. u \in hasFile'
        BY <1>3
      <3> QED BY <3>1, <3>3, <3>4 DEF Matches
    <2>3. pc' = "save" /\ cur' = u /\ kind' = "empty"
      BY <1>3 DEF Proceed
    <2>4. AllocOk(u)' /\ alloc' = [alloc EXCEPT ![u] = alloc'[u]]
      <3>1. alloc[u] = "live" /\ alloc' = alloc
        BY <1>3 DEF SInv, IdInv, TypeOK, Alloc, AllocOk
      <3>2. alloc' = [alloc EXCEPT ![u] = alloc'[u]]
        BY <3>1 DEF SInv, IdInv, TypeOK
      <3> QED BY <3>1, <3>2 DEF AllocOk
    <2> QED BY <1>3, <2>1, <2>2, <2>3, <2>4, OneMailboxKeepsMatch
  <1>4. ASSUME pc = "idle", u \in hasFile,
               file' = [file EXCEPT ![u] = <<[id |-> 0, msg |-> Emptied]>>],
               alloc[u] # "live",
               Reload, UNCHANGED <<hasFile, saved>>
        PROVE  SInv'
    <2>1. index' = index /\ pc' = "idle" /\ kind' = "none"
      BY <1>4, IdleReload
    <2>2. ASSUME NEW v \in User PROVE Matches(v)'
      <3>1. CASE v = u
        BY <1>4, <2>1, <3>1 DEF SInv, AllocOk, Matches
      <3>2. CASE v # u
        <4>1. file'[v] = file[v] /\ Matches(v)
          BY <1>4, <3>2 DEF SInv, IdInv, TypeOK
        <4> QED BY <1>4, <2>1, <4>1 DEF Matches
      <3> QED BY <3>1, <3>2
    <2>3. ASSUME NEW v \in User PROVE AllocOk(v)'
      BY <2>1, <1>4, ReloadAlloc DEF AllocOk
    <2> QED BY <1>4, <2>1, <2>2, <2>3 DEF SInv, SavedWhenIdle, saved
  <1> QED BY <1>1, <1>3, <1>4 DEF Empty, Idle

LEMMA DropKeepsSInv ==
  ASSUME SInv, IdInv', NEW u \in User, Drop(u)
  PROVE  SInv'
  <1>1. CASE /\ pc = "idle" /\ index[u] = <<>>
             /\ file' = [file EXCEPT ![u] = <<>>]
             /\ hasFile' = hasFile \ {u}
             /\ Answer("ok")
             /\ UNCHANGED <<memory, saved>>
    <2>1. ASSUME NEW v \in User PROVE Matches(v)' /\ AllocOk(v)'
      <3>1. v # u => file'[v] = file[v]
        BY <1>1 DEF SInv, IdInv, TypeOK
      <3>2. Matches(v) /\ AllocOk(v)
        BY DEF SInv
      <3> QED BY <1>1, <3>1, <3>2 DEF Matches, AllocOk, memory
    <2> QED BY <1>1, <2>1 DEF SInv, SavedWhenIdle, Answer, memory, saved
  <1>2. CASE /\ pc = "idle" /\ index[u] # <<>>
             /\ index' = [index EXCEPT ![u] = <<>>]
             /\ alloc' = [alloc EXCEPT ![u] = "freed"]
             /\ Proceed("drop", u, "save")
             /\ UNCHANGED disk
    <2>1. index'[u] = <<>> /\ alloc'[u] = "freed"
      BY <1>2 DEF SInv, IdInv, TypeOK
    <2>2. file' = file /\ hasFile' = hasFile
      BY <1>2 DEF disk
    <2>3. file' = [file EXCEPT ![u] = file'[u]]
      BY <2>2 DEF SInv, IdInv, TypeOK
    <2>4. pc' = "save" /\ cur' = u /\ kind' = "drop"
      BY <1>2 DEF Proceed
    <2>5. Matches(u)' /\ AllocOk(u)'
      BY <2>1, <2>4 DEF Matches, AllocOk
    <2> QED BY <1>2, <2>1, <2>2, <2>3, <2>4, <2>5, OneMailboxKeepsMatch
  <1> QED BY <1>1, <1>2 DEF Drop, Idle

LEMMA SaveKeepsSInv ==
  ASSUME SInv, IdInv', SaveTruncate \/ SaveWrite
  PROVE  SInv'
  <1>1. index' = index /\ alloc' = alloc /\ file' = file /\ hasFile' = hasFile /\ pc # "idle"
    BY DEF SaveTruncate, SaveWrite, memory, files
  <1>2. ASSUME NEW u \in User PROVE Matches(u)'
    BY <1>1 DEF SInv, Matches
  <1>3. CASE SaveTruncate
    <2>1. ASSUME NEW u \in User PROVE AllocOk(u)'
      BY <1>1, <1>3 DEF SInv, AllocOk, SaveTruncate, Proceed
    <2> QED BY <1>1, <1>2, <1>3, <2>1 DEF SInv, SaveTruncate, Proceed, SavedWhenIdle
  <1>4. CASE SaveWrite /\ kind = "drop"
    <2>1. ASSUME NEW u \in User PROVE AllocOk(u)'
      BY <1>1, <1>4 DEF SInv, AllocOk, SaveWrite, AfterSave, Proceed
    <2> QED BY <1>1, <1>2, <1>4, <2>1
            DEF SInv, SaveWrite, AfterSave, Proceed, SavedWhenIdle
  <1>5. CASE SaveWrite /\ kind # "drop"
    <2>1. ASSUME NEW u \in User PROVE AllocOk(u)'
      BY <1>1, <1>5 DEF SInv, AllocOk
    <2> QED BY <1>1, <1>2, <1>5, <2>1
            DEF SInv, SaveWrite, AfterSave, Answer, SavedWhenIdle
  <1> QED BY <1>3, <1>4, <1>5

LEMMA UnlinkKeepsSInv ==
  ASSUME SInv, IdInv', Unlink
  PROVE  SInv'
  <1>1. /\ pc = "unlink" /\ index[cur] = <<>> /\ cur \in User
        /\ file' = [file EXCEPT ![cur] = <<>>]
        /\ hasFile' = hasFile \ {cur}
        /\ index' = index /\ alloc' = alloc
        /\ diskOk' = diskOk /\ diskIndex' = diskIndex
        /\ pc' = "idle" /\ kind' = "none"
    BY DEF SInv, IdInv, TypeOK, Unlink, Answer, memory, saved
  <1>2. ASSUME NEW u \in User PROVE Matches(u)' /\ AllocOk(u)'
    <2>1. u # cur => file'[u] = file[u]
      BY <1>1 DEF SInv, IdInv, TypeOK
    <2>2. Matches(u) /\ AllocOk(u)
      BY DEF SInv
    <2> QED BY <1>1, <2>1, <2>2 DEF Matches, AllocOk
  <1> QED BY <1>1, <1>2 DEF SInv, SavedWhenIdle

LEMMA RestartKeepsSInv ==
  ASSUME SInv, IdInv', Restart
  PROVE  SInv'
  <1>1. index' = index /\ pc' = "idle" /\ kind' = "none"
    BY IdleReload DEF Restart, Idle
  <1>2. UNCHANGED disk
    BY DEF Restart
  <1>3. ASSUME NEW u \in User PROVE Matches(u)' /\ AllocOk(u)'
    <2>1. Matches(u)
      BY DEF SInv
    <2>2. alloc'[u] = IF index'[u] # <<>> THEN "live" ELSE "null"
      BY ReloadAlloc DEF Restart
    <2> QED BY <1>1, <1>2, <2>1, <2>2 DEF Matches, AllocOk, disk
  <1> QED BY <1>1, <1>2, <1>3 DEF SInv, SavedWhenIdle, Restart, Idle, disk

LEMMA SInvStep == NoWrap /\ SInv /\ [Next]_vars => SInv'
  <1> SUFFICES ASSUME NoWrap, SInv, [Next]_vars PROVE SInv'
    OBVIOUS
  <1>1. IdInv'
    BY IdInvStep DEF SInv, AnyStep
  <1>2. ASSUME NEW u \in User, Create(u) PROVE SInv'
    BY <1>1, <1>2, CreateKeepsSInv
  <1>3. ASSUME NEW u \in User, NEW m \in Msg, Write(u, m) PROVE SInv'
    BY <1>1, <1>3, WriteKeepsSInv
  <1>4. ASSUME NEW u \in User, NEW id \in EnvId, Delete(u, id) PROVE SInv'
    BY <1>1, <1>4, DeleteKeepsSInv
  <1>5. ASSUME NEW u \in User, Empty(u) PROVE SInv'
    BY <1>1, <1>5, EmptyKeepsSInv
  <1>6. ASSUME NEW u \in User, Drop(u) PROVE SInv'
    BY <1>1, <1>6, DropKeepsSInv
  <1>7. CASE SaveTruncate \/ SaveWrite
    BY <1>1, <1>7, SaveKeepsSInv
  <1>8. CASE Unlink
    BY <1>1, <1>8, UnlinkKeepsSInv
  <1>9. CASE Restart
    BY <1>1, <1>9, RestartKeepsSInv
  <1>10. CASE UNCHANGED vars
    BY <1>1, <1>10 DEF vars, SInv, SavedWhenIdle, Matches, AllocOk
  <1> QED BY <1>2, <1>3, <1>4, <1>5, <1>6, <1>7, <1>8, <1>9, <1>10 DEF Next

LEMMA SInvHolds == NoWrap => (Spec => []SInv)
  <1> SUFFICES ASSUME NoWrap PROVE Spec => []SInv
    OBVIOUS
  <1>1. SInv /\ [Next]_vars => SInv'
    BY SInvStep
  <1> QED BY SInvInit, <1>1, PTL DEF Spec

(* While file operations succeed and no mailbox reaches IdCount envelopes,  *)
(* every user's file holds the envelopes of the index, in its order.       *)
THEOREM FilesMatchIndex == NoWrap => (Spec => []FileMatchesIndex)
  <1> SUFFICES ASSUME NoWrap PROVE Spec => []FileMatchesIndex
    OBVIOUS
  <1>1. SInv => FileMatchesIndex
    BY MatchesIsEnough DEF SInv
  <1> QED BY SInvHolds, <1>1, PTL

(* Between requests Stindex.aem holds the index in memory. *)
THEOREM AlwaysSaved == NoWrap => (Spec => []SavedWhenIdle)
  <1> SUFFICES ASSUME NoWrap PROVE Spec => []SavedWhenIdle
    OBVIOUS
  <1>1. SInv => SavedWhenIdle
    BY DEF SInv
  <1> QED BY SInvHolds, <1>1, PTL

-----------------------------------------------------------------------------
(* Storage implements MailStore.  Each request changes the mailbox it names *)
(* in its first step; the saves, the unlink and a restart are invisible.   *)

Boxes == [u \in User |-> Mailbox(u)]

(* A step that leaves all other users' index and file alone. *)
LEMMA OneBox ==
  ASSUME IdInv, NEW u \in User,
         \A v \in User \ {u} : index'[v] = index[v],
         \A v \in User \ {u} : index[v] # <<>> => file'[v] = file[v]
  PROVE  Boxes' = [Boxes EXCEPT ![u] = Mailbox(u)']
  <1>1. ASSUME NEW v \in User, v # u PROVE Mailbox(v)' = Mailbox(v)
    BY <1>1 DEF Mailbox
  <1> QED BY <1>1 DEF Boxes

LEMMA EmptyBox ==
  ASSUME NEW u \in User, index[u] = <<>>
  PROVE  Mailbox(u) = <<>>
  BY DEF Mailbox

LEMMA SameBoxes ==
  ASSUME IdInv, index' = index,
         \A u \in User : index[u] # <<>> => file'[u] = file[u]
  PROVE  Boxes' = Boxes
  <1>1. ASSUME NEW u \in User PROVE Mailbox(u)' = Mailbox(u)
    BY DEF Mailbox
  <1> QED BY <1>1 DEF Boxes

LEMMA AppendAsFunction ==
  ASSUME NEW S, NEW s \in Seq(S), NEW e
  PROVE  Append(s, e) = [i \in 1 .. (Len(s) + 1) |-> IF i = Len(s) + 1 THEN e ELSE s[i]]
  <1>1. Append(s, e) \in Seq(S \cup {e}) /\ Len(Append(s, e)) = Len(s) + 1
    OBVIOUS
  <1>2. Append(s, e) \in [1 .. Len(Append(s, e)) -> S \cup {e}]
    BY <1>1, LenProperties
  <1>3. Append(s, e) \in [1 .. (Len(s) + 1) -> S \cup {e}]
    BY <1>1, <1>2
  <1>4. \A i \in 1 .. (Len(s) + 1) : Append(s, e)[i] = IF i = Len(s) + 1 THEN e ELSE s[i]
    OBVIOUS
  <1> QED BY <1>3, <1>4

LEMMA InitRefines == Init => Store!Init
  <1> SUFFICES ASSUME Init
               PROVE  Boxes = [u \in User |-> IF u = MasterAdmin THEN <<Welcome>> ELSE <<>>]
    BY DEF Store!Init, Boxes
  <1>1. ASSUME NEW u \in User, u = MasterAdmin PROVE Mailbox(u) = <<Welcome>>
    <2>1. index[u] = << 0 >> /\ file[u] = <<[id |-> 0, msg |-> Welcome]>>
      BY <1>1 DEF Init
    <2>2. DOMAIN index[u] = 1 .. 1 /\ file[u][1].msg = Welcome
      BY <2>1
    <2> QED BY <2>2 DEF Mailbox
  <1>2. ASSUME NEW u \in User, u # MasterAdmin PROVE Mailbox(u) = <<>>
    BY <1>2, EmptyBox DEF Init
  <1> QED BY <1>1, <1>2 DEF Boxes

LEMMA CreateRefines ==
  ASSUME IdInv, NEW u \in User, Create(u)
  PROVE  Store!Open(u) \/ Boxes' = Boxes
  <1>1. CASE \E r : Refuse(r)
    BY <1>1, SameBoxes DEF Refuse, memory, disk
  <1>2. CASE /\ index[u] = <<>>
             /\ file' = [file EXCEPT ![u] = <<[id |-> 0, msg |-> Welcome]>>]
             /\ index' = [index EXCEPT ![u] = << 0 >>]
    <2>1. Boxes' = [Boxes EXCEPT ![u] = Mailbox(u)']
      BY <1>2, OneBox DEF IdInv, TypeOK
    <2>2. index'[u] = << 0 >> /\ file'[u] = <<[id |-> 0, msg |-> Welcome]>>
      BY <1>2 DEF IdInv, TypeOK
    <2>3. DOMAIN index'[u] = 1 .. 1 /\ file'[u][1].msg = Welcome
      BY <2>2
    <2>4. Mailbox(u)' = <<Welcome>>
      BY <2>3 DEF Mailbox
    <2>5. Boxes[u] = <<>>
      BY <1>2, EmptyBox DEF Boxes
    <2> QED BY <2>1, <2>4, <2>5 DEF Store!Open, Boxes
  <1> QED BY <1>1, <1>2 DEF Create

LEMMA WriteRefines ==
  ASSUME NoWrap, SInv, NEW u \in User, NEW m \in Msg, Write(u, m)
  PROVE  Store!Deliver(u, m) \/ Boxes' = Boxes
  <1>1. CASE Refuse("err")
    BY <1>1, SameBoxes DEF Refuse, memory, disk, SInv
  <1>2. ASSUME index[u] # <<>>, Room(u), NEW id \in UnusedIds(u),
               file' = [file EXCEPT ![u] = Append(@, [id |-> id, msg |-> m])],
               index' = [index EXCEPT ![u] = AddEntry(@, id)]
        PROVE  Store!Deliver(u, m)
    <2> DEFINE e == [id |-> id, msg |-> m]
    <2>1. index[u] \in Seq(EnvId) /\ file[u] \in Seq(Cell)
      BY DEF SInv, IdInv, TypeOK
    <2>2. Len(file[u]) = Len(index[u])
      BY <1>2 DEF SInv, Matches
    <2>3. AddEntry(index[u], id) = Append(index[u], id)
      BY <1>2, <2>1, StorageAssumption DEF NoWrap, Room, AddEntry
    <2>4. index'[u] = Append(index[u], id) /\ file'[u] = Append(file[u], e)
      BY <1>2, <2>3 DEF SInv, IdInv, TypeOK
    <2>5. Boxes' = [Boxes EXCEPT ![u] = Mailbox(u)']
      BY <1>2, OneBox DEF SInv, IdInv, TypeOK
    <2>6. e.msg = m
      OBVIOUS
    <2> HIDE DEF e
    <2>7. Mailbox(u)' = Append(Mailbox(u), m)
      <3> DEFINE n == Len(index[u])
      <3>1. n \in Nat /\ DOMAIN index[u] = 1 .. n /\ DOMAIN index'[u] = 1 .. (n + 1)
        BY <2>1, <2>4
      <3>2. \A i \in 1 .. n : file'[u][i] = file[u][i]
        BY <2>1, <2>2, <2>4
      <3>3. file'[u][n + 1] = e
        BY <2>1, <2>2, <2>4
      <3> HIDE DEF n
      <3>4. Mailbox(u)' = [i \in 1 .. (n + 1) |-> file'[u][i].msg]
        BY <3>1 DEF Mailbox
      <3>5. Mailbox(u) = [i \in 1 .. n |-> file[u][i].msg]
        BY <3>1 DEF Mailbox
      <3>6. Append(Mailbox(u), m) =
              [i \in 1 .. (n + 1) |-> IF i = n + 1 THEN m ELSE Mailbox(u)[i]]
        <4>1. Mailbox(u) \in Seq({file[u][i].msg : i \in 1 .. n}) /\ Len(Mailbox(u)) = n
          BY <3>1, <3>5
        <4>2. Append(Mailbox(u), m) =
                [i \in 1 .. (Len(Mailbox(u)) + 1) |->
                   IF i = Len(Mailbox(u)) + 1 THEN m ELSE Mailbox(u)[i]]
          BY <4>1, AppendAsFunction
        <4> QED BY <4>1, <4>2
      <3>7. \A i \in 1 .. (n + 1) :
              file'[u][i].msg = IF i = n + 1 THEN m ELSE Mailbox(u)[i]
        BY <2>6, <3>1, <3>2, <3>3, <3>5
      <3> QED BY <3>4, <3>6, <3>7
    <2>8. Boxes[u] # <<>>
      <3>1. DOMAIN Mailbox(u) = DOMAIN index[u] /\ 1 \in DOMAIN index[u]
        BY <1>2, <2>1 DEF Mailbox
      <3> QED BY <3>1 DEF Boxes
    <2> QED BY <2>5, <2>7, <2>8 DEF Store!Deliver, Boxes
  <1> QED BY <1>1, <1>2 DEF Write

(* The mailbox of a user whose file matches the index is a sequence. *)
LEMMA MailboxIsSeq ==
  ASSUME IdInv, NEW u \in User
  PROVE  /\ Mailbox(u) \in Seq({file[u][i].msg : i \in DOMAIN index[u]})
         /\ Len(Mailbox(u)) = Len(index[u])
         /\ DOMAIN Mailbox(u) = DOMAIN index[u]
         /\ \A i \in DOMAIN index[u] : Mailbox(u)[i] = file[u][i].msg
  <1>1. index[u] \in Seq(EnvId)
    BY DEF IdInv, TypeOK
  <1>2. DOMAIN index[u] = 1 .. Len(index[u]) /\ Len(index[u]) \in Nat
    BY <1>1
  <1> QED BY <1>2 DEF Mailbox

LEMMA DeleteRefines ==
  ASSUME SInv, IdInv', NEW u \in User, NEW id \in EnvId, Delete(u, id)
  PROVE  (\E i \in DOMAIN Boxes[u] : Store!Discard(u, i)) \/ Boxes' = Boxes
  <1>1. CASE \E r : Refuse(r)
    BY <1>1, SameBoxes DEF Refuse, memory, disk, SInv
  <1>2. ASSUME NEW i \in DOMAIN index[u], u \in hasFile, SizesAgree(u),
               file' = [file EXCEPT ![u] = RemoveAt(@, i)],
               index' = [index EXCEPT ![u] = RemoveAt(@, i)]
        PROVE  \E j \in DOMAIN Boxes[u] : Store!Discard(u, j)
    <2>1. index[u] \in Seq(EnvId) /\ file[u] \in Seq(Cell)
      BY DEF SInv, IdInv, TypeOK
    <2>2. index'[u] = RemoveAt(index[u], i) /\ file'[u] = RemoveAt(file[u], i)
      BY <1>2 DEF SInv, IdInv, TypeOK
    <2>3. Len(file[u]) = Len(index[u]) /\ i \in DOMAIN file[u]
      BY <1>2, <2>1 DEF SizesAgree
    <2>4. Boxes' = [Boxes EXCEPT ![u] = Mailbox(u)']
      BY <1>2, OneBox DEF SInv, IdInv, TypeOK
    <2> DEFINE S == {file[u][k].msg : k \in DOMAIN index[u]}
               n == Len(index[u])
    <2>5. /\ Mailbox(u) \in Seq(S) /\ Len(Mailbox(u)) = n
          /\ i \in DOMAIN Mailbox(u)
          /\ \A k \in 1 .. n : Mailbox(u)[k] = file[u][k].msg
      <3>1. DOMAIN index[u] = 1 .. Len(index[u])
        BY <2>1
      <3> QED BY <1>2, <3>1, MailboxIsSeq DEF SInv
    <2>6. /\ RemoveAt(Mailbox(u), i) \in Seq(S)
          /\ Len(RemoveAt(Mailbox(u), i)) = n - 1
          /\ \A k \in 1 .. (n - 1) :
               RemoveAt(Mailbox(u), i)[k] =
                 IF k < i THEN Mailbox(u)[k] ELSE Mailbox(u)[k + 1]
      BY <2>5, RemoveAtProperties
    <2>7. /\ index'[u] \in Seq(EnvId) /\ Len(index'[u]) = n - 1
          /\ \A k \in 1 .. (n - 1) :
               file'[u][k] = IF k < i THEN file[u][k] ELSE file[u][k + 1]
      BY <2>1, <2>2, <2>3, RemoveAtProperties
    <2>8. n \in Nat /\ i \in 1 .. n /\ DOMAIN index'[u] = 1 .. (n - 1)
      BY <2>1, <2>7
    <2>9. /\ Mailbox(u)' = [k \in 1 .. (n - 1) |-> file'[u][k].msg]
          /\ \A k \in 1 .. (n - 1) : Mailbox(u)'[k] = file'[u][k].msg
      BY <2>8 DEF Mailbox
    <2> HIDE DEF S, n
    <2>10. ASSUME NEW k \in 1 .. (n - 1)
           PROVE  Mailbox(u)'[k] = RemoveAt(Mailbox(u), i)[k] /\ Mailbox(u)'[k] \in S
      <3>1. k \in 1 .. n /\ k + 1 \in 1 .. n
        BY <2>8
      <3>2. Mailbox(u)'[k] = RemoveAt(Mailbox(u), i)[k]
        BY <2>5, <2>6, <2>7, <2>9, <3>1, ZenonT(60)
      <3> QED BY <2>6, <3>2
    <2>11. /\ Mailbox(u)' \in Seq(S)
           /\ Len(Mailbox(u)') = n - 1
      <3>1. n - 1 \in Nat
        BY <2>8
      <3> QED BY <2>9, <2>10, <3>1
    <2>12. Mailbox(u)' = RemoveAt(Mailbox(u), i)
      BY <2>6, <2>10, <2>11, SeqEqual
    <2>13. i \in DOMAIN Boxes[u] /\ Boxes[u] = Mailbox(u)
      BY <2>5 DEF Boxes
    <2>14. Boxes' = [Boxes EXCEPT ![u] = RemoveAt(Boxes[u], i)]
      BY <2>4, <2>12, <2>13
    <2> QED BY <2>13, <2>14 DEF Store!Discard, Store!RemoveAt, RemoveAt, Boxes
  <1> QED BY <1>1, <1>2 DEF Delete

LEMMA EmptyRefines ==
  ASSUME SInv, NEW u \in User, Empty(u)
  PROVE  Store!Reset(u) \/ Boxes' = Boxes
  <1>1. CASE Refuse("err")
    BY <1>1, SameBoxes DEF Refuse, memory, disk, SInv
  <1>2. CASE /\ file' = [file EXCEPT ![u] = <<[id |-> 0, msg |-> Emptied]>>]
             /\ index' = [index EXCEPT ![u] = << 0 >>]
    <2>1. Boxes' = [Boxes EXCEPT ![u] = Mailbox(u)']
      BY <1>2, OneBox DEF SInv, IdInv, TypeOK
    <2>2. index'[u] = << 0 >> /\ file'[u] = <<[id |-> 0, msg |-> Emptied]>>
      BY <1>2 DEF SInv, IdInv, TypeOK
    <2>3. DOMAIN index'[u] = 1 .. 1 /\ file'[u][1].msg = Emptied
      BY <2>2
    <2>4. Mailbox(u)' = <<Emptied>>
      BY <2>3 DEF Mailbox
    <2> QED BY <2>1, <2>4 DEF Store!Reset, Boxes
  <1>3. CASE /\ pc = "idle" /\ u \in hasFile
             /\ file' = [file EXCEPT ![u] = <<[id |-> 0, msg |-> Emptied]>>]
             /\ alloc[u] # "live" /\ Reload
    <2>1. index' = index
      BY <1>3, IdleReload
    <2>2. index[u] = <<>>
      BY <1>3 DEF SInv, AllocOk
    <2>3. \A v \in User : index[v] # <<>> => file'[v] = file[v]
      BY <1>3, <2>2 DEF SInv, IdInv, TypeOK
    <2> QED BY <2>1, <2>3, SameBoxes DEF SInv
  <1> QED BY <1>1, <1>2, <1>3 DEF Empty, Idle

LEMMA DropRefines ==
  ASSUME SInv, NEW u \in User, Drop(u)
  PROVE  Store!Close(u) \/ Boxes' = Boxes
  <1>1. CASE /\ index[u] = <<>>
             /\ file' = [file EXCEPT ![u] = <<>>]
             /\ UNCHANGED <<memory, saved>>
    <2>1. \A v \in User : index[v] # <<>> => file'[v] = file[v]
      BY <1>1 DEF SInv, IdInv, TypeOK
    <2> QED BY <1>1, <2>1, SameBoxes DEF SInv, memory
  <1>2. CASE /\ index' = [index EXCEPT ![u] = <<>>]
             /\ UNCHANGED disk
    <2>1. Boxes' = [Boxes EXCEPT ![u] = Mailbox(u)']
      BY <1>2, OneBox DEF SInv, IdInv, TypeOK, disk
    <2>2. index'[u] = <<>>
      BY <1>2 DEF SInv, IdInv, TypeOK
    <2>3. Mailbox(u)' = <<>>
      BY <2>2 DEF Mailbox
    <2> QED BY <2>1, <2>3 DEF Store!Close, Boxes
  <1> QED BY <1>1, <1>2 DEF Drop

LEMMA OtherStepsInvisible ==
  ASSUME SInv, SaveTruncate \/ SaveWrite \/ Unlink \/ Restart \/ UNCHANGED vars
  PROVE  Boxes' = Boxes
  <1>1. CASE SaveTruncate \/ SaveWrite
    BY <1>1, SameBoxes DEF SInv, SaveTruncate, SaveWrite, memory, files
  <1>2. CASE Unlink
    <2>1. index[cur] = <<>> /\ file' = [file EXCEPT ![cur] = <<>>] /\ index' = index
      BY <1>2 DEF SInv, Unlink, memory
    <2>2. \A v \in User : index[v] # <<>> => file'[v] = file[v]
      BY <2>1 DEF SInv, IdInv, TypeOK
    <2> QED BY <2>1, <2>2, SameBoxes DEF SInv
  <1>3. CASE Restart
    BY <1>3, IdleReload, SameBoxes DEF SInv, Restart, Idle, disk
  <1>4. CASE UNCHANGED vars
    BY <1>4, SameBoxes DEF SInv, vars
  <1> QED BY <1>1, <1>2, <1>3, <1>4

LEMMA StepRefines ==
  NoWrap /\ SInv /\ SInv' /\ [Next]_vars => [Store!Next]_Boxes
  <1> SUFFICES ASSUME NoWrap, SInv, SInv', [Next]_vars
               PROVE  Store!Next \/ Boxes' = Boxes
    OBVIOUS
  <1>1. ASSUME NEW u \in User, Create(u) PROVE Store!Open(u) \/ Boxes' = Boxes
    BY <1>1, CreateRefines DEF SInv
  <1>2. ASSUME NEW u \in User, NEW m \in Msg, Write(u, m)
        PROVE  Store!Deliver(u, m) \/ Boxes' = Boxes
    BY <1>2, WriteRefines
  <1>3. ASSUME NEW u \in User, NEW id \in EnvId, Delete(u, id)
        PROVE  (\E i \in DOMAIN Boxes[u] : Store!Discard(u, i)) \/ Boxes' = Boxes
    BY <1>3, DeleteRefines DEF SInv
  <1>4. ASSUME NEW u \in User, Empty(u) PROVE Store!Reset(u) \/ Boxes' = Boxes
    BY <1>4, EmptyRefines
  <1>5. ASSUME NEW u \in User, Drop(u) PROVE Store!Close(u) \/ Boxes' = Boxes
    BY <1>5, DropRefines
  <1>6. CASE SaveTruncate \/ SaveWrite \/ Unlink \/ Restart \/ UNCHANGED vars
    BY <1>6, OtherStepsInvisible
  <1> QED BY <1>1, <1>2, <1>3, <1>4, <1>5, <1>6 DEF Next, Store!Next, Boxes

(* What the requests do to files, index and Stindex.aem is what MailStore   *)
(* says of mailboxes: a welcome, a delivery, a removal of one message, the *)
(* reset and the closing of a mailbox, each of them once.                  *)
THEOREM Refinement == NoWrap => (Spec => ImplementsMailStore)
  <1> SUFFICES ASSUME NoWrap PROVE Spec => ImplementsMailStore
    OBVIOUS
  <1>1. SInv /\ SInv' /\ [Next]_vars => [Store!Next]_Boxes
    BY StepRefines
  <1>2. Spec => []SInv
    BY SInvHolds
  <1>3. Spec => Store!Init /\ [][Store!Next]_Boxes
    BY InitRefines, <1>1, <1>2, PTL DEF Spec
  <1> QED BY <1>3, PTL DEF ImplementsMailStore, Store!Spec, Boxes

-----------------------------------------------------------------------------
(* What can be read of a mailbox, under all faults. *)

LEMMA HeldElements ==
  ASSUME NEW u, NEW e
  PROVE  e \in Held(u) <=> \E i \in DOMAIN index[u] :
                             /\ i \in DOMAIN file[u]
                             /\ \A k \in 1 .. i : file[u][k] # Torn
                             /\ file[u][i] # Mixed
                             /\ file[u][i].id = index[u][i]
                             /\ e = file[u][i]
  BY DEF Held, Readable

LEMMA SameHeld ==
  ASSUME NEW u, index'[u] = index[u], file'[u] = file[u]
  PROVE  Held(u) \subseteq Held(u)'
  BY DEF Held, Readable

LEMMA NothingHeld ==
  ASSUME NEW u, index[u] = <<>>
  PROVE  Held(u) = {}
  BY DEF Held

(* Nothing is lost of a file and an index that grow at their ends. *)
LEMMA HeldGrows ==
  ASSUME NEW u \in User, IdInv,
         \E x : file'[u] = Append(file[u], x),
         index'[u] = index[u] \/ \E id : index'[u] = Append(index[u], id)
  PROVE  Held(u) \subseteq Held(u)'
  <1>1. index[u] \in Seq(EnvId) /\ file[u] \in Seq(Cell)
    BY DEF IdInv, TypeOK
  <1>2. /\ Len(file[u]) \in Nat /\ DOMAIN file[u] = 1 .. Len(file[u])
        /\ \A k \in 1 .. Len(file[u]) : k \in DOMAIN file'[u] /\ file'[u][k] = file[u][k]
    BY <1>1
  <1>3. \A k \in DOMAIN index[u] : k \in DOMAIN index'[u] /\ index'[u][k] = index[u][k]
    <2>1. CASE index'[u] = index[u]
      BY <2>1
    <2>2. ASSUME NEW id, index'[u] = Append(index[u], id)
          PROVE  \A k \in DOMAIN index[u] : k \in DOMAIN index'[u] /\ index'[u][k] = index[u][k]
      <3>1. Len(index[u]) \in Nat /\ DOMAIN index[u] = 1 .. Len(index[u])
        BY <1>1
      <3> QED BY <1>1, <2>2, <3>1
    <2> QED BY <2>1, <2>2
  <1>4. ASSUME NEW i \in DOMAIN index[u], i \in DOMAIN file[u],
               \A k \in 1 .. i : file[u][k] # Torn, file[u][i] # Mixed,
               file[u][i].id = index[u][i]
        PROVE  /\ i \in DOMAIN index'[u] /\ i \in DOMAIN file'[u]
               /\ \A k \in 1 .. i : file'[u][k] # Torn
               /\ file'[u][i].id = index'[u][i]
               /\ file'[u][i] = file[u][i]
    <2>1. i \in 1 .. Len(file[u]) /\ \A k \in 1 .. i : k \in 1 .. Len(file[u])
      BY <1>2, <1>4
    <2> QED BY <1>2, <1>3, <1>4, <2>1
  <1> QED BY <1>4 DEF Held, Readable

(* storage_delete: what it takes out is all that may be lost. *)
LEMMA RemovedOneHeld ==
  ASSUME NEW u \in User, IdInv, SizesAgree(u), NEW i \in DOMAIN index[u],
         file'[u] = RemoveAt(file[u], i), index'[u] = RemoveAt(index[u], i)
  PROVE  \A e \in Held(u) : e.id \in ToSet(index'[u]) => e \in Held(u)'
  <1>1. /\ index[u] \in Seq(EnvId) /\ file[u] \in Seq(Cell)
        /\ Len(file[u]) = Len(index[u])
    BY DEF IdInv, TypeOK, SizesAgree
  <1> DEFINE n == Len(file[u])
  <1>2. /\ n \in Nat /\ DOMAIN index[u] = 1 .. n /\ DOMAIN file[u] = 1 .. n
        /\ i \in 1 .. n
    BY <1>1
  <1>3. \A k \in 1 .. n : file[u][k] # Torn
    BY <1>2 DEF SizesAgree, ToSet
  <1>4. /\ DOMAIN index'[u] = 1 .. (n - 1) /\ DOMAIN file'[u] = 1 .. (n - 1)
        /\ \A k \in 1 .. (n - 1) :
             /\ file'[u][k] = IF k < i THEN file[u][k] ELSE file[u][k + 1]
             /\ index'[u][k] = IF k < i THEN index[u][k] ELSE index[u][k + 1]
    <2>1. /\ RemoveAt(index[u], i) \in Seq(EnvId)
          /\ Len(RemoveAt(index[u], i)) = n - 1
          /\ \A k \in 1 .. (n - 1) :
               RemoveAt(index[u], i)[k] = IF k < i THEN index[u][k] ELSE index[u][k + 1]
      BY <1>1, <1>2, RemoveAtProperties
    <2> DEFINE C == Cell
    <2>a. file[u] \in Seq(C) /\ i \in DOMAIN file[u]
      BY <1>1, <1>2
    <2> HIDE DEF C
    <2>2. /\ RemoveAt(file[u], i) \in Seq(C)
          /\ Len(RemoveAt(file[u], i)) = n - 1
          /\ \A k \in 1 .. (n - 1) :
               RemoveAt(file[u], i)[k] = IF k < i THEN file[u][k] ELSE file[u][k + 1]
      BY <2>a, RemoveAtProperties
    <2> QED BY <1>2, <2>1, <2>2
  <1> HIDE DEF n
  <1>5. \A k \in 1 .. (n - 1) : file'[u][k] # Torn
    <2> SUFFICES ASSUME NEW k \in 1 .. (n - 1) PROVE file'[u][k] # Torn
      OBVIOUS
    <2>1. k \in 1 .. n /\ k + 1 \in 1 .. n
      BY <1>2
    <2> QED BY <1>3, <1>4, <2>1
  <1>6. ASSUME NEW k \in 1 .. (n - 1), file'[u][k] # Mixed, file'[u][k].id = index'[u][k]
        PROVE  file'[u][k] \in Held(u)'
    <2>1. \A j \in 1 .. k : j \in 1 .. (n - 1)
      BY <1>2
    <2> QED BY <1>4, <1>5, <1>6, <2>1 DEF Held, Readable
  <1>7. ASSUME NEW k \in 1 .. n, k # i, file[u][k] # Mixed, file[u][k].id = index[u][k]
        PROVE  file[u][k] \in Held(u)'
    <2>1. CASE k < i
      <3>1. k \in 1 .. (n - 1)
        BY <1>2, <2>1
      <3>2. file'[u][k] = file[u][k] /\ index'[u][k] = index[u][k]
        BY <1>4, <2>1, <3>1
      <3> QED BY <1>6, <1>7, <3>1, <3>2
    <2>2. CASE k > i
      <3>1. k - 1 \in 1 .. (n - 1) /\ ~(k - 1 < i) /\ (k - 1) + 1 = k
        BY <1>2, <2>2
      <3>2. file'[u][k - 1] = file[u][k] /\ index'[u][k - 1] = index[u][k]
        BY <1>4, <3>1
      <3> QED BY <1>6, <1>7, <3>1, <3>2
    <2> QED BY <1>2, <1>7, <2>1, <2>2
  <1>8. \A e \in Held(u) : \E k \in 1 .. n :
          file[u][k] # Mixed /\ file[u][k].id = index[u][k] /\ e = file[u][k]
    BY <1>2, HeldElements
  <1>9. index[u][i] \notin ToSet(index'[u])
    <2> SUFFICES ASSUME NEW j \in 1 .. (n - 1), index'[u][j] = index[u][i] PROVE FALSE
      BY <1>4 DEF ToSet
    <2>1. j \in 1 .. n /\ j + 1 \in 1 .. n /\ (j < i => j # i) /\ (~(j < i) => j + 1 # i)
      BY <1>2
    <2>2. \E k \in 1 .. n : k # i /\ index[u][k] = index[u][i]
      BY <1>4, <2>1
    <2>3. IsInjective(index[u])
      BY DEF IdInv, IdsUnique
    <2> QED BY <1>2, <2>2, <2>3 DEF IsInjective
  <1> QED BY <1>7, <1>8, <1>9

LosesOne ==
  \A u \in User :
    kind' = "delete" /\ pc' = "save" /\ cur' = u
      => \A e \in Held(u) : e.id \in ToSet(index'[u]) => e \in Held(u)'

(* No other step looks like storage_delete's. *)
LEMMA OnlyDeleteDeletes ==
  ASSUME AnyStep, kind' = "delete", pc' = "save", NEW v \in User, cur' = v
  PROVE  \E id \in EnvId : Delete(v, id) /\ ~Refuse("err") /\ ~Refuse("notexist")
  <1>1. ASSUME NEW r, Answer(r) PROVE FALSE
    BY <1>1 DEF Answer
  <1>2. ASSUME NEW k, NEW u, NEW p, Proceed(k, u, p)
        PROVE  k = "delete" /\ u = v /\ p = "save"
    BY <1>2 DEF Proceed
  <1>3. ASSUME NEW u \in User, Create(u) PROVE FALSE
    BY <1>1, <1>2, <1>3 DEF Create, Refuse
  <1>4. ASSUME NEW u \in User, NEW m \in Msg, Write(u, m) PROVE FALSE
    BY <1>1, <1>2, <1>4 DEF Write, Refuse
  <1>5. ASSUME NEW u \in User, NEW id \in EnvId, Delete(u, id) PROVE u = v
    BY <1>1, <1>2, <1>5 DEF Delete, Refuse
  <1>6. ASSUME NEW u \in User, Empty(u) PROVE FALSE
    BY <1>1, <1>2, <1>6 DEF Empty, Refuse, Reload
  <1>7. ASSUME NEW u \in User, Drop(u) PROVE FALSE
    BY <1>1, <1>2, <1>7 DEF Drop
  <1>8. CASE SaveTruncate \/ SaveWrite \/ Unlink \/ SaveNotOpened \/ SaveNotWritten
    BY <1>1, <1>2, <1>8
       DEF SaveTruncate, SaveWrite, Unlink, SaveNotOpened, SaveNotWritten, AfterSave
  <1>9. CASE Half
    BY <1>2, <1>9 DEF Half, CreateHalf, WriteHalf, DeleteHalf, EmptyHalf
  <1>10. CASE FailureAnswered \/ NotUnlinked
    BY <1>1, <1>10 DEF FailureAnswered, NotUnlinked
  <1>11. CASE Restart \/ Crash
    BY <1>1, <1>11 DEF Restart, Crash, Reload
  <1>12. ~Refuse("err") /\ ~Refuse("notexist")
    BY <1>1 DEF Refuse
  <1> QED BY <1>3, <1>4, <1>5, <1>6, <1>7, <1>8, <1>9, <1>10, <1>11, <1>12 DEF AnyStep, Next

(* storage_delete takes away what it was asked to, and the others can be    *)
(* read as before, whatever places of the file earlier failures have left   *)
(* overwritten.                                                            *)
THEOREM DeletesLoseOne == FaultSpec => DeleteLosesOne
  <1>1. IdInv /\ [AnyStep]_vars /\ [FaultNext]_allVars => [LosesOne]_allVars
    <2> SUFFICES ASSUME IdInv, FaultNext, NEW u \in User,
                        kind' = "delete", pc' = "save", cur' = u
                 PROVE  \A e \in Held(u) : e.id \in ToSet(index'[u]) => e \in Held(u)'
      BY DEF LosesOne
    <2>1. AnyStep
      BY DEF FaultNext, AnyStep
    <2>2. PICK id \in EnvId : Delete(u, id) /\ ~Refuse("err") /\ ~Refuse("notexist")
      BY <2>1, OnlyDeleteDeletes
    <2>3. PICK i \in DOMAIN index[u] : /\ SizesAgree(u)
                                       /\ file' = [file EXCEPT ![u] = RemoveAt(@, i)]
                                       /\ index' = [index EXCEPT ![u] = RemoveAt(@, i)]
      BY <2>2 DEF Delete
    <2>4. file'[u] = RemoveAt(file[u], i) /\ index'[u] = RemoveAt(index[u], i)
      BY <2>3 DEF IdInv, TypeOK
    <2> QED BY <2>3, <2>4, RemovedOneHeld
  <1>2. DeleteLosesOne <=> [][LosesOne]_allVars
    BY DEF DeleteLosesOne, LosesOne
  <1> QED BY <1>1, <1>2, IdInvHolds, FaultsAreSteps, PTL DEF FaultSpec

LostOnRequest ==
  \A u \in User :
    \/ Held(u) \subseteq Held(u)'
    \/ ret' = "restart"
    \/ cur' = u /\ kind' \in {"delete", "empty", "drop"}
    \/ cur = u /\ kind = "drop"

(* Only the request that drops a mailbox gets to the unlinking of its file. *)
UnlinkIsDrop == pc = "unlink" => kind = "drop"

LEMMA UnlinkStaysDrop ==
  ASSUME UnlinkIsDrop, [AnyStep]_vars
  PROVE  UnlinkIsDrop'
  <1>1. ASSUME NEW r, Answer(r) PROVE UnlinkIsDrop'
    BY <1>1 DEF Answer, UnlinkIsDrop
  <1>2. ASSUME NEW k, NEW u, NEW p, Proceed(k, u, p), p = "unlink" => k = "drop"
        PROVE  UnlinkIsDrop'
    BY <1>2 DEF Proceed, UnlinkIsDrop
  <1>3. ASSUME NEW u \in User, Create(u) PROVE UnlinkIsDrop'
    BY <1>1, <1>2, <1>3 DEF Create, Refuse
  <1>4. ASSUME NEW u \in User, NEW m \in Msg, Write(u, m) PROVE UnlinkIsDrop'
    BY <1>1, <1>2, <1>4 DEF Write, Refuse
  <1>5. ASSUME NEW u \in User, NEW id \in EnvId, Delete(u, id) PROVE UnlinkIsDrop'
    BY <1>1, <1>2, <1>5 DEF Delete, Refuse
  <1>6. ASSUME NEW u \in User, Empty(u) PROVE UnlinkIsDrop'
    BY <1>1, <1>2, <1>6 DEF Empty, Refuse, Reload
  <1>7. ASSUME NEW u \in User, Drop(u) PROVE UnlinkIsDrop'
    BY <1>1, <1>2, <1>7 DEF Drop
  <1>8. CASE SaveTruncate \/ SaveWrite \/ Unlink \/ SaveNotOpened \/ SaveNotWritten
    BY <1>1, <1>2, <1>8
       DEF SaveTruncate, SaveWrite, Unlink, SaveNotOpened, SaveNotWritten, AfterSave
  <1>9. CASE Half
    BY <1>2, <1>9 DEF Half, CreateHalf, WriteHalf, DeleteHalf, EmptyHalf
  <1>10. CASE FailureAnswered \/ NotUnlinked
    BY <1>1, <1>10 DEF FailureAnswered, NotUnlinked
  <1>11. CASE Restart \/ Crash
    BY <1>1, <1>11 DEF Restart, Crash, Reload
  <1>12. CASE UNCHANGED vars
    BY <1>12 DEF vars, UnlinkIsDrop
  <1> QED BY <1>3, <1>4, <1>5, <1>6, <1>7, <1>8, <1>9, <1>10, <1>11, <1>12 DEF AnyStep, Next

LEMMA NothingLost ==
  ASSUME index' = index, file' = file
  PROVE  LostOnRequest
  BY SameHeld DEF LostOnRequest

(* A request for u that loses nothing of u's. *)
LEMMA NothingLostOf ==
  ASSUME NEW u \in User, Held(u) \subseteq Held(u)',
         \A v \in User \ {u} : index'[v] = index[v] /\ file'[v] = file[v]
  PROVE  LostOnRequest
  BY SameHeld DEF LostOnRequest

(* A request of u's own that may. *)
LEMMA LostOfOwn ==
  ASSUME NEW u \in User, cur' = u, kind' \in {"delete", "empty", "drop"},
         \A v \in User \ {u} : index'[v] = index[v] /\ file'[v] = file[v]
  PROVE  LostOnRequest
  BY SameHeld DEF LostOnRequest

LEMMA RequestsLose ==
  ASSUME IdInv, NoWrap, NEW u \in User,
         \/ Create(u) \/ Empty(u) \/ Drop(u)
         \/ \E m \in Msg : Write(u, m)
         \/ \E id \in EnvId : Delete(u, id)
  PROVE  LostOnRequest
  <1>1. /\ index \in [User -> Seq(EnvId)] /\ file \in [User -> Seq(Cell)]
        /\ MaxCells \in Nat /\ IdCount \in Nat
    BY StorageAssumption DEF IdInv, TypeOK
  <1>2. ASSUME NEW r, Refuse(r) PROVE LostOnRequest
    BY <1>2, NothingLost DEF Refuse, memory, disk
  <1>3. CASE Create(u)
    <2>1. ASSUME index[u] = <<>>, NEW a, NEW b,
                 index' = [index EXCEPT ![u] = a], file' = [file EXCEPT ![u] = b]
          PROVE  LostOnRequest
      <3>1. \A v \in User \ {u} : index'[v] = index[v] /\ file'[v] = file[v]
        BY <1>1, <2>1
      <3> QED BY <2>1, <3>1, NothingHeld, NothingLostOf
    <2> QED BY <1>2, <1>3, <2>1 DEF Create
  <1>4. ASSUME NEW m \in Msg, Write(u, m) PROVE LostOnRequest
    <2>1. ASSUME NEW id \in EnvId, NEW x, Room(u),
                 file' = [file EXCEPT ![u] = Append(@, x)],
                 index' = [index EXCEPT ![u] = AddEntry(@, id)]
          PROVE  LostOnRequest
      <3>1. index[u] \in Seq(EnvId) /\ Len(index[u]) \in Nat /\ Len(index[u]) < MaxCells
        BY <1>1, <2>1 DEF Room
      <3>2. AddEntry(index[u], id) = Append(index[u], id)
        BY <1>1, <3>1 DEF AddEntry, NoWrap
      <3>3. index'[u] = Append(index[u], id) /\ file'[u] = Append(file[u], x)
        BY <1>1, <2>1, <3>2
      <3>4. \A v \in User \ {u} : index'[v] = index[v] /\ file'[v] = file[v]
        BY <1>1, <2>1
      <3> QED BY <3>3, <3>4, HeldGrows, NothingLostOf
    <2>2. CASE \E id \in UnusedIds(u) :
                 /\ file' = [file EXCEPT ![u] = Append(@, [id |-> id, msg |-> m])]
                 /\ index' = [index EXCEPT ![u] = AddEntry(@, id)]
      <3>1. PICK id \in UnusedIds(u) :
                 /\ file' = [file EXCEPT ![u] = Append(@, [id |-> id, msg |-> m])]
                 /\ index' = [index EXCEPT ![u] = AddEntry(@, id)]
        BY <2>2
      <3>2. id \in EnvId /\ (Refuse("err") \/ Room(u))
        BY <1>4 DEF Write, UnusedIds
      <3> QED BY <1>2, <2>1, <3>1, <3>2
    <2> QED BY <1>2, <1>4, <2>2 DEF Write
  <1>5. ASSUME NEW id \in EnvId, Delete(u, id) PROVE LostOnRequest
    <2>1. ASSUME NEW a, NEW b, Proceed("delete", u, "save"),
                 index' = [index EXCEPT ![u] = a], file' = [file EXCEPT ![u] = b]
          PROVE  LostOnRequest
      BY <1>1, <2>1, LostOfOwn DEF Proceed
    <2> QED BY <1>2, <1>5, <2>1 DEF Delete
  <1>6. CASE Empty(u)
    <2>1. ASSUME NEW a, NEW b, Proceed("empty", u, "save"),
                 index' = [index EXCEPT ![u] = a], file' = [file EXCEPT ![u] = b]
          PROVE  LostOnRequest
      BY <1>1, <2>1, LostOfOwn DEF Proceed
    <2>2. CASE Reload
      BY <2>2 DEF Reload, Answer, LostOnRequest
    <2> QED BY <1>2, <1>6, <2>1, <2>2 DEF Empty
  <1>7. CASE Drop(u)
    <2>1. CASE index[u] = <<>> /\ file' = [file EXCEPT ![u] = <<>>] /\ UNCHANGED memory
      <3>1. \A v \in User \ {u} : index'[v] = index[v] /\ file'[v] = file[v]
        BY <1>1, <2>1 DEF memory
      <3> QED BY <2>1, <3>1, NothingHeld, NothingLostOf
    <2>2. CASE /\ index' = [index EXCEPT ![u] = <<>>]
               /\ Proceed("drop", u, "save") /\ UNCHANGED disk
      BY <1>1, <2>2, LostOfOwn DEF Proceed, disk
    <2> QED BY <1>7, <2>1, <2>2 DEF Drop
  <1> QED BY <1>3, <1>4, <1>5, <1>6, <1>7

(* A file operation that stops half-way. *)
LEMMA HalvesLose ==
  ASSUME IdInv, Half
  PROVE  LostOnRequest
  <1>1. file \in [User -> Seq(Cell)] /\ index' = index
    BY DEF IdInv, TypeOK, Half, CreateHalf, WriteHalf, DeleteHalf, EmptyHalf, memory
  <1>2. ASSUME NEW u \in User, NEW b, file' = [file EXCEPT ![u] = b]
        PROVE  \A v \in User \ {u} : index'[v] = index[v] /\ file'[v] = file[v]
    BY <1>1, <1>2
  <1>3. ASSUME NEW u \in User, CreateHalf(u) PROVE LostOnRequest
    BY <1>2, <1>3, NothingHeld, NothingLostOf DEF CreateHalf
  <1>4. ASSUME NEW u \in User, WriteHalf(u) PROVE LostOnRequest
    <2>1. file' = [file EXCEPT ![u] = Append(@, Torn)]
      BY <1>4 DEF WriteHalf
    <2>2. file'[u] = Append(file[u], Torn)
      BY <1>1, <2>1
    <2>3. Held(u) \subseteq Held(u)'
      BY <1>1, <2>2, HeldGrows
    <2> QED BY <1>2, <2>1, <2>3, NothingLostOf
  <1>5. ASSUME NEW u \in User, NEW i \in DOMAIN index[u], DeleteHalf(u, i)
        PROVE  LostOnRequest
    <2>1. PICK b : file' = [file EXCEPT ![u] = b]
      BY <1>5 DEF DeleteHalf
    <2>2. cur' = u /\ kind' = "delete"
      BY <1>5 DEF DeleteHalf, Proceed
    <2> QED BY <1>2, <2>1, <2>2, LostOfOwn
  <1>6. ASSUME NEW u \in User, EmptyHalf(u) PROVE LostOnRequest
    <2>1. PICK b : file' = [file EXCEPT ![u] = b]
      BY <1>6 DEF EmptyHalf
    <2>2. cur' = u /\ kind' = "empty"
      BY <1>6 DEF EmptyHalf, Proceed
    <2> QED BY <1>2, <2>1, <2>2, LostOfOwn
  <1> QED BY <1>3, <1>4, <1>5, <1>6 DEF Half

LEMMA StepsLose ==
  ASSUME IdInv, UnlinkIsDrop, NoWrap, FaultNext
  PROVE  LostOnRequest
  <1>1. ASSUME NEW u \in User,
               \/ Create(u) \/ Empty(u) \/ Drop(u)
               \/ \E m \in Msg : Write(u, m)
               \/ \E id \in EnvId : Delete(u, id)
        PROVE  LostOnRequest
    BY <1>1, RequestsLose
  <1>2. CASE \/ SaveTruncate \/ SaveWrite \/ SaveNotOpened \/ SaveNotWritten
             \/ FailureAnswered \/ NotUnlinked
    BY <1>2, NothingLost
       DEF SaveTruncate, SaveWrite, SaveNotOpened, SaveNotWritten,
           FailureAnswered, NotUnlinked, memory, files, disk
  <1>3. CASE Unlink
    <2>1. kind = "drop" /\ index' = index /\ \A v \in User \ {cur} : file'[v] = file[v]
      BY <1>3 DEF Unlink, UnlinkIsDrop, memory, IdInv, TypeOK
    <2> QED BY <2>1, SameHeld DEF LostOnRequest
  <1>4. CASE Restart \/ Crash
    BY <1>4 DEF Restart, Crash, Reload, Answer, LostOnRequest
  <1>5. CASE Half
    BY <1>5, HalvesLose
  <1> QED BY <1>1, <1>2, <1>3, <1>4, <1>5 DEF FaultNext, Next

(* While stindex_count does not wrap, only a request to delete, to empty or *)
(* to drop a mailbox, or a start, makes an envelope of it unreadable: no    *)
(* storage_write does, however it fails and whatever failed before it.     *)
THEOREM LossesAreRequested == NoWrap => (FaultSpec => LostOnlyOnRequest)
  <1> SUFFICES ASSUME NoWrap PROVE FaultSpec => LostOnlyOnRequest
    OBVIOUS
  <1>1. Init => UnlinkIsDrop
    BY DEF Init, UnlinkIsDrop
  <1>2. UnlinkIsDrop /\ [FaultNext]_allVars => UnlinkIsDrop'
    BY FaultsAreSteps, UnlinkStaysDrop
  <1>3. IdInv /\ UnlinkIsDrop /\ [FaultNext]_allVars => [LostOnRequest]_allVars
    BY StepsLose
  <1>4. LostOnlyOnRequest <=> [][LostOnRequest]_allVars
    BY DEF LostOnlyOnRequest, LostOnRequest
  <1> QED BY <1>1, <1>2, <1>3, <1>4, IdInvHolds, PTL DEF FaultSpec

-----------------------------------------------------------------------------
(* The pages of envelopes that are given out from a mailbox: Browse.       *)

Entry == [id : Id, size : Size]

(* The sizes of the envelopes of a page have a sum. *)
LEMMA BytesInOrder ==
  ASSUME NEW a \in Int, NEW b \in Int,
         \A k \in a .. b : box[k] \in Entry
  PROVE  \E h \in [0 .. Len(SubSeq(box, a, b)) -> Nat] :
           /\ h[0] = 0
           /\ \A k \in 1 .. Len(SubSeq(box, a, b)) : h[k] = h[k - 1] + box[a + k - 1].size
           /\ Bytes(a, b) = h[Len(SubSeq(box, a, b))]
  <1> DEFINE s == SubSeq(box, a, b)
             n == Len(s)
             F == [p \in Nat \X (1 .. n) |-> p[1] + s[p[2]].size]
  <1>1. /\ s \in Seq(Entry) /\ n \in Nat /\ DOMAIN s = 1 .. n
        /\ \A k \in 1 .. n : s[k] = box[a + k - 1]
    <2>1. /\ s \in Seq(Entry)
          /\ n = IF a <= b THEN b - a + 1 ELSE 0
          /\ \A k \in 1 .. b - a + 1 : s[k] = box[a + k - 1]
      BY SubSeqProperties
    <2>2. n \in Nat /\ DOMAIN s = 1 .. n
      BY <2>1
    <2> HIDE DEF s
    <2> QED BY <2>1, <2>2
  <1> HIDE DEF s
  <1>2. \A k \in 1 .. n : s[k].size \in Nat
    <2>1. \A k \in 1 .. n : s[k] \in Entry
      BY <1>1
    <2>2. \A x \in Size : x \in Nat
      BY BrowseAssumption
    <2> QED BY <2>1, <2>2 DEF Entry
  <1>3. F \in [Nat \X (1 .. n) -> Nat]
    BY <1>2
  <1>4. \A v \in Nat, k \in 1 .. n : F[<<v, k>>] = v + s[k].size
    OBVIOUS
  <1> HIDE DEF F
  <1>5. PICK g : IsFold(g, Nat, F, 0, n)
    BY <1>1, <1>3, FoldExists
  <1> DEFINE f == CHOOSE f : f = [x \in SUBSET (DOMAIN s) |->
                    IF x = {} THEN 0 ELSE f[x \ {Max(x)}] + s[Max(x)].size]
  <1>6. g = [x \in SUBSET (1 .. n) |->
               IF x = {} THEN 0 ELSE g[x \ {Max(x)}] + s[Max(x)].size]
    <2>1. ASSUME NEW x \in SUBSET (1 .. n), x # {}
          PROVE  g[x] = g[x \ {Max(x)}] + s[Max(x)].size
      <3>1. Max(x) \in 1 .. n /\ x \ {Max(x)} \in SUBSET (1 .. n)
        BY <1>1, <2>1, MaxOfRange
      <3>2. g[x] = F[<<g[x \ {Max(x)}], Max(x)>>] /\ g[x \ {Max(x)}] \in Nat
        BY <1>5, <2>1, <3>1 DEF IsFold
      <3> QED BY <1>4, <3>1, <3>2
    <2>2. g = [x \in SUBSET (1 .. n) |-> g[x]] /\ g[{}] = 0
      BY <1>5 DEF IsFold
    <2> QED BY <2>1, <2>2
  <1>7. Bytes(a, b) = f[DOMAIN s]
    BY DEF Bytes, BytesOf, FoldLeft, MapThenFoldSet, s
  <1>8. f = [x \in SUBSET (1 .. n) |->
               IF x = {} THEN 0 ELSE f[x \ {Max(x)}] + s[Max(x)].size]
    BY <1>1, <1>6
  <1> HIDE DEF f
  <1>9. f[{}] = 0
    BY <1>8
  <1>10. ASSUME NEW k \in 1 .. n, f[1 .. (k - 1)] \in Nat
         PROVE  f[1 .. k] = F[<<f[1 .. (k - 1)], k>>]
    <2>1. k \in Nat \ {0} /\ 1 .. k # {} /\ 1 .. k \in SUBSET (1 .. n)
      <3>1. k \in Nat \ {0} /\ 1 \in 1 .. k
        BY <1>1
      <3>2. \A j \in 1 .. k : j \in 1 .. n
        BY <1>1
      <3> QED BY <3>1, <3>2
    <2>2. Max(1 .. k) = k /\ (1 .. k) \ {k} = 1 .. (k - 1)
      BY <2>1, InitialNumbers
    <2>3. f[1 .. k] = f[1 .. (k - 1)] + s[k].size
      BY <1>8, <2>1, <2>2
    <2> QED BY <1>4, <1>10, <2>3
  <1> HIDE DEF n
  <1>11. Folds(f, Nat, F, 0, n)
    BY <1>9, <1>10 DEF Folds
  <1>12. PICK h : Iterates(h, f, Nat, F, 0, n)
    <2>1. n \in Nat /\ 0 \in Nat
      BY <1>1
    <2> QED BY ONLY <2>1, <1>3, <1>11, FoldInOrder
  <1>13. /\ h \in [0 .. n -> Nat]
         /\ h[0] = 0
         /\ \A k \in 1 .. n : h[k] = F[<<h[k - 1], k>>]
         /\ f[1 .. n] = h[n]
    BY <1>12 DEF Iterates
  <1>14. ASSUME NEW k \in 1 .. n PROVE h[k] = h[k - 1] + box[a + k - 1].size
    <2>1. k - 1 \in 0 .. n
      BY <1>1
    <2>2. h[k - 1] \in Nat
      BY <1>13, <2>1
    <2>3. h[k] = F[<<h[k - 1], k>>] /\ s[k] = box[a + k - 1]
      BY <1>1, <1>13
    <2>4. F[<<h[k - 1], k>>] = h[k - 1] + s[k].size
      BY <1>4, <2>2
    <2> QED BY <2>3, <2>4
  <1> QED BY <1>1, <1>7, <1>13, <1>14 DEF s, n

(* The ids in a mailbox are unique. *)
IdsDistinct == \A j, k \in 1 .. Len(box) : box[j].id = box[k].id => j = k

BoxOK == box \in Seq(Entry) /\ IdsDistinct

LEMMA Counted ==
  ASSUME BoxOK
  PROVE  /\ Count = Len(box) /\ Count \in Nat
         /\ \A k \in 1 .. Count : box[k] \in Entry
         /\ \A k \in 1 .. Count : Numbered(box[k].id) = k
  <1>1. /\ Count = Len(box) /\ Count \in Nat
        /\ \A k \in 1 .. Count : box[k] \in Entry
    BY DEF BoxOK, Count
  <1>2. ASSUME NEW k \in 1 .. Count
        PROVE  Numbered(box[k].id) = k
    BY <1>1 DEF BoxOK, IdsDistinct, Numbered
  <1> QED BY <1>1, <1>2

LEMMA BytesAreNumbers ==
  ASSUME BoxOK, NEW a \in 1 .. Count, NEW b \in a .. Count
  PROVE  /\ Bytes(a, b) \in Nat
         /\ a = b => Bytes(a, b) = box[a].size /\ Bytes(a, b) <= MaxSize
  <1>1. /\ a \in Int /\ b \in Int /\ a <= b
        /\ \A k \in a .. b : box[k] \in Entry
    BY Counted
  <1> DEFINE n == Len(SubSeq(box, a, b))
  <1>2. n = b - a + 1
    <2>1. Len(SubSeq(box, a, b)) = IF a <= b THEN b - a + 1 ELSE 0
      BY <1>1, SubSeqProperties
    <2> QED BY <1>1, <2>1
  <1>3. PICK h \in [0 .. n -> Nat] :
           /\ h[0] = 0
           /\ \A k \in 1 .. n : h[k] = h[k - 1] + box[a + k - 1].size
           /\ Bytes(a, b) = h[n]
    BY <1>1, BytesInOrder
  <1>4. n \in 0 .. n
    BY <1>1, <1>2
  <1>5. Bytes(a, b) \in Nat
    BY <1>3, <1>4
  <1>6. ASSUME a = b
        PROVE  Bytes(a, b) = box[a].size /\ Bytes(a, b) <= MaxSize
    <2>1. n = 1 /\ a + 1 - 1 = a
      BY <1>1, <1>2, <1>6
    <2>2. box[a].size \in 1 .. MaxSize /\ MaxSize \in Nat
      <3>1. box[a] \in Entry
        BY <1>1
      <3> QED BY <3>1, BrowseAssumption DEF Entry
    <2> HIDE DEF n
    <2>3. h[1] = h[0] + box[a].size
      BY <1>3, <2>1
    <2> QED BY <1>3, <2>1, <2>2, <2>3
  <1> QED BY <1>5, <1>6

(* A page begins with the number that it is asked for, and has all up to one *)
(* to which the envelopes fit.                                             *)
LEMMA PageIs ==
  ASSUME BoxOK, NEW a \in 1 .. Count
  PROVE  /\ Page(a) # <<>>
         /\ Page(a)[1] = box[a].id
         /\ \A b \in a .. Count :
              Bytes(a, b) <= MaxSize => box[b].id \in ToSet(Page(a))
  <1> DEFINE B == {b \in a .. Count : Bytes(a, b) <= MaxSize}
             D == {b - a + 1 : b \in B}
             m == Max(D)
  <1>1. Count \in Nat /\ a \in a .. Count
    BY Counted
  <1>2. D \subseteq 1 .. Count /\ 1 \in D
    <2>1. a \in B
      BY <1>1, BytesAreNumbers
    <2>2. a - a + 1 \in D
      BY <2>1
    <2>3. \A b \in a .. Count : b - a + 1 \in 1 .. Count
      BY <1>1
    <2> QED BY <1>1, <2>2, <2>3
  <1>3. m \in 1 .. Count /\ \A y \in D : y <= m
    <2> HIDE DEF D
    <2> QED BY <1>1, <1>2, MaxOfRange
  <1>4. Page(a) = [k \in 1 .. m |-> box[a + k - 1].id]
    BY DEF Page
  <1>5. \A y \in D : y \in 1 .. m
    BY <1>1, <1>2, <1>3
  <1> HIDE DEF m
  <1>6. 1 \in 1 .. m /\ a + 1 - 1 = a /\ DOMAIN Page(a) = 1 .. m
    BY <1>2, <1>4, <1>5
  <1>7. Page(a)[1] = box[a].id
    BY <1>4, <1>6
  <1>8. ASSUME NEW b \in a .. Count, Bytes(a, b) <= MaxSize
        PROVE  box[b].id \in ToSet(Page(a))
    <2>1. b - a + 1 \in D /\ a + (b - a + 1) - 1 = b
      BY <1>1, <1>8
    <2>2. b - a + 1 \in 1 .. m
      BY <1>5, <2>1
    <2>3. Page(a)[b - a + 1] = box[b].id
      BY <1>4, <2>1, <2>2
    <2> QED BY <1>6, <2>2, <2>3 DEF ToSet
  <1>9. Page(a) # <<>>
    <2>1. DOMAIN <<>> = {}
      OBVIOUS
    <2> QED BY <1>6, <2>1
  <1> QED BY <1>7, <1>8, <1>9

(* The walk back ends at the first envelope or at one from which all fit.   *)
LEMMA WalkBackIs ==
  ASSUME BoxOK, NEW n \in 1 .. Count
  PROVE  /\ WalkBack(n) \in 1 .. n
         /\ WalkBack(n) # 1 => Bytes(WalkBack(n), n) <= MaxSize
  <1> DEFINE over == {k \in 2 .. n : Bytes(k, n) > MaxSize}
             a == Max(over) + 1
  <1>1. Count \in Nat /\ MaxSize \in Nat
    BY Counted, BrowseAssumption
  <1>2. CASE over = {}
    <2>1. WalkBack(n) = 1
      BY <1>2 DEF WalkBack
    <2> QED BY <1>1, <2>1
  <1>3. CASE over # {}
    <2>1. over \subseteq 1 .. n /\ n \in Nat
      BY <1>1
    <2>2. Max(over) \in over /\ \A y \in over : y <= Max(over)
      <3> HIDE DEF over
      <3> QED BY <1>3, <2>1, MaxOfRange
    <2>3. Max(over) # n
      <3>1. Bytes(n, n) <= MaxSize /\ Bytes(n, n) \in Nat
        BY <1>1, BytesAreNumbers
      <3>2. n \notin over
        BY <1>1, <3>1
      <3> QED BY <2>2, <3>2
    <2>4. WalkBack(n) = a
      BY <1>3 DEF WalkBack
    <2>5. Max(over) \in 2 .. n
      BY <2>2
    <2> HIDE DEF over
    <2>6. a \in 2 .. n /\ a \notin over
      BY <1>1, <2>2, <2>3, <2>5
    <2>7. Bytes(a, n) \in Nat
      BY <1>1, <2>6, BytesAreNumbers
    <2>8. Bytes(a, n) <= MaxSize
      BY <1>1, <2>6, <2>7 DEF over
    <2> QED BY <1>1, <2>4, <2>6, <2>8
  <1> QED BY <1>2, <1>3

(* What a request does to the record of the last one. *)
LEMMA AnswerAdjoins ==
  ASSUME BoxOK, NEW k \in {"newer", "older"}, NEW i, Browse(k, i)
  PROVE  PagesAdjoin'
  <1>1. /\ Count = Len(box) /\ Count \in Nat
        /\ \A n \in 1 .. Count : Numbered(box[n].id) = n
    BY Counted
  <1>2. /\ box' = box
        /\ Count' = Count
        /\ \A j : Numbered(j)' = Numbered(j)
        /\ \A a, b : Bytes(a, b)' = Bytes(a, b)
    BY Zenon DEF Browse, Numbered, Count, Bytes
  <1>3. ASSUME last'.code # "page" PROVE PagesAdjoin'
    BY <1>3 DEF PagesAdjoin, NewerAdjoins, OlderAdjoins, IsPage
  <1>4. ASSUME NEW ids, Shown(k, i, ids),
               k = "newer" /\ HaveMsgId(i)
                 => Numbered(ids[1]) = Numbered(i) + 1,
               (k = "older") = HaveMsgId(i)
                 => LET up == IF HaveMsgId(i) THEN Numbered(i) - 1 ELSE Count
                    IN  \/ box[up].id \in ToSet(ids)
                        \/ ids[1] = box[1].id /\ Bytes(1, up) > MaxSize
        PROVE  PagesAdjoin'
    <2>1. CASE ~Accepted(ids)
      <3>1. last'.code = "internal"
        BY <1>4, <2>1 DEF Shown, Asked
      <3> QED BY <1>3, <3>1
    <2>2. CASE Accepted(ids)
      <3>1. last'.kind = k /\ last'.id = i /\ last'.ids = ids
        BY <1>4, <2>2 DEF Shown, Asked
      <3>2. NewerAdjoins'
        BY <1>2, <1>4, <3>1 DEF NewerAdjoins, HaveMsgId
      <3>3. OlderAdjoins'
        BY <1>2, <1>4, <3>1 DEF OlderAdjoins, HaveMsgId
      <3> QED BY <3>2, <3>3 DEF PagesAdjoin
    <2> QED BY <2>1, <2>2
  <1>5. ASSUME NEW c \in {"nomore", "notexist", "internal"}, Told(k, i, c)
        PROVE  PagesAdjoin'
    BY <1>3, <1>5 DEF Told, Asked
  <1>6. CASE HaveMsgId(i)
    <2> DEFINE f == Numbered(i)
    <2>1. WithId(k, i)
      BY <1>6 DEF Browse
    <2>2. CASE i \notin Present
      BY <1>5, <2>1, <2>2 DEF WithId
    <2>3. CASE i \in Present
      <3>1. f \in 1 .. Count /\ box[f].id = i
        BY <2>3 DEF Present, Numbered
      <3> HIDE DEF f
      <3>2. CASE k = "newer" /\ f < Count /\ Shown(k, i, Page(f + 1))
        <4>1. f + 1 \in 1 .. Count
          BY <1>1, <3>1, <3>2
        <4>2. Page(f + 1)[1] = box[f + 1].id
          BY <4>1, PageIs
        <4>3. Numbered(Page(f + 1)[1]) = f + 1
          BY <1>1, <4>1, <4>2
        <4> QED BY <1>4, <1>6, <3>2, <4>3 DEF f
      <3>3. CASE k = "older" /\ f > 1 /\ Shown(k, i, Page(WalkBack(f - 1)))
        <4> DEFINE a == WalkBack(f - 1)
        <4>1. f - 1 \in 1 .. Count
          BY <1>1, <3>1, <3>3
        <4>2. a \in 1 .. (f - 1) /\ (a # 1 => Bytes(a, f - 1) <= MaxSize)
          BY <4>1, WalkBackIs
        <4>3. a \in 1 .. Count /\ f - 1 \in a .. Count
          BY <1>1, <4>1, <4>2
        <4>4. /\ Page(a)[1] = box[a].id
              /\ Bytes(a, f - 1) <= MaxSize => box[f - 1].id \in ToSet(Page(a))
          BY <4>3, PageIs
        <4>6. Bytes(1, f - 1) \in Nat /\ MaxSize \in Nat
          <5>1. 1 \in 1 .. Count /\ f - 1 \in 1 .. Count
            BY <1>1, <4>1
          <5> HIDE DEF a
          <5> QED BY <5>1, BytesAreNumbers, BrowseAssumption
        <4> HIDE DEF a
        <4>5. \/ box[f - 1].id \in ToSet(Page(a))
              \/ Page(a)[1] = box[1].id /\ Bytes(1, f - 1) > MaxSize
          BY <4>2, <4>4, <4>6
        <4> QED BY <1>4, <1>6, <3>3, <4>5 DEF a, f
      <3> QED BY <1>5, <2>1, <2>3, <3>2, <3>3 DEF WithId, After, f
    <2> QED BY <2>2, <2>3
  <1>7. CASE ~HaveMsgId(i)
    <2>1. WithoutId(k, i)
      BY <1>7 DEF Browse
    <2>2. ASSUME NEW ids, k = "older", Shown(k, i, ids) PROVE PagesAdjoin'
      BY <1>4, <1>7, <2>2 DEF HaveMsgId
    <2>3. CASE Count > 0 /\ k = "newer" /\ Shown(k, i, Page(WalkBack(Count)))
      <3> DEFINE n == Count
                 a == WalkBack(n)
      <3>1. n \in 1 .. n
        BY <1>1, <2>3
      <3>2. a \in 1 .. n /\ (a # 1 => Bytes(a, n) <= MaxSize)
        BY <3>1, WalkBackIs
      <3>3. n \in a .. n
        BY <1>1, <3>2
      <3>4. /\ Page(a)[1] = box[a].id
            /\ Bytes(a, n) <= MaxSize => box[n].id \in ToSet(Page(a))
        BY <3>2, <3>3, PageIs
      <3>6. Bytes(1, n) \in Nat /\ MaxSize \in Nat
        BY <3>1, BytesAreNumbers, BrowseAssumption
      <3> HIDE DEF a
      <3>5. \/ box[n].id \in ToSet(Page(a))
            \/ Page(a)[1] = box[1].id /\ Bytes(1, n) > MaxSize
        BY <3>2, <3>4, <3>6
      <3> QED BY <1>4, <1>7, <2>3, <3>5 DEF a
    <2> QED BY <1>5, <2>1, <2>2, <2>3 DEF WithoutId
  <1> QED BY <1>6, <1>7

(* api_message_browse: whoever goes on from the newest envelope that he has *)
(* misses none, and a page of older ones reaches up to what he has, or begins *)
(* with the first envelope and not all from there on fit; for any mailboxes *)
(* and sizes and whatever arrives or is deleted meanwhile.                 *)
THEOREM PagesAlwaysAdjoin == BrowseSpec => []PagesAdjoin
  <1> DEFINE I == BoxOK /\ PagesAdjoin
  <1>1. ASSUME last.code # "page" PROVE PagesAdjoin
    BY <1>1 DEF PagesAdjoin, NewerAdjoins, OlderAdjoins, IsPage
  <1>2. ASSUME last'.code # "page" PROVE PagesAdjoin'
    BY <1>2 DEF PagesAdjoin, NewerAdjoins, OlderAdjoins, IsPage
  <1>3. ASSUME NEW s \in Size, box' = <<[id |-> 0, size |-> s]>>, last'.code # "page" PROVE I'
    <2>1. [id |-> 0, size |-> s] \in Entry
      BY BrowseAssumption DEF Entry
    <2>2. box' \in Seq(Entry) /\ Len(box') = 1
      BY <1>3, <2>1
    <2>3. \A j, k \in 1 .. 1 : j = k
      OBVIOUS
    <2> QED BY <1>2, <1>3, <2>2, <2>3 DEF BoxOK, IdsDistinct, Entry
  <1>4. BrowseInit => I
    <2> SUFFICES ASSUME BrowseInit PROVE I
      OBVIOUS
    <2>1. PICK s \in Size : box = <<[id |-> 0, size |-> s]>>
      BY DEF BrowseInit
    <2>2. [id |-> 0, size |-> s] \in Entry
      BY BrowseAssumption DEF Entry
    <2>3. box \in Seq(Entry) /\ Len(box) = 1
      BY <2>1, <2>2
    <2>4. last.code # "page"
      BY DEF BrowseInit, NotAsked, Asked
    <2>5. \A j, k \in 1 .. 1 : j = k
      OBVIOUS
    <2> QED BY <1>1, <2>3, <2>4, <2>5 DEF BoxOK, IdsDistinct
  <1>5. I /\ [BrowseNext]_browseVars => I'
    <2> SUFFICES ASSUME I, [BrowseNext]_browseVars PROVE I'
      OBVIOUS
    <2>0. ASSUME last' = NotAsked PROVE last'.code # "page"
      BY <2>0 DEF NotAsked, Asked
    <2>1. ASSUME NEW i \in Id, NEW s \in Size, Arrive(i, s) PROVE I'
      <3> DEFINE e == [id |-> i, size |-> s]
      <3>1. e \in Entry /\ e.id = i
        BY DEF Entry
      <3>2. /\ box' = Append(box, e) /\ last'.code # "page"
            /\ \A k \in 1 .. Len(box) : box[k].id # i
        BY <2>0, <2>1 DEF Arrive, Present, Count
      <3> HIDE DEF e
      <3>3. box \in Seq(Entry) /\ IdsDistinct
        BY DEF BoxOK
      <3>4. /\ box' \in Seq(Entry) /\ Len(box') = Len(box) + 1 /\ Len(box) \in Nat
            /\ \A k \in 1 .. Len(box) : box'[k] = box[k]
            /\ box'[Len(box) + 1] = e
        BY <3>1, <3>2, <3>3, AppendProperties
      <3>5. IdsDistinct'
        <4> SUFFICES ASSUME NEW j \in 1 .. Len(box'), NEW k \in 1 .. Len(box'), box'[j].id = box'[k].id
                     PROVE  j = k
          BY DEF IdsDistinct
        <4>1. \A n \in 1 .. Len(box') : n \in 1 .. Len(box) \/ n = Len(box) + 1
          BY <3>4
        <4> QED BY <3>1, <3>2, <3>3, <3>4, <4>1 DEF IdsDistinct
      <3> QED BY <1>2, <3>2, <3>4, <3>5 DEF BoxOK, Entry
    <2>2. ASSUME NEW s \in Size, EmptyAll(s) PROVE I'
      BY <1>3, <2>0, <2>2 DEF EmptyAll
    <2>3. ASSUME NEW i \in Id, TakeOut(i) PROVE I'
      <3> DEFINE n == Numbered(i)
      <3>1. /\ n \in 1 .. Len(box) /\ box' = RemoveAt(box, n) /\ last'.code # "page"
        BY <2>0, <2>3 DEF TakeOut, Present, Count, Numbered
      <3> HIDE DEF n
      <3>2. box \in Seq(Entry) /\ n \in DOMAIN box /\ IdsDistinct
        BY <3>1 DEF BoxOK
      <3>3. /\ box' \in Seq(Entry)
            /\ Len(box') = Len(box) - 1 /\ Len(box) \in Nat
            /\ \A k \in 1 .. (Len(box) - 1) : box'[k] = IF k < n THEN box[k] ELSE box[k + 1]
        BY <3>1, <3>2, RemoveAtProperties
      <3>4. IdsDistinct'
        <4> SUFFICES ASSUME NEW j \in 1 .. (Len(box) - 1), NEW k \in 1 .. (Len(box) - 1),
                            box'[j].id = box'[k].id
                     PROVE  j = k
          BY <3>3 DEF IdsDistinct
        <4> DEFINE Old(m) == IF m < n THEN m ELSE m + 1
        <4>1. Old(j) \in 1 .. Len(box) /\ Old(k) \in 1 .. Len(box)
          BY <3>1, <3>3
        <4>2. box'[j] = box[Old(j)] /\ box'[k] = box[Old(k)]
          BY <3>3
        <4>3. Old(j) = Old(k)
          BY <3>2, <4>1, <4>2 DEF IdsDistinct
        <4> QED BY <3>1, <3>3, <4>3
      <3> QED BY <1>2, <3>1, <3>3, <3>4 DEF BoxOK, Entry
    <2>4. CASE Ask
      <3>1. PICK k \in {"newer", "older"}, i \in have \cup {NoId} : Browse(k, i)
        BY <2>4 DEF Ask, Asks
      <3>2. PagesAdjoin'
        BY <3>1, AnswerAdjoins
      <3>3. box' = box
        BY <3>1 DEF Browse
      <3> QED BY <3>2, <3>3 DEF BoxOK, IdsDistinct, Entry
    <2>5. CASE UNCHANGED browseVars
      BY <2>5 DEF browseVars, BoxOK, IdsDistinct, PagesAdjoin, NewerAdjoins,
                  OlderAdjoins, IsPage, Numbered, Count, Bytes, Entry
    <2> QED BY <2>1, <2>2, <2>3, <2>4, <2>5 DEF BrowseNext
  <1> QED BY <1>4, <1>5, PTL DEF BrowseSpec
=============================================================================
