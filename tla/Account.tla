------------------------------ MODULE Account ------------------------------
(***************************************************************************)
(* AEM-Account (src/account): who exists, at which level, with which       *)
(* addresses.  A single-threaded server: a request is authenticated,       *)
(* carried out in memory, saved, and for two commands passed on to         *)
(* AEM-Storage before it is answered:                                      *)
(*                                                                         *)
(*   request --> "save" --> "saving" --> idle                              *)
(*      |                       '------> "storage" --> idle (create,delete)*)
(*      '------> "settings" -> "setting" --> idle        (limits)          *)
(*                                                                         *)
(* A save that fails is logged, and the request is answered as if it had   *)
(* gone through.                                                           *)
(*                                                                         *)
(* A process that cannot read Account.aem terminates; AEM-Manager's next   *)
(* start of it does no better ("down").                                    *)
(*                                                                         *)
(* Keys, the private field and the MiB limit are left out: no step of this *)
(* component depends on their value.                                       *)
(***************************************************************************)
EXTENDS Naturals, Sequences, FiniteSets, SequencesExt

CONSTANTS
  UserCount,         \* AEM_USERCOUNT, 4096 in the code
  LevelMax,          \* AEM_USERLEVEL_MAX, 3 in the code
  AddressesPerUser,  \* AEM_ADDRESSES_PER_USER, 31 in the code
  Hash,              \* address hashes a request or addressToHash may produce
  AdminHash,         \* those reserved for admins
  LimitChoice,       \* the settings of limits that admins ask for
  MaxTs,             \* bound of the model: timestamps of requests
  None               \* the NULL pointer

Uid         == 0 .. (UserCount - 1)
MasterAdmin == 0
Level       == 0 .. LevelMax
Address     == [hash : Hash, shield : BOOLEAN]
User        == [level : Level, addr : Seq(Address), last : 0 .. MaxTs]
Limits      == [Level -> [nrm : Nat, shd : Nat]]

ASSUME AccountAssumption ==
  /\ UserCount \in Nat \ {0}
  /\ LevelMax \in Nat
  /\ AddressesPerUser \in Nat
  /\ MaxTs \in Nat
  /\ AdminHash \subseteq Hash
  /\ LimitChoice \subseteq Limits
  /\ None \notin User

VARIABLES
  user,        \* user[u], or None
  limits,      \* addresses per level
  diskOk,      \* Account.aem can be read and decrypted
  diskUser,    \* its contents, when it can
  setOk,       \* the same for Settings.aem
  setDisk,
  missed,      \* saveUser has failed, and has not gone through since
  pc,          \* step of the request in progress
  kind,        \* what it is
  actor,       \* api_uid: who makes it
  ret          \* the last answer; "busy" before it

disk == <<diskOk, diskUser, setOk, setDisk>>
vars == <<user, limits, diskOk, diskUser, setOk, setDisk, missed, pc, kind, actor, ret>>

PC   == {"idle", "save", "saving", "storage", "settings", "setting", "down"}
Kind == {"none", "create", "delete", "update", "private",
         "addrCreate", "addrDelete", "limits"}
Ret  == {"ok", "authfail", "refused", "nostorage", "busy", "restart"}

TypeOK ==
  /\ user \in [Uid -> User \cup {None}]
  /\ \A u \in Uid : user[u] # None => Len(user[u].addr) <= AddressesPerUser
  /\ limits \in Limits
  /\ diskOk \in BOOLEAN
  /\ diskUser \in [Uid -> User \cup {None}]
  /\ setOk \in BOOLEAN
  /\ setDisk \in Limits
  /\ missed \in BOOLEAN
  /\ pc \in PC
  /\ kind \in Kind
  /\ actor \in Uid
  /\ ret \in Ret

DefaultLimits ==
  [l \in Level |-> IF l = LevelMax
                   THEN [nrm |-> AddressesPerUser, shd |-> AddressesPerUser]
                   ELSE [nrm |-> 0, shd |-> 0]]

(* utils/Creator makes the master admin; Settings.aem is still empty. *)
Init ==
  /\ user = [u \in Uid |-> IF u = MasterAdmin
                           THEN [level |-> LevelMax, addr |-> <<>>, last |-> 0]
                           ELSE None]
  /\ limits = DefaultLimits
  /\ diskOk = TRUE
  /\ diskUser = user
  /\ setOk = FALSE
  /\ setDisk = DefaultLimits
  /\ missed = FALSE
  /\ pc = "idle"
  /\ kind = "none"
  /\ actor = MasterAdmin
  /\ ret = "restart"

-----------------------------------------------------------------------------
(* Authentication and answers. *)

Exists(u) == user[u] # None
IsAdmin(u) == user[u].level = LevelMax

(* api_auth: u's key fits, and the request is newer than the last one that *)
(* was accepted.  (A request too far from the server's clock is AuthFail.) *)
Authentic(u, ts) == pc = "idle" /\ Exists(u) /\ ts > user[u].last
Noted(u, ts)     == [user EXCEPT ![u].last = ts]

Answer(r) == pc' = "idle" /\ kind' = "none" /\ actor' = MasterAdmin /\ ret' = r

Proceed(k, u, p) == kind' = k /\ actor' = u /\ pc' = p /\ ret' = "busy"

Replied(u, ts, r) ==
  /\ user' = Noted(u, ts)
  /\ Answer(r)
  /\ UNCHANGED <<limits, disk, missed>>

(* Changed(u, k, new): new is what the handler leaves in memory. *)
Changed(u, k, new) ==
  /\ user' = new
  /\ Proceed(k, u, "save")
  /\ UNCHANGED <<limits, disk, missed>>

AuthFail == pc = "idle" /\ Answer("authfail") /\ UNCHANGED <<user, limits, disk, missed>>

(* Commands that change nothing but the time of the last request: the      *)
(* browsing ones, Address/Update, whose handler is empty, Message/Create,  *)
(* those that AEM-Account has no part in, and the first half of the ones   *)
(* that are continued with a body.                                         *)
Query(u, ts) == Authentic(u, ts) /\ Replied(u, ts, "ok")

-----------------------------------------------------------------------------
(* Accounts. *)

(* Slip: any user may delete any account. *)
DeleteByAnyone(u, ts, d) ==
  /\ Authentic(u, ts)
  /\ d # MasterAdmin /\ Exists(d)
  /\ Changed(u, "delete", [Noted(u, ts) EXCEPT ![d] = None])

AccountDelete(u, ts, d) ==
  /\ Authentic(u, ts)
  /\ \/ /\ d = MasterAdmin \/ (~IsAdmin(u) /\ u # d) \/ ~Exists(d)
        /\ Replied(u, ts, "refused")
     \/ /\ d # MasterAdmin /\ (IsAdmin(u) \/ u = d) /\ Exists(d)
        /\ Changed(u, "delete", [Noted(u, ts) EXCEPT ![d] = None])

(* Slip: the master admin can be given another level. *)
UpdateMasterToo(u, ts, d, byte) ==
  /\ Authentic(u, ts)
  /\ Exists(d)
  /\ IsAdmin(u) \/ (u = d /\ byte <= user[u].level)
  /\ Changed(u, "update", [Noted(u, ts) EXCEPT ![d].level = byte % (LevelMax + 1)])

(* Slip: the level that is asked for is not compared with the own one. *)
UpdateOwnToAny(u, ts, d, byte) ==
  /\ Authentic(u, ts)
  /\ d # MasterAdmin /\ Exists(d)
  /\ IsAdmin(u) \/ u = d
  /\ Changed(u, "update", [Noted(u, ts) EXCEPT ![d].level = byte % (LevelMax + 1)])

(* The request holds a byte, the comparison is made with the byte, and the *)
(* field has two bits.                                                     *)
AccountUpdate(u, ts, d, byte) ==
  /\ Authentic(u, ts)
  /\ \/ /\ \/ d = MasterAdmin
           \/ ~IsAdmin(u) /\ (u # d \/ byte > user[u].level)
           \/ ~Exists(d)
        /\ Replied(u, ts, "refused")
     \/ /\ d # MasterAdmin /\ Exists(d)
        /\ IsAdmin(u) \/ (u = d /\ byte <= user[u].level)
        /\ Changed(u, "update", [Noted(u, ts) EXCEPT ![d].level = byte % (LevelMax + 1)])

(* The UserID is derived from the keys that the request holds. *)
AccountCreate(u, ts, n) ==
  /\ Authentic(u, ts)
  /\ \/ Exists(n) /\ Replied(u, ts, "refused")
     \/ /\ ~Exists(n)
        /\ Changed(u, "create",
                   [Noted(u, ts) EXCEPT ![n] = [level |-> 0, addr |-> <<>>, last |-> 0]])

PrivateUpdate(u, ts) == Authentic(u, ts) /\ Changed(u, "private", Noted(u, ts))

-----------------------------------------------------------------------------
(* Addresses. *)

NumAddresses(u, shield) ==
  Cardinality({i \in DOMAIN user[u].addr : user[u].addr[i].shield = shield})

Limit(u, shield) ==
  IF shield THEN limits[user[u].level].shd ELSE limits[user[u].level].nrm

(* Slip: the size of the arrays is forgotten. *)
AtLevelLimit(u, shield) == NumAddresses(u, shield) >= Limit(u, shield)

AtLimit(u, shield) ==
  \/ Len(user[u].addr) >= AddressesPerUser
  \/ NumAddresses(u, shield) >= Limit(u, shield)

Owns(u) == IF Exists(u) THEN ToSet(user[u].addr) ELSE {}

(* Slip: the search ends one user early. *)
InUseBelowLast(a) == \E v \in 0 .. (UserCount - 2) : a \in Owns(v)

(* hashToUid finds somebody. *)
InUse(a) == \E v \in Uid : a \in Owns(v)

(* Slip: answers without saving. *)
AddressCreateUnsaved(u, ts, a) ==
  /\ Authentic(u, ts)
  /\ ~AtLimit(u, a.shield) /\ ~InUse(a)
  /\ user' = [Noted(u, ts) EXCEPT ![u].addr = Append(@, a)]
  /\ Answer("ok")
  /\ UNCHANGED <<limits, disk, missed>>

(* A normal address comes with its hash, a shield address is drawn by the  *)
(* server; in both cases any hash may turn up, a forbidden one too.        *)
AddressCreate(u, ts, a) ==
  /\ Authentic(u, ts)
  /\ \/ Replied(u, ts, "refused")
     \/ /\ ~AtLimit(u, a.shield)
        /\ ~a.shield /\ ~IsAdmin(u) => a.hash \notin AdminHash
        /\ ~InUse(a)
        /\ Changed(u, "addrCreate", [Noted(u, ts) EXCEPT ![u].addr = Append(@, a)])

(* Slip: answers without saving. *)
AddressDeleteUnsaved(u, ts, h) ==
  /\ Authentic(u, ts)
  /\ \E i \in DOMAIN user[u].addr :
       /\ user[u].addr[i].hash = h
       /\ user' = [Noted(u, ts) EXCEPT ![u].addr = RemoveAt(@, i)]
       /\ Answer("ok")
       /\ UNCHANGED <<limits, disk, missed>>

(* Searches by hash alone, and takes the first. *)
AddressDelete(u, ts, h) ==
  /\ Authentic(u, ts)
  /\ \/ /\ \A i \in DOMAIN user[u].addr : user[u].addr[i].hash # h
        /\ Replied(u, ts, "refused")
     \/ \E i \in DOMAIN user[u].addr :
          /\ user[u].addr[i].hash = h
          /\ \A k \in 1 .. (i - 1) : user[u].addr[k].hash # h
          /\ Changed(u, "addrDelete", [Noted(u, ts) EXCEPT ![u].addr = RemoveAt(@, i)])

-----------------------------------------------------------------------------
(* Settings; any user may ask. *)

SettingLimits(u, ts, new) ==
  /\ Authentic(u, ts)
  /\ user' = Noted(u, ts)
  /\ limits' = new
  /\ Proceed("limits", u, "settings")
  /\ UNCHANGED <<disk, missed>>

SettingsTruncate ==
  /\ pc = "settings"
  /\ setOk' = FALSE
  /\ Proceed(kind, actor, "setting")
  /\ UNCHANGED <<user, limits, diskOk, diskUser, setDisk, missed>>

SettingsWrite ==
  /\ pc = "setting"
  /\ setOk' = TRUE
  /\ setDisk' = limits
  /\ Answer("ok")
  /\ UNCHANGED <<user, limits, diskOk, diskUser, missed>>

(* The file is not opened, or not all of it is written. *)
SettingsMissed ==
  /\ pc \in {"settings", "setting"}
  /\ Answer("ok")
  /\ UNCHANGED <<user, limits, disk, missed>>

-----------------------------------------------------------------------------
(* saveUser, and the call to AEM-Storage. *)

AfterSave ==
  IF kind \in {"create", "delete"} THEN Proceed(kind, actor, "storage") ELSE Answer("ok")

SaveTruncate ==
  /\ pc = "save"
  /\ diskOk' = FALSE
  /\ Proceed(kind, actor, "saving")
  /\ UNCHANGED <<user, limits, diskUser, setOk, setDisk, missed>>

SaveWrite ==
  /\ pc = "saving"
  /\ diskOk' = TRUE
  /\ diskUser' = user
  /\ missed' = FALSE
  /\ AfterSave
  /\ UNCHANGED <<user, limits, setOk, setDisk>>

(* No memory, or the file is not opened; or not all of it is written.  The  *)
(* handlers are not told.                                                  *)
SaveMissed ==
  /\ pc \in {"save", "saving"}
  /\ missed' = TRUE
  /\ AfterSave
  /\ UNCHANGED <<user, limits, disk>>

(* Whatever AEM-Storage answers, or if it does not, the account is made or *)
(* gone.                                                                   *)
StorageAnswers ==
  /\ pc = "storage"
  /\ Answer("ok") \/ Answer("nostorage")
  /\ UNCHANGED <<user, limits, disk, missed>>

-----------------------------------------------------------------------------
(* ioSetup. *)

Start ==
  /\ user' = IF diskOk THEN diskUser ELSE [u \in Uid |-> None]
  /\ limits' = IF setOk THEN setDisk ELSE DefaultLimits
  /\ pc' = IF diskOk THEN "idle" ELSE "down"
  /\ kind' = "none"
  /\ actor' = MasterAdmin
  /\ ret' = "restart"
  /\ missed' = FALSE
  /\ UNCHANGED disk

(* SIGTERM is acted upon between requests. *)
Restart == pc = "idle" /\ Start

(* Kill, power loss or a fault of the process, at any moment. *)
Crash == Start

Next ==
  \/ \E u \in Uid, ts \in 1 .. MaxTs :
       \/ Query(u, ts)
       \/ \E d \in Uid : AccountDelete(u, ts, d)
       \/ \E d \in Uid, byte \in 0 .. (2 * LevelMax + 1) : AccountUpdate(u, ts, d, byte)
       \/ \E n \in Uid : AccountCreate(u, ts, n)
       \/ PrivateUpdate(u, ts)
       \/ \E a \in Address : AddressCreate(u, ts, a)
       \/ \E h \in Hash : AddressDelete(u, ts, h)
       \/ \E new \in LimitChoice : SettingLimits(u, ts, new)
  \/ AuthFail
  \/ SettingsTruncate \/ SettingsWrite \/ SettingsMissed
  \/ SaveTruncate \/ SaveWrite \/ SaveMissed \/ StorageAnswers
  \/ Restart

Spec == Init /\ [][Next \/ Crash]_vars

-----------------------------------------------------------------------------
(* What other processes are told. *)

(* mta_getUid: the owner; an unregistered normal address acts as if it      *)
(* existed, an unregistered shield address does not exist.                 *)
GetUid(a) ==
  IF InUse(a) THEN {v \in Uid : a \in Owns(v)} ELSE IF a.shield THEN {} ELSE {UserCount}

(* api_message_create, public mail: "return list of users that exist". *)
PublicList == {u \in 0 .. (UserCount - 2) : Exists(u)}

-----------------------------------------------------------------------------
(* Correctness. *)

(* An address belongs to one user, once: hashToUid answers with the first   *)
(* user it finds, so a second owner would never get the mail.  Holds over  *)
(* any order of creations and deletions by several users, and over starts. *)
AddressesUnique ==
  /\ \A u \in Uid : Exists(u) => IsInjective(user[u].addr)
  /\ \A u, v \in Uid : u # v => Owns(u) \cap Owns(v) = {}

(* There is always a master admin who is an admin: no request of anybody    *)
(* deletes or demotes user 0.                                              *)
MasterRemains ==
  pc # "down" => Exists(MasterAdmin) /\ IsAdmin(MasterAdmin)

(* What a start would read differs from memory only in the time of the last *)
(* request: every handler that changes a user saves before it answers, and  *)
(* one save makes up for those that failed before it.                      *)
Persistent(f) ==
  [u \in Uid |-> IF f[u] = None THEN None ELSE [f[u] EXCEPT !.last = 0]]

SavedWhenIdle ==
  pc \in {"idle", "storage"} /\ ~missed
    => diskOk /\ Persistent(diskUser) = Persistent(user)

(* A start that need not find what was in memory: the process ends before a *)
(* change has been saved, or the last save failed.                         *)
Undone == ret' = "restart" /\ (pc \in {"save", "saving"} \/ missed)

(* Nobody rises in level but by an admin's request, whatever byte a request *)
(* asks for; a start lets nobody rise unless it undoes a change.           *)
OnlyAdminsPromote ==
  [][\A u \in Uid : Exists(u) /\ Exists(u)' /\ user'[u].level > user[u].level
       => \/ ret' # "restart" /\ IsAdmin(actor')
          \/ Undone]_vars

(* Nobody loses the account but by the own request or an admin's; a start   *)
(* finds everybody unless it undoes a change.                              *)
OnlyOwnerOrAdminDeletes ==
  [][\A u \in Uid : Exists(u) /\ ~Exists(u)'
       => \/ ret' # "restart" /\ (actor' = u \/ IsAdmin(actor'))
          \/ Undone]_vars

(* A user loses an address only by the own request or with the account; a   *)
(* start finds every address unless it undoes a change.                    *)
AddressesKept ==
  [][\A u \in Uid : Exists(u)' =>
       \/ Owns(u) \subseteq Owns(u)'
       \/ actor' = u /\ kind' = "addrDelete"
       \/ Undone]_vars

(* "Public: return list of users that exist" (api_message_create). *)
PublicReachesAll == pc = "idle" => PublicList = {u \in Uid : Exists(u)}

(* "For each user, AEM-Account stores ... the time of the last successful   *)
(* request": a start finds it.                                             *)
LastRequestKept ==
  [][\A u \in Uid : ret' = "restart" /\ Exists(u) /\ Exists(u)'
       => user'[u].last = user[u].last]_vars

(* "Account holds the user data in memory, and stores the encrypted data in *)
(* /var/lib/allears/Account.aem": a start finds at least the master admin, *)
(* whom nobody can delete.                                                 *)
UsersAreKept == [][ret' = "restart" => Exists(MasterAdmin)']_vars
=============================================================================
