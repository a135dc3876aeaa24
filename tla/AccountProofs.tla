--------------------------- MODULE AccountProofs ---------------------------
(***************************************************************************)
(* Theorems about Account, for every number of users, levels, hashes and   *)
(* limits, wherever the process ends.                                      *)
(***************************************************************************)
EXTENDS Account, SequenceLemmas, TLAPS

-----------------------------------------------------------------------------
(* The inductive invariant.  A start replaces the users in memory by those  *)
(* of Account.aem, so whatever is to hold of the former has to hold of the *)
(* latter.                                                                 *)

UsersOf(f) ==
  /\ f \in [Uid -> User \cup {None}]
  /\ \A u \in Uid : f[u] # None => Len(f[u].addr) <= AddressesPerUser

OwnedIn(f, u) == IF f[u] # None THEN ToSet(f[u].addr) ELSE {}

UniqueIn(f) ==
  /\ \A u \in Uid : f[u] # None => IsInjective(f[u].addr)
  /\ \A u, v \in Uid : u # v => OwnedIn(f, u) \cap OwnedIn(f, v) = {}

MasterIn(f) == f[MasterAdmin] # None /\ f[MasterAdmin].level = LevelMax

Good(f) == UsersOf(f) /\ UniqueIn(f) /\ MasterIn(f)

Rest ==
  /\ limits \in Limits
  /\ diskOk \in BOOLEAN
  /\ setOk \in BOOLEAN
  /\ setDisk \in Limits
  /\ missed \in BOOLEAN
  /\ pc \in PC
  /\ kind \in Kind
  /\ actor \in Uid
  /\ ret \in Ret

(* The steps at which no save is under way; Account.aem is up to date then, *)
(* unless the last save failed.                                            *)
Settled == pc \in {"idle", "storage", "settings", "setting"}

Inv ==
  /\ Rest
  /\ UsersOf(user) /\ UniqueIn(user)
  /\ pc # "down" => MasterIn(user)
  /\ Good(diskUser)
  /\ pc = "down" => user = [u \in Uid |-> None] /\ ~diskOk
  /\ Settled /\ ~missed => diskOk /\ Persistent(diskUser) = Persistent(user)

LEMMA InvIsEnough == Inv => TypeOK /\ AddressesUnique /\ MasterRemains /\ SavedWhenIdle
  <1> SUFFICES ASSUME Inv PROVE TypeOK /\ AddressesUnique /\ MasterRemains /\ SavedWhenIdle
    OBVIOUS
  <1>1. TypeOK
    BY DEF Inv, Rest, UsersOf, Good, TypeOK
  <1>2. \A u \in Uid : Owns(u) = OwnedIn(user, u)
    BY DEF Owns, OwnedIn, Exists
  <1>3. AddressesUnique
    BY <1>2 DEF Inv, UniqueIn, AddressesUnique, Exists
  <1>4. MasterRemains
    BY DEF Inv, MasterIn, MasterRemains, Exists, IsAdmin
  <1>5. SavedWhenIdle
    BY DEF Inv, Settled, SavedWhenIdle
  <1> QED BY <1>1, <1>3, <1>4, <1>5

LEMMA MasterIsUid == MasterAdmin \in Uid
  BY AccountAssumption DEF Uid, MasterAdmin

LEMMA ZeroTypes == 0 \in Level /\ LevelMax \in Level /\ 0 \in 0 .. MaxTs
  BY AccountAssumption DEF Level

LEMMA DefaultsAreLimits == DefaultLimits \in Limits
  BY AccountAssumption DEF DefaultLimits, Limits

(* A user as made by createAccount or by api_account_create. *)
LEMMA NewUser ==
  ASSUME NEW l \in Level
  PROVE  /\ [level |-> l, addr |-> <<>>, last |-> 0] \in User
         /\ Len(<<>>) <= AddressesPerUser
         /\ IsInjective(<<>>)
         /\ ToSet(<<>>) = {}
  BY AccountAssumption, ZeroTypes, EmptyInjective DEF User, ToSet

LEMMA InvInit == Init => Inv
  <1> SUFFICES ASSUME Init PROVE Inv
    OBVIOUS
  <1>1. Rest
    BY MasterIsUid, DefaultsAreLimits DEF Init, Rest, PC, Kind, Ret
  <1>2. UsersOf(user)
    <2>1. [level |-> LevelMax, addr |-> <<>>, last |-> 0] \in User
      BY NewUser, ZeroTypes
    <2> QED BY <2>1, AccountAssumption DEF Init, UsersOf
  <1>3. UniqueIn(user)
    <2>1. \A u \in Uid : OwnedIn(user, u) = {}
      BY NewUser, ZeroTypes DEF Init, OwnedIn
    <2> QED BY <2>1, NewUser, ZeroTypes DEF Init, UniqueIn
  <1>4. MasterIn(user)
    <2>1. [level |-> LevelMax, addr |-> <<>>, last |-> 0] \in User
      BY NewUser, ZeroTypes
    <2> QED BY <2>1, MasterIsUid, AccountAssumption DEF Init, MasterIn
  <1>5. diskUser = user /\ diskOk /\ pc # "down"
    BY DEF Init
  <1> QED BY <1>1, <1>2, <1>3, <1>4, <1>5 DEF Inv, Good

-----------------------------------------------------------------------------
(* What one handler may do to the users. *)

(* One user replaced by another with addresses of its own. *)
LEMMA ReplacedGood ==
  ASSUME NEW f, Good(f), NEW d \in Uid, NEW x \in User,
         Len(x.addr) <= AddressesPerUser,
         IsInjective(x.addr),
         \A v \in Uid \ {d} : ToSet(x.addr) \cap OwnedIn(f, v) = {},
         d = MasterAdmin => x.level = LevelMax
  PROVE  Good([f EXCEPT ![d] = x])
  <1> DEFINE g == [f EXCEPT ![d] = x]
  <1>1. f \in [Uid -> User \cup {None}]
    BY DEF Good, UsersOf
  <1>2. /\ g \in [Uid -> User \cup {None}]
        /\ g[d] = x
        /\ \A v \in Uid \ {d} : g[v] = f[v]
    BY <1>1
  <1>3. x # None
    BY AccountAssumption
  <1> HIDE DEF g
  <1>4. UsersOf(g)
    BY <1>2 DEF Good, UsersOf
  <1>5. \A v \in Uid \ {d} : OwnedIn(g, v) = OwnedIn(f, v)
    BY <1>2 DEF OwnedIn
  <1>6. OwnedIn(g, d) = ToSet(x.addr)
    BY <1>2, <1>3 DEF OwnedIn
  <1>7. \A u, v \in Uid : u # v => OwnedIn(g, u) \cap OwnedIn(g, v) = {}
    <2> SUFFICES ASSUME NEW u \in Uid, NEW v \in Uid, u # v
                 PROVE  OwnedIn(g, u) \cap OwnedIn(g, v) = {}
      OBVIOUS
    <2>1. CASE u = d
      BY <1>5, <1>6, <2>1
    <2>2. CASE v = d
      BY <1>5, <1>6, <2>2
    <2>3. CASE u # d /\ v # d
      BY <1>5, <2>3 DEF Good, UniqueIn
    <2> QED BY <2>1, <2>2, <2>3
  <1>8. \A u \in Uid : g[u] # None => IsInjective(g[u].addr)
    BY <1>2 DEF Good, UniqueIn
  <1>9. UniqueIn(g)
    BY <1>7, <1>8 DEF UniqueIn
  <1>10. MasterIn(g)
    BY <1>2, <1>3, MasterIsUid DEF Good, MasterIn
  <1> QED BY <1>4, <1>9, <1>10 DEF Good, g

(* A user with fewer addresses than before, or as many. *)
LEMMA ReducedGood ==
  ASSUME NEW f, Good(f), NEW d \in Uid, f[d] # None, NEW x \in User,
         Len(x.addr) <= AddressesPerUser,
         IsInjective(x.addr),
         ToSet(x.addr) \subseteq ToSet(f[d].addr),
         d = MasterAdmin => x.level = LevelMax
  PROVE  Good([f EXCEPT ![d] = x])
  <1>1. \A v \in Uid \ {d} : ToSet(x.addr) \cap OwnedIn(f, v) = {}
    <2> SUFFICES ASSUME NEW v \in Uid \ {d} PROVE ToSet(x.addr) \cap OwnedIn(f, v) = {}
      OBVIOUS
    <2>1. OwnedIn(f, d) = ToSet(f[d].addr)
      BY DEF OwnedIn
    <2>2. OwnedIn(f, d) \cap OwnedIn(f, v) = {}
      BY DEF Good, UniqueIn
    <2> QED BY <2>1, <2>2
  <1> QED BY <1>1, ReplacedGood

LEMMA DeletedGood ==
  ASSUME NEW f, Good(f), NEW d \in Uid, d # MasterAdmin
  PROVE  Good([f EXCEPT ![d] = None])
  <1> DEFINE g == [f EXCEPT ![d] = None]
  <1>1. f \in [Uid -> User \cup {None}]
    BY DEF Good, UsersOf
  <1>2. /\ g \in [Uid -> User \cup {None}]
        /\ g[d] = None
        /\ \A v \in Uid \ {d} : g[v] = f[v]
    BY <1>1
  <1> HIDE DEF g
  <1>3. UsersOf(g)
    BY <1>2 DEF Good, UsersOf
  <1>4. OwnedIn(g, d) = {} /\ \A v \in Uid \ {d} : OwnedIn(g, v) = OwnedIn(f, v)
    BY <1>2 DEF OwnedIn
  <1>5. \A u, v \in Uid : u # v => OwnedIn(g, u) \cap OwnedIn(g, v) = {}
    BY <1>4 DEF Good, UniqueIn
  <1>6. \A u \in Uid : g[u] # None => IsInjective(g[u].addr)
    BY <1>2 DEF Good, UniqueIn
  <1>7. MasterIn(g)
    BY <1>2, MasterIsUid DEF Good, MasterIn
  <1> QED BY <1>3, <1>5, <1>6, <1>7 DEF Good, UniqueIn, g

(* The facts about the user who makes a request. *)
LEMMA ActorTypes ==
  ASSUME Inv, NEW u \in Uid, NEW ts \in 1 .. MaxTs, Authentic(u, ts)
  PROVE  /\ Good(user) /\ pc = "idle"
         /\ user[u] \in User /\ user[u] # None
         /\ ts \in 0 .. MaxTs
  <1>1. pc = "idle" /\ user[u] # None
    BY DEF Authentic, Exists
  <1>2. Good(user)
    BY <1>1 DEF Inv, Good
  <1>3. user[u] \in User
    BY <1>1, <1>2 DEF Good, UsersOf
  <1> QED BY <1>1, <1>2, <1>3, AccountAssumption

(* Noting the time of a request changes nothing else. *)
LEMMA NotedFacts ==
  ASSUME Inv, NEW u \in Uid, NEW ts \in 1 .. MaxTs, Authentic(u, ts)
  PROVE  /\ Good(Noted(u, ts))
         /\ Persistent(Noted(u, ts)) = Persistent(user)
         /\ \A v \in Uid : /\ Noted(u, ts)[v] = None <=> user[v] = None
                           /\ Noted(u, ts)[v].level = user[v].level
                           /\ Noted(u, ts)[v].addr = user[v].addr
  <1> DEFINE x == [user[u] EXCEPT !.last = ts]
             n == [user EXCEPT ![u] = x]
  <1>1. /\ Good(user) /\ user[u] \in User /\ user[u] # None
        /\ ts \in 0 .. MaxTs
    BY ActorTypes
  <1>2. Noted(u, ts) = n
    BY DEF Noted
  <1>3. user \in [Uid -> User \cup {None}]
    BY <1>1 DEF Good, UsersOf
  <1>4. x \in User /\ x.addr = user[u].addr /\ x.level = user[u].level
    BY <1>1 DEF User
  <1>5. x # None
    BY <1>4, AccountAssumption
  <1>6. Good(n)
    <2>1. Len(x.addr) <= AddressesPerUser
      BY <1>1, <1>4 DEF Good, UsersOf
    <2>2. IsInjective(x.addr)
      BY <1>1, <1>4 DEF Good, UniqueIn
    <2>3. u = MasterAdmin => x.level = LevelMax
      BY <1>1, <1>4 DEF Good, MasterIn
    <2>4. ToSet(x.addr) \subseteq ToSet(user[u].addr)
      BY <1>4
    <2> HIDE DEF x
    <2> QED BY <1>1, <1>4, <2>1, <2>2, <2>3, <2>4, ReducedGood
  <1>7. [x EXCEPT !.last = 0] = [user[u] EXCEPT !.last = 0]
    BY <1>1 DEF User
  <1>8. Persistent(n) = Persistent(user)
    <2>1. ASSUME NEW v \in Uid
          PROVE  (IF n[v] = None THEN None ELSE [n[v] EXCEPT !.last = 0])
                 = (IF user[v] = None THEN None ELSE [user[v] EXCEPT !.last = 0])
      <3>1. CASE v = u
        <4>1. n[v] = x
          BY <1>3, <3>1
        <4> HIDE DEF n, x
        <4> QED BY <1>1, <1>5, <1>7, <3>1, <4>1
      <3>2. CASE v # u
        BY <1>3, <3>2
      <3> QED BY <3>1, <3>2
    <2> QED BY <2>1 DEF Persistent
  <1>9. \A v \in Uid : /\ n[v] = None <=> user[v] = None
                       /\ n[v].level = user[v].level
                       /\ n[v].addr = user[v].addr
    <2> SUFFICES ASSUME NEW v \in Uid
                 PROVE  /\ n[v] = None <=> user[v] = None
                        /\ n[v].level = user[v].level
                        /\ n[v].addr = user[v].addr
      OBVIOUS
    <2>1. CASE v = u
      <3>1. n[v] = x
        BY <1>3, <2>1
      <3> HIDE DEF n, x
      <3> QED BY <1>1, <1>4, <1>5, <2>1, <3>1
    <2>2. CASE v # u
      BY <1>3, <2>2
    <2> QED BY <2>1, <2>2
  <1> QED BY <1>2, <1>6, <1>8, <1>9

-----------------------------------------------------------------------------
(* The steps of Spec and the crash. *)

LEMMA RepliedKeepsInv ==
  ASSUME Inv, NEW u \in Uid, NEW ts \in 1 .. MaxTs, Authentic(u, ts),
         NEW r \in Ret, Replied(u, ts, r)
  PROVE  Inv'
  <1>1. /\ Good(Noted(u, ts))
        /\ Persistent(Noted(u, ts)) = Persistent(user)
    BY NotedFacts
  <1>2. pc = "idle"
    BY ActorTypes
  <1>3. /\ user' = Noted(u, ts)
        /\ pc' = "idle" /\ kind' = "none" /\ actor' = MasterAdmin /\ ret' = r
        /\ UNCHANGED <<limits, diskOk, diskUser, setOk, setDisk, missed>>
    BY DEF Replied, Answer, disk
  <1>4. Rest'
    BY <1>3, MasterIsUid DEF Inv, Rest, PC, Kind
  <1>5. Good(user')
    BY <1>1, <1>3
  <1>6. ~missed' => diskOk' /\ Persistent(diskUser') = Persistent(user')
    BY <1>1, <1>2, <1>3 DEF Inv, Settled
  <1> QED BY <1>3, <1>4, <1>5, <1>6 DEF Inv, Good

LEMMA ChangedKeepsInv ==
  ASSUME Inv, NEW u \in Uid, NEW k \in Kind, NEW new, Good(new), Changed(u, k, new)
  PROVE  Inv'
  <1>1. /\ user' = new
        /\ pc' = "save" /\ kind' = k /\ actor' = u /\ ret' = "busy"
        /\ UNCHANGED <<limits, diskOk, diskUser, setOk, setDisk, missed>>
    BY DEF Changed, Proceed, disk
  <1>2. Rest'
    BY <1>1 DEF Inv, Rest, PC, Ret
  <1>3. ~Settled'
    BY <1>1 DEF Settled
  <1> QED BY <1>1, <1>2, <1>3 DEF Inv, Good

LEMMA DeleteKeepsInv ==
  ASSUME Inv, NEW u \in Uid, NEW ts \in 1 .. MaxTs, NEW d \in Uid, AccountDelete(u, ts, d)
  PROVE  Inv'
  <1>1. Authentic(u, ts)
    BY DEF AccountDelete
  <1>2. CASE Replied(u, ts, "refused")
    BY <1>1, <1>2, RepliedKeepsInv DEF Ret
  <1>3. CASE /\ d # MasterAdmin
             /\ Changed(u, "delete", [Noted(u, ts) EXCEPT ![d] = None])
    <2>1. Good([Noted(u, ts) EXCEPT ![d] = None])
      BY <1>1, <1>3, NotedFacts, DeletedGood
    <2>2. "delete" \in Kind
      BY DEF Kind
    <2> QED BY <1>3, <2>1, <2>2, ChangedKeepsInv
  <1> QED BY <1>2, <1>3 DEF AccountDelete

LEMMA UpdateKeepsInv ==
  ASSUME Inv, NEW u \in Uid, NEW ts \in 1 .. MaxTs, NEW d \in Uid,
         NEW byte \in 0 .. (2 * LevelMax + 1), AccountUpdate(u, ts, d, byte)
  PROVE  Inv'
  <1>1. Authentic(u, ts)
    BY DEF AccountUpdate
  <1>2. CASE Replied(u, ts, "refused")
    BY <1>1, <1>2, RepliedKeepsInv DEF Ret
  <1> DEFINE n == Noted(u, ts)
             l == byte % (LevelMax + 1)
  <1>3. CASE /\ d # MasterAdmin /\ Exists(d)
             /\ Changed(u, "update", [n EXCEPT ![d].level = l])
    <2>1. Good(n) /\ (n[d] = None <=> user[d] = None)
      BY <1>1, NotedFacts
    <2>2. l \in Level
      BY AccountAssumption DEF Level
    <2> HIDE DEF n, l
    <2>3. n[d] \in User /\ n[d] # None
      BY <1>3, <2>1 DEF Exists, Good, UsersOf
    <2> DEFINE x == [n[d] EXCEPT !.level = l]
    <2>4. x \in User /\ x.addr = n[d].addr
      BY <2>2, <2>3 DEF User
    <2>5. Len(x.addr) <= AddressesPerUser /\ IsInjective(x.addr)
      BY <2>1, <2>3, <2>4 DEF Good, UsersOf, UniqueIn
    <2>6. [n EXCEPT ![d].level = l] = [n EXCEPT ![d] = x]
      OBVIOUS
    <2>7. Good([n EXCEPT ![d] = x])
      <3> HIDE DEF x
      <3>1. ToSet(x.addr) \subseteq ToSet(n[d].addr)
        BY <2>4
      <3> QED BY <1>3, <2>1, <2>3, <2>4, <2>5, <3>1, ReducedGood
    <2>8. "update" \in Kind
      BY DEF Kind
    <2> HIDE DEF x
    <2> QED BY <1>3, <2>6, <2>7, <2>8, ChangedKeepsInv
  <1> QED BY <1>2, <1>3 DEF AccountUpdate

LEMMA CreateKeepsInv ==
  ASSUME Inv, NEW u \in Uid, NEW ts \in 1 .. MaxTs, NEW n \in Uid, AccountCreate(u, ts, n)
  PROVE  Inv'
  <1>1. Authentic(u, ts)
    BY DEF AccountCreate
  <1>2. CASE Replied(u, ts, "refused")
    BY <1>1, <1>2, RepliedKeepsInv DEF Ret
  <1> DEFINE x == [level |-> 0, addr |-> <<>>, last |-> 0]
  <1>3. CASE ~Exists(n) /\ Changed(u, "create", [Noted(u, ts) EXCEPT ![n] = x])
    <2>1. Good(Noted(u, ts))
      BY <1>1, NotedFacts
    <2>2. n # MasterAdmin
      BY <1>1, <1>3, ActorTypes DEF Good, MasterIn, Exists
    <2>3. /\ x \in User /\ x.addr = <<>> /\ Len(<<>>) <= AddressesPerUser
          /\ IsInjective(<<>>) /\ ToSet(<<>>) = {}
      BY NewUser, ZeroTypes
    <2> HIDE DEF x
    <2>4. Good([Noted(u, ts) EXCEPT ![n] = x])
      BY <2>1, <2>2, <2>3, ReplacedGood
    <2>5. "create" \in Kind
      BY DEF Kind
    <2> QED BY <1>3, <2>4, <2>5, ChangedKeepsInv
  <1> QED BY <1>2, <1>3 DEF AccountCreate

LEMMA PrivateKeepsInv ==
  ASSUME Inv, NEW u \in Uid, NEW ts \in 1 .. MaxTs, PrivateUpdate(u, ts)
  PROVE  Inv'
  <1>1. Authentic(u, ts) /\ Changed(u, "private", Noted(u, ts))
    BY DEF PrivateUpdate
  <1>2. Good(Noted(u, ts))
    BY <1>1, NotedFacts
  <1>3. "private" \in Kind
    BY DEF Kind
  <1> QED BY <1>1, <1>2, <1>3, ChangedKeepsInv

LEMMA AddressCreateKeepsInv ==
  ASSUME Inv, NEW u \in Uid, NEW ts \in 1 .. MaxTs, NEW a \in Address, AddressCreate(u, ts, a)
  PROVE  Inv'
  <1>1. Authentic(u, ts)
    BY DEF AddressCreate
  <1>2. CASE Replied(u, ts, "refused")
    BY <1>1, <1>2, RepliedKeepsInv DEF Ret
  <1> DEFINE n == Noted(u, ts)
  <1>3. CASE /\ ~AtLimit(u, a.shield) /\ ~InUse(a)
             /\ Changed(u, "addrCreate", [n EXCEPT ![u].addr = Append(@, a)])
    <2>1. /\ Good(n)
          /\ \A v \in Uid : (n[v] = None <=> user[v] = None) /\ n[v].addr = user[v].addr
      BY <1>1, NotedFacts
    <2>2. user[u] # None
      BY <1>1, ActorTypes
    <2> HIDE DEF n
    <2>3. n[u] \in User /\ n[u] # None
      BY <2>1, <2>2 DEF Good, UsersOf
    <2> DEFINE s == n[u].addr
               x == [n[u] EXCEPT !.addr = Append(s, a)]
    <2>4. s \in Seq(Address) /\ IsInjective(s)
      BY <2>1, <2>3 DEF User, Good, UniqueIn
    <2>5. Len(s) < AddressesPerUser
      <3>1. s = user[u].addr
        BY <2>1
      <3>2. ~(Len(user[u].addr) >= AddressesPerUser)
        BY <1>3 DEF AtLimit
      <3> QED BY <2>4, <3>1, <3>2, AccountAssumption
    <2>6. \A v \in Uid : a \notin OwnedIn(n, v)
      BY <1>3, <2>1 DEF InUse, Owns, OwnedIn, Exists
    <2>7. a \notin ToSet(s)
      BY <2>3, <2>6 DEF OwnedIn
    <2> HIDE DEF s
    <2>8. /\ Append(s, a) \in Seq(Address)
          /\ Len(Append(s, a)) <= AddressesPerUser
          /\ IsInjective(Append(s, a))
      <3>1. IsInjective(Append(s, a))
        BY <2>4, <2>7, AppendInjectiveSeq
      <3>2. Len(Append(s, a)) = Len(s) + 1 /\ Len(s) \in Nat
        BY <2>4
      <3> QED BY <2>4, <2>5, <3>1, <3>2, AccountAssumption
    <2>9. ToSet(Append(s, a)) = ToSet(s) \cup {a}
      BY <2>4, AppendToSet
    <2>10. x \in User /\ x.addr = Append(s, a) /\ x.level = n[u].level
      BY <2>3, <2>8 DEF User
    <2>11. [n EXCEPT ![u].addr = Append(@, a)] = [n EXCEPT ![u] = x]
      BY DEF s
    <2> HIDE DEF x
    <2>12. \A v \in Uid \ {u} : ToSet(x.addr) \cap OwnedIn(n, v) = {}
      <3> SUFFICES ASSUME NEW v \in Uid \ {u} PROVE ToSet(x.addr) \cap OwnedIn(n, v) = {}
        OBVIOUS
      <3>1. OwnedIn(n, u) = ToSet(s)
        BY <2>3 DEF OwnedIn, s
      <3>2. OwnedIn(n, u) \cap OwnedIn(n, v) = {}
        BY <2>1 DEF Good, UniqueIn
      <3> QED BY <2>6, <2>9, <2>10, <3>1, <3>2
    <2>13. u = MasterAdmin => x.level = LevelMax
      BY <2>1, <2>10 DEF Good, MasterIn
    <2>14. Good([n EXCEPT ![u] = x])
      BY <2>1, <2>8, <2>10, <2>12, <2>13, ReplacedGood
    <2>15. "addrCreate" \in Kind
      BY DEF Kind
    <2> QED BY <1>3, <2>11, <2>14, <2>15, ChangedKeepsInv
  <1> QED BY <1>2, <1>3 DEF AddressCreate

LEMMA AddressDeleteKeepsInv ==
  ASSUME Inv, NEW u \in Uid, NEW ts \in 1 .. MaxTs, NEW h \in Hash, AddressDelete(u, ts, h)
  PROVE  Inv'
  <1>1. Authentic(u, ts)
    BY DEF AddressDelete
  <1>2. CASE Replied(u, ts, "refused")
    BY <1>1, <1>2, RepliedKeepsInv DEF Ret
  <1> DEFINE n == Noted(u, ts)
  <1>3. ASSUME NEW i \in DOMAIN user[u].addr,
               Changed(u, "addrDelete", [n EXCEPT ![u].addr = RemoveAt(@, i)])
        PROVE  Inv'
    <2>1. Good(n) /\ (n[u] = None <=> user[u] = None) /\ n[u].addr = user[u].addr
      BY <1>1, NotedFacts
    <2>2. user[u] # None
      BY <1>1, ActorTypes
    <2> HIDE DEF n
    <2>3. n[u] \in User /\ n[u] # None
      BY <2>1, <2>2 DEF Good, UsersOf
    <2> DEFINE s == n[u].addr
               x == [n[u] EXCEPT !.addr = RemoveAt(s, i)]
    <2>4. s \in Seq(Address) /\ IsInjective(s) /\ Len(s) <= AddressesPerUser /\ i \in DOMAIN s
      BY <1>3, <2>1, <2>3 DEF User, Good, UniqueIn, UsersOf
    <2> HIDE DEF s
    <2>5. /\ RemoveAt(s, i) \in Seq(Address)
          /\ Len(RemoveAt(s, i)) = Len(s) - 1
          /\ \A k \in 1 .. (Len(s) - 1) :
               RemoveAt(s, i)[k] = IF k < i THEN s[k] ELSE s[k + 1]
      BY <2>4, RemoveAtProperties
    <2>6. IsInjective(RemoveAt(s, i))
      BY <2>4, RemoveAtInjective
    <2>7. ToSet(RemoveAt(s, i)) \subseteq ToSet(s)
      <3>1. Len(s) \in Nat /\ DOMAIN s = 1 .. Len(s)
        BY <2>4
      <3>2. DOMAIN RemoveAt(s, i) = 1 .. (Len(s) - 1)
        BY <2>5, <3>1
      <3>3. \A k \in 1 .. (Len(s) - 1) : RemoveAt(s, i)[k] \in ToSet(s)
        <4> SUFFICES ASSUME NEW k \in 1 .. (Len(s) - 1) PROVE RemoveAt(s, i)[k] \in ToSet(s)
          OBVIOUS
        <4>1. k \in DOMAIN s /\ k + 1 \in DOMAIN s
          BY <3>1
        <4>2. s[k] \in ToSet(s) /\ s[k + 1] \in ToSet(s)
          BY <4>1 DEF ToSet
        <4> QED BY <2>5, <4>2
      <3> QED BY <3>2, <3>3 DEF ToSet
    <2>8. Len(RemoveAt(s, i)) <= AddressesPerUser
      <3>1. Len(s) \in Nat
        BY <2>4
      <3> QED BY <2>4, <2>5, <3>1, AccountAssumption
    <2>9. x \in User /\ x.addr = RemoveAt(s, i) /\ x.level = n[u].level
      BY <2>3, <2>5 DEF User
    <2>10. [n EXCEPT ![u].addr = RemoveAt(@, i)] = [n EXCEPT ![u] = x]
      BY DEF s
    <2> HIDE DEF x
    <2>11. u = MasterAdmin => x.level = LevelMax
      BY <2>1, <2>9 DEF Good, MasterIn
    <2>12. Good([n EXCEPT ![u] = x])
      <3>1. ToSet(x.addr) \subseteq ToSet(n[u].addr)
        BY <2>7, <2>9 DEF s
      <3> QED BY <2>1, <2>3, <2>6, <2>8, <2>9, <2>11, <3>1, ReducedGood
    <2>13. "addrDelete" \in Kind
      BY DEF Kind
    <2> QED BY <1>3, <2>10, <2>12, <2>13, ChangedKeepsInv
  <1> QED BY <1>2, <1>3 DEF AddressDelete

LEMMA AuthFailKeepsInv == Inv /\ AuthFail => Inv'
  <1> SUFFICES ASSUME Inv, AuthFail PROVE Inv'
    OBVIOUS
  <1>1. /\ UNCHANGED <<user, limits, diskOk, diskUser, setOk, setDisk, missed>>
        /\ pc = "idle" /\ pc' = "idle" /\ ret' = "authfail"
        /\ kind' = "none" /\ actor' = MasterAdmin
    BY DEF AuthFail, Answer, disk
  <1>2. Rest'
    BY <1>1, MasterIsUid DEF Inv, Rest, PC, Kind, Ret
  <1> QED BY <1>1, <1>2 DEF Inv, Settled

LEMMA QueryKeepsInv ==
  ASSUME Inv, NEW u \in Uid, NEW ts \in 1 .. MaxTs, Query(u, ts)
  PROVE  Inv'
  BY RepliedKeepsInv DEF Query, Ret

LEMMA LimitsKeepInv ==
  ASSUME Inv, NEW u \in Uid, NEW ts \in 1 .. MaxTs, NEW new \in LimitChoice,
         SettingLimits(u, ts, new)
  PROVE  Inv'
  <1>1. /\ Authentic(u, ts) /\ user' = Noted(u, ts) /\ limits' = new
        /\ pc' = "settings" /\ kind' = "limits" /\ actor' = u /\ ret' = "busy"
        /\ UNCHANGED <<diskOk, diskUser, setOk, setDisk, missed>>
    BY DEF SettingLimits, Proceed, disk
  <1>2. /\ Good(Noted(u, ts)) /\ Persistent(Noted(u, ts)) = Persistent(user)
        /\ pc = "idle"
    BY <1>1, NotedFacts, ActorTypes
  <1>3. Rest'
    BY <1>1, AccountAssumption DEF Inv, Rest, PC, Kind, Ret
  <1>4. Good(user') /\ (~missed' => diskOk' /\ Persistent(diskUser') = Persistent(user'))
    BY <1>1, <1>2 DEF Inv, Settled
  <1> QED BY <1>1, <1>3, <1>4 DEF Inv, Good

LEMMA SettingsKeepInv ==
  Inv /\ (SettingsTruncate \/ SettingsWrite \/ SettingsMissed) => Inv'
  <1> SUFFICES ASSUME Inv, SettingsTruncate \/ SettingsWrite \/ SettingsMissed PROVE Inv'
    OBVIOUS
  <1>1. /\ UNCHANGED <<user, limits, diskOk, diskUser, missed>>
        /\ Settled /\ pc # "down" /\ pc' \in {"setting", "idle"}
    BY DEF SettingsTruncate, SettingsWrite, SettingsMissed, Proceed, Answer, Settled, disk
  <1>2. Rest'
    BY MasterIsUid
       DEF Inv, Rest, SettingsTruncate, SettingsWrite, SettingsMissed, Proceed, Answer, disk,
           PC, Kind, Ret
  <1> QED BY <1>1, <1>2 DEF Inv

LEMMA SaveKeepsInv ==
  Inv /\ (SaveTruncate \/ SaveWrite \/ SaveMissed \/ StorageAnswers) => Inv'
  <1> SUFFICES ASSUME Inv, SaveTruncate \/ SaveWrite \/ SaveMissed \/ StorageAnswers
               PROVE  Inv'
    OBVIOUS
  <1>1. CASE SaveTruncate
    <2>1. UNCHANGED <<user, limits, diskUser, setOk, setDisk>> /\ pc = "save"
          /\ pc' = "saving" /\ ~Settled'
      BY <1>1 DEF SaveTruncate, Proceed, Settled
    <2>2. Rest'
      BY <1>1 DEF Inv, Rest, SaveTruncate, Proceed, PC, Ret
    <2> QED BY <2>1, <2>2 DEF Inv
  <1>2. CASE SaveWrite
    <2>1. /\ UNCHANGED <<user, limits, setOk, setDisk>> /\ pc = "saving"
          /\ diskOk' /\ diskUser' = user /\ pc' \in {"storage", "idle"}
      BY <1>2 DEF SaveWrite, AfterSave, Proceed, Answer
    <2>2. Rest'
      BY <1>2, MasterIsUid DEF Inv, Rest, SaveWrite, AfterSave, Proceed, Answer, PC, Kind, Ret
    <2>3. Good(user)
      BY <2>1 DEF Inv, Good
    <2> QED BY <2>1, <2>2, <2>3 DEF Inv, Good
  <1>4. CASE SaveMissed
    <2>1. /\ UNCHANGED <<user, limits, diskOk, diskUser, setOk, setDisk>>
          /\ pc \in {"save", "saving"} /\ missed' /\ pc' \in {"storage", "idle"}
      BY <1>4 DEF SaveMissed, AfterSave, Proceed, Answer, disk
    <2>2. Rest'
      BY <1>4, MasterIsUid
         DEF Inv, Rest, SaveMissed, AfterSave, Proceed, Answer, disk, PC, Kind, Ret
    <2> QED BY <2>1, <2>2 DEF Inv
  <1>3. CASE StorageAnswers
    <2>1. UNCHANGED <<user, limits, diskOk, diskUser, setOk, setDisk, missed>>
          /\ pc = "storage" /\ pc' = "idle"
      BY <1>3 DEF StorageAnswers, Answer, disk
    <2>2. Rest'
      BY <1>3, MasterIsUid DEF Inv, Rest, StorageAnswers, Answer, disk, PC, Kind, Ret
    <2>3. Settled
      BY <2>1 DEF Settled
    <2> QED BY <2>1, <2>2, <2>3 DEF Inv
  <1> QED BY <1>1, <1>2, <1>3, <1>4

(* A start finds in Account.aem what the invariant says of it, or stops. *)
LEMMA StartKeepsInv == Inv /\ Start => Inv'
  <1> SUFFICES ASSUME Inv, Start PROVE Inv'
    OBVIOUS
  <1>1. UNCHANGED <<diskOk, diskUser, setOk, setDisk>>
    BY DEF Start, disk
  <1>2. Rest'
    BY <1>1, MasterIsUid, DefaultsAreLimits DEF Inv, Rest, Start, PC, Kind, Ret
  <1>3. CASE diskOk
    <2>1. user' = diskUser /\ pc' = "idle"
      BY <1>3 DEF Start
    <2> QED BY <1>1, <1>2, <1>3, <2>1 DEF Inv, Good
  <1>4. CASE ~diskOk
    <2>1. user' = [u \in Uid |-> None] /\ pc' = "down"
      BY <1>4 DEF Start
    <2>2. UsersOf(user') /\ UniqueIn(user')
      BY <2>1 DEF UsersOf, UniqueIn, OwnedIn
    <2> QED BY <1>1, <1>2, <1>4, <2>1, <2>2 DEF Inv, Settled
  <1> QED BY <1>3, <1>4

LEMMA InvStep == Inv /\ [Next \/ Crash]_vars => Inv'
  <1> SUFFICES ASSUME Inv, [Next \/ Crash]_vars PROVE Inv'
    OBVIOUS
  <1>1. ASSUME NEW u \in Uid, NEW ts \in 1 .. MaxTs, Query(u, ts) PROVE Inv'
    BY <1>1, QueryKeepsInv
  <1>2. ASSUME NEW u \in Uid, NEW ts \in 1 .. MaxTs, NEW d \in Uid, AccountDelete(u, ts, d)
        PROVE  Inv'
    BY <1>2, DeleteKeepsInv
  <1>3. ASSUME NEW u \in Uid, NEW ts \in 1 .. MaxTs, NEW d \in Uid,
               NEW byte \in 0 .. (2 * LevelMax + 1), AccountUpdate(u, ts, d, byte)
        PROVE  Inv'
    BY <1>3, UpdateKeepsInv
  <1>4. ASSUME NEW u \in Uid, NEW ts \in 1 .. MaxTs, NEW n \in Uid, AccountCreate(u, ts, n)
        PROVE  Inv'
    BY <1>4, CreateKeepsInv
  <1>5. ASSUME NEW u \in Uid, NEW ts \in 1 .. MaxTs, PrivateUpdate(u, ts) PROVE Inv'
    BY <1>5, PrivateKeepsInv
  <1>6. ASSUME NEW u \in Uid, NEW ts \in 1 .. MaxTs, NEW a \in Address, AddressCreate(u, ts, a)
        PROVE  Inv'
    BY <1>6, AddressCreateKeepsInv
  <1>7. ASSUME NEW u \in Uid, NEW ts \in 1 .. MaxTs, NEW h \in Hash, AddressDelete(u, ts, h)
        PROVE  Inv'
    BY <1>7, AddressDeleteKeepsInv
  <1>8. ASSUME NEW u \in Uid, NEW ts \in 1 .. MaxTs, NEW new \in LimitChoice,
               SettingLimits(u, ts, new)
        PROVE  Inv'
    BY <1>8, LimitsKeepInv
  <1>9. CASE AuthFail
    BY <1>9, AuthFailKeepsInv
  <1>10. CASE SettingsTruncate \/ SettingsWrite \/ SettingsMissed
    BY <1>10, SettingsKeepInv
  <1>11. CASE SaveTruncate \/ SaveWrite \/ SaveMissed \/ StorageAnswers
    BY <1>11, SaveKeepsInv
  <1>12. CASE Restart \/ Crash
    BY <1>12, StartKeepsInv DEF Restart, Crash
  <1>13. CASE UNCHANGED vars
    BY <1>13 DEF vars, Inv, Rest, Good, UsersOf, UniqueIn, OwnedIn, MasterIn, Settled, Persistent
  <1> QED BY <1>1, <1>2, <1>3, <1>4, <1>5, <1>6, <1>7, <1>8, <1>9, <1>10, <1>11, <1>12,
             <1>13 DEF Next

LEMMA InvHolds == Spec => []Inv
  BY InvInit, InvStep, PTL DEF Spec

-----------------------------------------------------------------------------
(* Theorems. *)

(* Types, and no user with more addresses than the arrays hold, although    *)
(* limits of any size may be set: wherever the process ends.               *)
THEOREM TypeCorrect == Spec => []TypeOK
  BY InvHolds, InvIsEnough, PTL

(* Whatever is created and deleted, and wherever the process ends, no       *)
(* address has two owners (hashToUid in account/IO.c).                     *)
THEOREM AddressesAlwaysUnique == Spec => []AddressesUnique
  BY InvHolds, InvIsEnough, PTL

(* A process that serves requests has a master admin (api_account_delete,   *)
(* api_account_update).                                                    *)
THEOREM MasterAlwaysRemains == Spec => []MasterRemains
  BY InvHolds, InvIsEnough, PTL

(* Every handler that changes a user saves before it answers, and one save  *)
(* makes up for those that failed before it (saveUser).                    *)
THEOREM AlwaysSaved == Spec => []SavedWhenIdle
  BY InvHolds, InvIsEnough, PTL

-----------------------------------------------------------------------------
(* Who may change levels and delete accounts. *)

Promotes ==
  \A u \in Uid : Exists(u) /\ Exists(u)' /\ user'[u].level > user[u].level
                   => \/ ret' # "restart" /\ IsAdmin(actor')
                      \/ Undone

Deletes ==
  \A u \in Uid : Exists(u) /\ ~Exists(u)'
                   => \/ ret' # "restart" /\ (actor' = u \/ IsAdmin(actor'))
                      \/ Undone

(* A step that leaves who exists, and at which level, as it is. *)
RanksKept ==
  \A u \in Uid : /\ user'[u] = None <=> user[u] = None
                 /\ user'[u].level = user[u].level

LEMMA LevelsAreNumbers ==
  ASSUME Inv, NEW u \in Uid, Exists(u)
  PROVE  user[u].level \in Nat
  <1>1. user[u] \in User
    BY DEF Inv, UsersOf, Exists
  <1> QED BY <1>1, AccountAssumption DEF User, Level

LEMMA RanksKeptIsEnough == Inv /\ RanksKept => Promotes /\ Deletes
  <1> SUFFICES ASSUME Inv, RanksKept PROVE Promotes /\ Deletes
    OBVIOUS
  <1>1. \A u \in Uid : Exists(u) => ~(user'[u].level > user[u].level)
    BY LevelsAreNumbers DEF RanksKept
  <1> QED BY <1>1 DEF RanksKept, Promotes, Deletes, Exists

LEMMA NotedKeepsRanks ==
  ASSUME Inv, NEW u \in Uid, NEW ts \in 1 .. MaxTs, Authentic(u, ts),
         user' = Noted(u, ts)
  PROVE  RanksKept
  BY NotedFacts DEF RanksKept

(* A start of a process that had nothing to save: what Account.aem holds     *)
(* differs from memory in times only.                                      *)
LEMMA StartKeepsRanks == Inv /\ Settled /\ ~missed /\ Start => RanksKept
  <1> SUFFICES ASSUME Inv, Settled, ~missed, Start, NEW u \in Uid
               PROVE  /\ user'[u] = None <=> user[u] = None
                      /\ user'[u].level = user[u].level
    BY DEF RanksKept
  <1>1. user' = diskUser /\ Persistent(diskUser) = Persistent(user)
    BY DEF Start, Inv
  <1>2. (IF diskUser[u] = None THEN None ELSE [diskUser[u] EXCEPT !.last = 0])
        = (IF user[u] = None THEN None ELSE [user[u] EXCEPT !.last = 0])
    <2>1. Persistent(diskUser)[u] = Persistent(user)[u]
      BY <1>1
    <2> QED BY <2>1 DEF Persistent
  <1>3. /\ user[u] \in User \cup {None} /\ diskUser[u] \in User \cup {None}
        /\ \A x \in User : /\ [x EXCEPT !.last = 0] \in User
                           /\ [x EXCEPT !.last = 0].level = x.level
    BY ZeroTypes DEF Inv, Good, UsersOf, User
  <1>4. diskUser[u] = None <=> user[u] = None
    BY <1>2, <1>3, AccountAssumption
  <1>5. CASE user[u] = None
    BY <1>1, <1>4, <1>5
  <1>6. CASE user[u] # None
    <2>1. [diskUser[u] EXCEPT !.last = 0] = [user[u] EXCEPT !.last = 0]
      BY <1>2, <1>4, <1>6
    <2>2. user[u] \in User /\ diskUser[u] \in User
      BY <1>3, <1>4, <1>6
    <2>3. diskUser[u].level = user[u].level
      BY <1>3, <2>1, <2>2
    <2> QED BY <1>1, <1>4, <2>3
  <1> QED BY <1>5, <1>6

LEMMA DeleteRanks ==
  ASSUME Inv, NEW u \in Uid, NEW ts \in 1 .. MaxTs, NEW d \in Uid, AccountDelete(u, ts, d)
  PROVE  Promotes /\ Deletes
  <1>1. Authentic(u, ts) /\ (~Exists(d) \/ IsAdmin(u) \/ u = d \/ Replied(u, ts, "refused"))
    BY DEF AccountDelete
  <1>2. CASE Replied(u, ts, "refused")
    BY <1>1, <1>2, NotedKeepsRanks, RanksKeptIsEnough DEF Replied
  <1>3. CASE /\ IsAdmin(u) \/ u = d
             /\ Changed(u, "delete", [Noted(u, ts) EXCEPT ![d] = None])
    <2>1. actor' = u /\ ret' # "restart" /\ user' = [Noted(u, ts) EXCEPT ![d] = None]
      BY <1>3 DEF Changed, Proceed
    <2>2. /\ Noted(u, ts) \in [Uid -> User \cup {None}]
          /\ \A v \in Uid : /\ Noted(u, ts)[v] = None <=> user[v] = None
                            /\ Noted(u, ts)[v].level = user[v].level
      BY <1>1, NotedFacts DEF Good, UsersOf
    <2>3. user'[d] = None
      BY <2>1, <2>2
    <2>4. \A v \in Uid \ {d} : /\ user'[v] = None <=> user[v] = None
                               /\ user'[v].level = user[v].level
      BY <2>1, <2>2
    <2>5. Promotes
      <3> SUFFICES ASSUME NEW v \in Uid, Exists(v), Exists(v)',
                          user'[v].level > user[v].level
                   PROVE  FALSE
        BY DEF Promotes
      <3>1. v # d
        BY <2>3 DEF Exists
      <3>2. user'[v].level = user[v].level /\ user[v].level \in Nat
        BY <2>4, <3>1, LevelsAreNumbers
      <3> QED BY <3>2
    <2>6. Deletes
      BY <1>3, <2>1, <2>4 DEF Deletes, Exists
    <2> QED BY <2>5, <2>6
  <1> QED BY <1>2, <1>3 DEF AccountDelete

LEMMA UpdateRanks ==
  ASSUME Inv, NEW u \in Uid, NEW ts \in 1 .. MaxTs, NEW d \in Uid,
         NEW byte \in 0 .. (2 * LevelMax + 1), AccountUpdate(u, ts, d, byte)
  PROVE  Promotes /\ Deletes
  <1>1. Authentic(u, ts)
    BY DEF AccountUpdate
  <1>2. CASE Replied(u, ts, "refused")
    BY <1>1, <1>2, NotedKeepsRanks, RanksKeptIsEnough DEF Replied
  <1> DEFINE n == Noted(u, ts)
             l == byte % (LevelMax + 1)
  <1>3. CASE /\ Exists(d)
             /\ IsAdmin(u) \/ (u = d /\ byte <= user[u].level)
             /\ Changed(u, "update", [n EXCEPT ![d].level = l])
    <2>1. actor' = u /\ ret' # "restart" /\ user' = [n EXCEPT ![d].level = l]
      BY <1>3 DEF Changed, Proceed
    <2>2. /\ n \in [Uid -> User \cup {None}]
          /\ \A v \in Uid : /\ n[v] = None <=> user[v] = None
                            /\ n[v].level = user[v].level
      BY <1>1, NotedFacts DEF Good, UsersOf
    <2>3. l \in Level /\ l <= byte
      BY AccountAssumption DEF Level
    <2> HIDE DEF n, l
    <2>4. n[d] \in User
      BY <1>3, <2>2 DEF Exists
    <2>5. user'[d] = [n[d] EXCEPT !.level = l]
      BY <2>1, <2>2
    <2>6. user'[d] \in User /\ user'[d].level = l
      BY <2>3, <2>4, <2>5 DEF User
    <2>7. user'[d] # None
      BY <2>6, AccountAssumption
    <2>8. \A v \in Uid \ {d} : user'[v] = n[v]
      BY <2>1, <2>2
    <2>9. Deletes
      BY <2>2, <2>7, <2>8 DEF Deletes, Exists
    <2>10. Promotes
      <3> SUFFICES ASSUME NEW v \in Uid, Exists(v), user'[v].level > user[v].level
                   PROVE  IsAdmin(u)
        BY <2>1 DEF Promotes
      <3>1. user[v].level \in Nat
        BY LevelsAreNumbers
      <3>2. CASE v # d
        BY <2>2, <2>8, <3>1, <3>2
      <3>3. CASE v = d
        <4>1. l > user[d].level
          BY <2>6, <3>3
        <4>2. CASE u = d /\ byte <= user[u].level
          BY <2>3, <3>1, <3>3, <4>1, <4>2, AccountAssumption DEF Level
        <4> QED BY <1>3, <4>2
      <3> QED BY <3>2, <3>3
    <2> QED BY <2>9, <2>10
  <1> QED BY <1>2, <1>3 DEF AccountUpdate

LEMMA CreateRanks ==
  ASSUME Inv, NEW u \in Uid, NEW ts \in 1 .. MaxTs, NEW n \in Uid, AccountCreate(u, ts, n)
  PROVE  Promotes /\ Deletes
  <1>1. Authentic(u, ts)
    BY DEF AccountCreate
  <1>2. CASE Replied(u, ts, "refused")
    BY <1>1, <1>2, NotedKeepsRanks, RanksKeptIsEnough DEF Replied
  <1> DEFINE x == [level |-> 0, addr |-> <<>>, last |-> 0]
  <1>3. CASE ~Exists(n) /\ Changed(u, "create", [Noted(u, ts) EXCEPT ![n] = x])
    <2> HIDE DEF x
    <2>1. user' = [Noted(u, ts) EXCEPT ![n] = x]
      BY <1>3 DEF Changed
    <2>2. /\ Noted(u, ts) \in [Uid -> User \cup {None}]
          /\ \A v \in Uid : /\ Noted(u, ts)[v] = None <=> user[v] = None
                            /\ Noted(u, ts)[v].level = user[v].level
      BY <1>1, NotedFacts DEF Good, UsersOf
    <2>3. \A v \in Uid : Exists(v) => /\ user'[v] # None
                                      /\ user'[v].level = user[v].level
                                      /\ user[v].level \in Nat
      BY <1>3, <2>1, <2>2, LevelsAreNumbers DEF Exists
    <2>4. \A v \in Uid : Exists(v) => ~(user'[v].level > user[v].level)
      BY <2>3
    <2> QED BY <2>3, <2>4 DEF Promotes, Deletes, Exists
  <1> QED BY <1>2, <1>3 DEF AccountCreate

LEMMA AddressRanks ==
  ASSUME Inv, NEW u \in Uid, NEW ts \in 1 .. MaxTs, Authentic(u, ts),
         NEW s \in Seq(Address), user' = [Noted(u, ts) EXCEPT ![u].addr = s]
  PROVE  RanksKept
  <1>1. /\ Noted(u, ts) \in [Uid -> User \cup {None}]
        /\ Noted(u, ts)[u] \in User
        /\ \A v \in Uid : /\ Noted(u, ts)[v] = None <=> user[v] = None
                          /\ Noted(u, ts)[v].level = user[v].level
    BY NotedFacts, ActorTypes DEF Good, UsersOf
  <1>2. user'[u] = [Noted(u, ts)[u] EXCEPT !.addr = s]
    BY <1>1
  <1>3. user'[u].level = Noted(u, ts)[u].level /\ user'[u] \in User
    BY <1>1, <1>2 DEF User
  <1>4. \A v \in Uid \ {u} : user'[v] = Noted(u, ts)[v]
    BY <1>1
  <1>5. user'[u] # None /\ user[u] # None
    BY <1>3, ActorTypes, AccountAssumption
  <1> QED BY <1>1, <1>3, <1>4, <1>5 DEF RanksKept

LEMMA AddressStepsKeepRanks ==
  ASSUME Inv, NEW u \in Uid, NEW ts \in 1 .. MaxTs,
         \/ \E a \in Address : AddressCreate(u, ts, a)
         \/ \E h \in Hash : AddressDelete(u, ts, h)
  PROVE  RanksKept
  <1>1. Authentic(u, ts)
    BY DEF AddressCreate, AddressDelete
  <1>2. CASE Replied(u, ts, "refused")
    BY <1>1, <1>2, NotedKeepsRanks DEF Replied
  <1> DEFINE n == Noted(u, ts)
  <1>3. n[u].addr \in Seq(Address) /\ n[u].addr = user[u].addr
    <2>1. user[u].addr \in Seq(Address)
      BY <1>1, ActorTypes DEF User
    <2> QED BY <1>1, <2>1, NotedFacts
  <1>4. ASSUME NEW a \in Address,
               Changed(u, "addrCreate", [n EXCEPT ![u].addr = Append(@, a)])
        PROVE  RanksKept
    <2> DEFINE s == Append(n[u].addr, a)
    <2>1. s \in Seq(Address)
      BY <1>3
    <2>2. user' = [n EXCEPT ![u].addr = s]
      BY <1>4 DEF Changed
    <2> HIDE DEF s
    <2> QED BY <1>1, <2>1, <2>2, AddressRanks
  <1>5. ASSUME NEW i \in DOMAIN user[u].addr,
               Changed(u, "addrDelete", [n EXCEPT ![u].addr = RemoveAt(@, i)])
        PROVE  RanksKept
    <2> DEFINE s == RemoveAt(n[u].addr, i)
    <2>1. s \in Seq(Address)
      BY <1>3, RemoveAtProperties
    <2>2. user' = [n EXCEPT ![u].addr = s]
      BY <1>5 DEF Changed
    <2> HIDE DEF s
    <2> QED BY <1>1, <2>1, <2>2, AddressRanks
  <1> QED BY <1>2, <1>4, <1>5 DEF AddressCreate, AddressDelete

LEMMA SameUsersKeepRanks == UNCHANGED user => RanksKept
  BY DEF RanksKept

LEMMA RanksStep == Inv /\ [Next \/ Crash]_vars => Promotes /\ Deletes
  <1> SUFFICES ASSUME Inv, [Next \/ Crash]_vars PROVE Promotes /\ Deletes
    OBVIOUS
  <1>1. ASSUME NEW u \in Uid, NEW ts \in 1 .. MaxTs,
               \/ Query(u, ts) \/ PrivateUpdate(u, ts)
               \/ \E new \in LimitChoice : SettingLimits(u, ts, new)
        PROVE  RanksKept
    <2>1. Authentic(u, ts) /\ user' = Noted(u, ts)
      BY <1>1 DEF Query, Replied, PrivateUpdate, Changed, SettingLimits
    <2> QED BY <2>1, NotedKeepsRanks
  <1>2. ASSUME NEW u \in Uid, NEW ts \in 1 .. MaxTs,
               \/ \E a \in Address : AddressCreate(u, ts, a)
               \/ \E h \in Hash : AddressDelete(u, ts, h)
        PROVE  RanksKept
    BY <1>2, AddressStepsKeepRanks
  <1>3. ASSUME NEW u \in Uid, NEW ts \in 1 .. MaxTs, NEW d \in Uid, AccountDelete(u, ts, d)
        PROVE  Promotes /\ Deletes
    BY <1>3, DeleteRanks
  <1>4. ASSUME NEW u \in Uid, NEW ts \in 1 .. MaxTs, NEW d \in Uid,
               NEW byte \in 0 .. (2 * LevelMax + 1), AccountUpdate(u, ts, d, byte)
        PROVE  Promotes /\ Deletes
    BY <1>4, UpdateRanks
  <1>5. ASSUME NEW u \in Uid, NEW ts \in 1 .. MaxTs, NEW n \in Uid, AccountCreate(u, ts, n)
        PROVE  Promotes /\ Deletes
    BY <1>5, CreateRanks
  <1>6. CASE \/ AuthFail \/ SettingsTruncate \/ SettingsWrite
             \/ SaveTruncate \/ SaveWrite \/ StorageAnswers \/ UNCHANGED vars
             \/ SettingsMissed \/ SaveMissed
    <2>1. UNCHANGED user
      BY <1>6 DEF AuthFail, SettingsTruncate, SettingsWrite, SaveTruncate, SaveWrite,
                  SettingsMissed, SaveMissed, StorageAnswers, vars
    <2> QED BY <2>1, SameUsersKeepRanks, RanksKeptIsEnough
  <1>7. CASE Restart \/ Crash
    <2>1. Start
      BY <1>7 DEF Restart, Crash
    <2>2. CASE Settled /\ ~missed
      BY <2>1, <2>2, StartKeepsRanks, RanksKeptIsEnough
    <2>3. CASE pc = "down"
      BY <2>3 DEF Promotes, Deletes, Exists, Inv
    <2>4. CASE ~(Settled /\ ~missed) /\ pc # "down"
      <3>1. Undone
        BY <2>1, <2>4 DEF Settled, Undone, Start, Inv, Rest, PC
      <3> QED BY <3>1 DEF Promotes, Deletes
    <2> QED BY <2>2, <2>3, <2>4
  <1> QED BY <1>1, <1>2, <1>3, <1>4, <1>5, <1>6, <1>7, RanksKeptIsEnough DEF Next

(* Nobody rises in level but by an admin's request, whatever byte the       *)
(* request of api_account_update holds, nor by a start that finds what was  *)
(* last saved, unless it undoes a change.                                  *)
THEOREM Promotion == Spec => OnlyAdminsPromote
  <1>1. Inv /\ [Next \/ Crash]_vars => [Promotes]_vars
    BY RanksStep
  <1>2. OnlyAdminsPromote <=> [][Promotes]_vars
    BY DEF OnlyAdminsPromote, Promotes
  <1> QED BY <1>1, <1>2, InvHolds, PTL DEF Spec

(* Nobody loses the account but by the own request or an admin's            *)
(* (api_account_delete), nor by a start unless it undoes a change.         *)
THEOREM Deletion == Spec => OnlyOwnerOrAdminDeletes
  <1>1. Inv /\ [Next \/ Crash]_vars => [Deletes]_vars
    BY RanksStep
  <1>2. OnlyOwnerOrAdminDeletes <=> [][Deletes]_vars
    BY DEF OnlyOwnerOrAdminDeletes, Deletes
  <1> QED BY <1>1, <1>2, InvHolds, PTL DEF Spec

-----------------------------------------------------------------------------
(* Who may take addresses away. *)

Keeps ==
  \A u \in Uid : Exists(u)' =>
    \/ Owns(u) \subseteq Owns(u)'
    \/ actor' = u /\ kind' = "addrDelete"
    \/ Undone

(* A step that leaves everybody who still exists the same addresses. *)
AddressesSame ==
  \A u \in Uid : user'[u] # None /\ user[u] # None => user'[u].addr = user[u].addr

LEMMA AddressesSameIsEnough == AddressesSame => Keeps
  BY DEF AddressesSame, Keeps, Owns, Exists

LEMMA NotedKeepsAddresses ==
  ASSUME Inv, NEW u \in Uid, NEW ts \in 1 .. MaxTs, Authentic(u, ts),
         user' = Noted(u, ts)
  PROVE  Keeps
  BY NotedFacts, AddressesSameIsEnough DEF AddressesSame

(* A handler that puts x in the place of the account d. *)
LEMMA ReplacedKeepsAddresses ==
  ASSUME Inv, NEW u \in Uid, NEW ts \in 1 .. MaxTs, Authentic(u, ts),
         NEW d \in Uid, NEW x, user' = [Noted(u, ts) EXCEPT ![d] = x],
         x # None /\ user[d] # None => x.addr = user[d].addr
  PROVE  Keeps
  <1>1. /\ Noted(u, ts) \in [Uid -> User \cup {None}]
        /\ \A v \in Uid : Noted(u, ts)[v].addr = user[v].addr
    BY NotedFacts DEF Good, UsersOf
  <1>2. \A v \in Uid : user'[v] = IF v = d THEN x ELSE Noted(u, ts)[v]
    BY <1>1
  <1> QED BY <1>1, <1>2, AddressesSameIsEnough DEF AddressesSame

LEMMA AccountsKeepAddresses ==
  ASSUME Inv, NEW u \in Uid, NEW ts \in 1 .. MaxTs, NEW d \in Uid,
         \/ AccountDelete(u, ts, d)
         \/ \E byte \in 0 .. (2 * LevelMax + 1) : AccountUpdate(u, ts, d, byte)
         \/ AccountCreate(u, ts, d)
  PROVE  Keeps
  <1>1. Authentic(u, ts)
    BY DEF AccountDelete, AccountUpdate, AccountCreate
  <1>2. CASE Replied(u, ts, "refused")
    BY <1>1, <1>2, NotedKeepsAddresses DEF Replied
  <1>3. CASE user' = [Noted(u, ts) EXCEPT ![d] = None]
    BY <1>1, <1>3, ReplacedKeepsAddresses
  <1>4. CASE /\ ~Exists(d)
             /\ user' = [Noted(u, ts) EXCEPT ![d] = [level |-> 0, addr |-> <<>>, last |-> 0]]
    BY <1>1, <1>4, ReplacedKeepsAddresses DEF Exists
  <1>5. ASSUME NEW l, Exists(d), user' = [Noted(u, ts) EXCEPT ![d].level = l]
        PROVE  Keeps
    <2> DEFINE x == [Noted(u, ts)[d] EXCEPT !.level = l]
    <2>1. Noted(u, ts)[d] \in User /\ Noted(u, ts)[d].addr = user[d].addr
      BY <1>1, <1>5, NotedFacts DEF Exists, Good, UsersOf
    <2>2. x.addr = user[d].addr
      BY <2>1 DEF User
    <2>3. user' = [Noted(u, ts) EXCEPT ![d] = x]
      BY <1>5
    <2> HIDE DEF x
    <2> QED BY <1>1, <2>2, <2>3, ReplacedKeepsAddresses
  <1>6. ASSUME NEW byte \in 0 .. (2 * LevelMax + 1), AccountUpdate(u, ts, d, byte)
        PROVE  \/ Replied(u, ts, "refused")
               \/ /\ Exists(d)
                  /\ user' = [Noted(u, ts) EXCEPT ![d].level = byte % (LevelMax + 1)]
    BY <1>6 DEF AccountUpdate, Changed
  <1>7. CASE \E byte \in 0 .. (2 * LevelMax + 1) : AccountUpdate(u, ts, d, byte)
    BY <1>2, <1>5, <1>6, <1>7
  <1>8. CASE AccountDelete(u, ts, d)
    BY <1>2, <1>3, <1>8 DEF AccountDelete, Changed
  <1>9. CASE AccountCreate(u, ts, d)
    BY <1>2, <1>4, <1>9 DEF AccountCreate, Changed
  <1> QED BY <1>7, <1>8, <1>9

(* A new address comes behind the others. *)
LEMMA AddressCreateKeepsAddresses ==
  ASSUME Inv, NEW u \in Uid, NEW ts \in 1 .. MaxTs, NEW a \in Address,
         AddressCreate(u, ts, a)
  PROVE  Keeps
  <1>1. Authentic(u, ts)
    BY DEF AddressCreate
  <1>2. CASE Replied(u, ts, "refused")
    BY <1>1, <1>2, NotedKeepsAddresses DEF Replied
  <1> DEFINE n == Noted(u, ts)
             x == [n[u] EXCEPT !.addr = Append(@, a)]
  <1>3. CASE Changed(u, "addrCreate", [n EXCEPT ![u].addr = Append(@, a)])
    <2>1. /\ n \in [Uid -> User \cup {None}] /\ n[u] \in User
          /\ \A v \in Uid : /\ n[v].addr = user[v].addr
                            /\ n[v] = None <=> user[v] = None
      BY <1>1, NotedFacts, ActorTypes DEF Good, UsersOf
    <2>2. user' = [n EXCEPT ![u] = x]
      BY <1>3 DEF Changed
    <2>3. x.addr = Append(user[u].addr, a) /\ user[u].addr \in Seq(Address)
      BY <2>1 DEF User
    <2> HIDE DEF n, x
    <2>4. \A v \in Uid : user'[v] = IF v = u THEN x ELSE n[v]
      BY <2>1, <2>2
    <2>5. ToSet(user[u].addr) \subseteq ToSet(x.addr)
      BY <2>3, AppendToSet
    <2> QED BY <2>1, <2>4, <2>5 DEF Keeps, Owns, Exists
  <1> QED BY <1>2, <1>3 DEF AddressCreate

(* Who deletes an address keeps to the own ones. *)
LEMMA AddressDeleteKeepsAddresses ==
  ASSUME Inv, NEW u \in Uid, NEW ts \in 1 .. MaxTs, NEW h \in Hash,
         AddressDelete(u, ts, h)
  PROVE  Keeps
  <1>1. Authentic(u, ts)
    BY DEF AddressDelete
  <1>2. CASE Replied(u, ts, "refused")
    BY <1>1, <1>2, NotedKeepsAddresses DEF Replied
  <1>3. ASSUME NEW i,
               Changed(u, "addrDelete", [Noted(u, ts) EXCEPT ![u].addr = RemoveAt(@, i)])
        PROVE  Keeps
    <2>1. /\ actor' = u /\ kind' = "addrDelete"
          /\ user' = [Noted(u, ts) EXCEPT ![u].addr = RemoveAt(@, i)]
      BY <1>3 DEF Changed, Proceed
    <2>2. /\ Noted(u, ts) \in [Uid -> User \cup {None}]
          /\ \A v \in Uid : /\ Noted(u, ts)[v].addr = user[v].addr
                            /\ Noted(u, ts)[v] = None <=> user[v] = None
      BY <1>1, NotedFacts DEF Good, UsersOf
    <2>3. \A v \in Uid \ {u} : user'[v] = Noted(u, ts)[v]
      BY <2>1, <2>2
    <2> QED BY <2>1, <2>2, <2>3 DEF Keeps, Owns, Exists
  <1> QED BY <1>2, <1>3 DEF AddressDelete

(* A start of a process that had nothing to save. *)
LEMMA StartKeepsAddresses == Inv /\ Settled /\ ~missed /\ Start => Keeps
  <1> SUFFICES ASSUME Inv, Settled, ~missed, Start, NEW u \in Uid,
                      user'[u] # None, user[u] # None
               PROVE  user'[u].addr = user[u].addr
    BY AddressesSameIsEnough DEF AddressesSame
  <1>1. user' = diskUser /\ Persistent(diskUser)[u] = Persistent(user)[u]
    BY DEF Start, Inv
  <1>2. user[u] \in User /\ diskUser[u] \in User /\ diskUser[u] # None
    BY <1>1 DEF Inv, Good, UsersOf
  <1>3. [diskUser[u] EXCEPT !.last = 0] = [user[u] EXCEPT !.last = 0]
    BY <1>1, <1>2 DEF Persistent
  <1>4. \A x \in User : [x EXCEPT !.last = 0].addr = x.addr
    BY DEF User
  <1> QED BY <1>1, <1>2, <1>3, <1>4

LEMMA KeepsStep == Inv /\ [Next \/ Crash]_vars => Keeps
  <1> SUFFICES ASSUME Inv, [Next \/ Crash]_vars PROVE Keeps
    OBVIOUS
  <1>1. ASSUME NEW u \in Uid, NEW ts \in 1 .. MaxTs,
               \/ Query(u, ts) \/ PrivateUpdate(u, ts)
               \/ \E new \in LimitChoice : SettingLimits(u, ts, new)
        PROVE  Keeps
    <2>1. Authentic(u, ts) /\ user' = Noted(u, ts)
      BY <1>1 DEF Query, Replied, PrivateUpdate, Changed, SettingLimits
    <2> QED BY <2>1, NotedKeepsAddresses
  <1>2. ASSUME NEW u \in Uid, NEW ts \in 1 .. MaxTs, NEW d \in Uid,
               \/ AccountDelete(u, ts, d)
               \/ \E byte \in 0 .. (2 * LevelMax + 1) : AccountUpdate(u, ts, d, byte)
               \/ AccountCreate(u, ts, d)
        PROVE  Keeps
    BY <1>2, AccountsKeepAddresses
  <1>3. ASSUME NEW u \in Uid, NEW ts \in 1 .. MaxTs,
               \/ \E a \in Address : AddressCreate(u, ts, a)
               \/ \E h \in Hash : AddressDelete(u, ts, h)
        PROVE  Keeps
    BY <1>3, AddressCreateKeepsAddresses, AddressDeleteKeepsAddresses
  <1>4. CASE \/ AuthFail \/ SettingsTruncate \/ SettingsWrite
             \/ SaveTruncate \/ SaveWrite \/ StorageAnswers \/ UNCHANGED vars
             \/ SettingsMissed \/ SaveMissed
    <2>1. UNCHANGED user
      BY <1>4 DEF AuthFail, SettingsTruncate, SettingsWrite, SaveTruncate, SaveWrite,
                  SettingsMissed, SaveMissed, StorageAnswers, vars
    <2> QED BY <2>1, AddressesSameIsEnough DEF AddressesSame
  <1>5. CASE Restart \/ Crash
    <2>1. Start
      BY <1>5 DEF Restart, Crash
    <2>2. CASE Settled /\ ~missed
      BY <2>1, <2>2, StartKeepsAddresses
    <2>3. CASE pc = "down"
      BY <2>1, <2>3 DEF Start, Keeps, Owns, Exists, Inv
    <2>4. CASE ~(Settled /\ ~missed) /\ pc # "down"
      <3>1. Undone
        BY <2>1, <2>4 DEF Settled, Undone, Start, Inv, Rest, PC
      <3> QED BY <3>1 DEF Keeps
    <2> QED BY <2>2, <2>3, <2>4
  <1> QED BY <1>1, <1>2, <1>3, <1>4, <1>5 DEF Next

(* A user loses an address only by the own request (api_address_delete),    *)
(* with the account, or by a start that undoes a change: one that was not   *)
(* saved yet, or whose save failed.                                        *)
THEOREM AddressesStay == Spec => AddressesKept
  <1>1. Inv /\ [Next \/ Crash]_vars => [Keeps]_vars
    BY KeepsStep
  <1>2. AddressesKept <=> [][Keeps]_vars
    BY DEF AddressesKept, Keeps
  <1> QED BY <1>1, <1>2, InvHolds, PTL DEF Spec
=============================================================================
