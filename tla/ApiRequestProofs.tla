-------------------------- MODULE ApiRequestProofs --------------------------
(***************************************************************************)
(* Once and not less: a request takes effect on everybody it is for, and   *)
(* not again, for every number of processes, users and requests, every     *)
(* order of their steps, calls that fail or come late, and restarts.       *)
(***************************************************************************)
EXTENDS ApiRequest, SequencesExt, FiniteSetTheorems, SequenceTheorems, TLAPS

Types ==
  /\ TypeOK
  /\ req \in [Api -> Request \cup {NoRequest}]
  /\ effect \in [Request -> [Uid -> Nat]]
  /\ reply \in [Request -> SUBSET {"ok", "fail", "refused", "403", "500"}]
  /\ restarts \in Nat
  /\ \A a \in Api : IsInjective(todo[a])

(* The processes that will still write to the mailbox of u for r. *)
Pending(r, u) == {a \in Api : pc[a] \in {"body", "store"} /\ req[a] = r /\ u \in ToSet(todo[a])}

(* AEM-Account knows of r, or of a later request of the same user. *)
Known(r) == IF r.ts > last[r.user] THEN 0 ELSE 1

(* Each restart may forget r once.  What has come of the times that it was *)
(* accepted is in effect, or in progress.                                  *)
Accounted ==
  \A r \in Request, u \in Uid :
    /\ IsFiniteSet(Pending(r, u))
    /\ effect[r][u] + Cardinality(Pending(r, u)) <= restarts + Known(r)

(* A message is in the mailbox of everybody it is for, or on its way there, *)
(* or it has been noted that it is not; only a continued request goes to   *)
(* Account again.                                                          *)
Underway ==
  \A a \in Api :
    /\ pc[a] = "redo" => req[a].cmd \in Continued
    /\ pc[a] \in {"body", "store"} /\ good[a] /\ req[a].cmd \in Message =>
         \A i \in DOMAIN req[a].to :
           req[a].to[i] \in ToSet(todo[a]) \/ effect[req[a]][req[a].to[i]] > 0

Inv == Types /\ Accounted /\ Underway /\ SentIsStored

-----------------------------------------------------------------------------
(* Sequences and requests. *)

LEMMA HeadAndTail ==
  ASSUME NEW S, NEW s \in Seq(S), s # <<>>
  PROVE  /\ Head(s) \in S /\ Tail(s) \in Seq(S)
         /\ Head(s) \in ToSet(s)
         /\ ToSet(s) \subseteq ToSet(Tail(s)) \cup {Head(s)}
         /\ ToSet(Tail(s)) \subseteq ToSet(s)
         /\ IsInjective(s) => IsInjective(Tail(s)) /\ Head(s) \notin ToSet(Tail(s))
<1>1. /\ Len(s) \in Nat \ {0} /\ DOMAIN s = 1 .. Len(s) /\ 1 \in DOMAIN s
      /\ Head(s) = s[1] /\ Head(s) \in S /\ Tail(s) \in Seq(S)
      /\ DOMAIN Tail(s) = 1 .. (Len(s) - 1)
      /\ \A i \in 1 .. (Len(s) - 1) : i + 1 \in DOMAIN s /\ i + 1 # 1 /\ Tail(s)[i] = s[i + 1]
  OBVIOUS
<1>2. \A i \in DOMAIN s : i # 1 => i - 1 \in DOMAIN Tail(s) /\ Tail(s)[i - 1] = s[i]
  BY <1>1
<1>3. Head(s) \in ToSet(s)
  BY <1>1 DEF ToSet
<1>4. ToSet(s) \subseteq ToSet(Tail(s)) \cup {Head(s)}
  <2> SUFFICES ASSUME NEW i \in DOMAIN s, s[i] # Head(s)
               PROVE  s[i] \in ToSet(Tail(s))
    BY DEF ToSet
  <2>1. i - 1 \in DOMAIN Tail(s) /\ Tail(s)[i - 1] = s[i]
    BY <1>1, <1>2
  <2> QED
    BY <2>1 DEF ToSet
<1>5. ToSet(Tail(s)) \subseteq ToSet(s)
  BY <1>1 DEF ToSet
<1>6. ASSUME IsInjective(s)
      PROVE  IsInjective(Tail(s)) /\ Head(s) \notin ToSet(Tail(s))
  <2>1. \A i, j \in DOMAIN s : s[i] = s[j] => i = j
    BY <1>6 DEF IsInjective
  <2>2. \A i, j \in DOMAIN Tail(s) : Tail(s)[i] = Tail(s)[j] => i = j
    <3> SUFFICES ASSUME NEW i \in DOMAIN Tail(s), NEW j \in DOMAIN Tail(s), Tail(s)[i] = Tail(s)[j]
                 PROVE  i = j
      OBVIOUS
    <3>1. s[i + 1] = s[j + 1]
      BY <1>1
    <3>2. i + 1 = j + 1
      BY <1>1, <2>1, <3>1
    <3> QED
      BY <1>1, <3>2
  <2>3. \A i \in DOMAIN Tail(s) : Tail(s)[i] # Head(s)
    BY <1>1, <2>1
  <2> QED
    BY <2>2, <2>3 DEF IsInjective, ToSet
<1> QED
  BY <1>1, <1>3, <1>4, <1>5, <1>6

LEMMA RequestTyped ==
  ASSUME NEW r \in Request
  PROVE  /\ r.user \in Uid /\ r.ts \in Nat /\ r.cmd \in Command /\ r.to \in Seq(Uid)
         /\ IsInjective(r.to) /\ LowByte(r.user) \in Uid /\ r # NoRequest
BY ApiRequestAssumption DEF RequestType, LowByte

LEMMA OneInjective ==
  ASSUME NEW S, NEW x \in S
  PROVE  <<x>> \in Seq(S) /\ IsInjective(<<x>>) /\ <<>> \in Seq(S) /\ IsInjective(<<>>)
BY DEF IsInjective

-----------------------------------------------------------------------------
(* Steps.  A process changes its own state only. *)

Own(a) ==
  \A b \in Api \ {a} : pc'[b] = pc[b] /\ req'[b] = req[b] /\ todo'[b] = todo[b] /\ good'[b] = good[b]

(* A process that ends a request, or goes on with it, without effect. *)
Quiet(a) ==
  \/ \E r \in Request : Receive(a, r)
  \/ AccountFails(a) \/ AuthFails(a) \/ BodyFails(a) \/ Body(a)
  \/ RedoFails(a) \/ Stored(a) \/ ApiRestart(a)

LEMMA IdleProcess ==
  ASSUME Types, NEW a \in Api, Idle(a)
  PROVE  /\ Own(a) /\ pc'[a] = "idle" /\ todo'[a] = <<>> /\ good'[a] = TRUE
         /\ pc' \in [Api -> {"idle", "auth", "body", "redo", "store"}]
         /\ req' \in [Api -> Request \cup {NoRequest}]
         /\ todo' \in [Api -> Seq(Uid)]
         /\ good' \in [Api -> BOOLEAN]
<1>1. <<>> \in Seq(Uid)
  OBVIOUS
<1> QED
  BY <1>1 DEF Idle, Goto, Own, Types, TypeOK

(* What an accepted request does to AEM-Account. *)
LEMMA Accepted ==
  ASSUME Types, NEW r \in Request, NEW stage, Newer(r), Serve(stage, r)
  PROVE  /\ last' \in [Uid -> Nat] /\ saved' \in [Uid -> Nat]
         /\ \A u \in Uid : saved'[u] <= last'[u]
         /\ \A q \in Request : Known(q) <= Known(q)' /\ Known(q) \in {0, 1} /\ Known(q)' \in {0, 1}
         /\ Known(r) = 0 /\ Known(r)' = 1
         /\ effect' = effect \/ Took(r, r.user)
         /\ r.cmd # "account" /\ stage # "redo" => effect' = effect
<1>1. last \in [Uid -> Nat] /\ saved \in [Uid -> Nat] /\ \A u \in Uid : saved[u] <= last[u]
  BY DEF Types, TypeOK
<1>2. last' = [last EXCEPT ![r.user] = r.ts]
  BY DEF Serve
<1>3. r.user \in Uid /\ r.ts \in Nat
  BY RequestTyped
<1>4. last'[r.user] = r.ts /\ last' \in [Uid -> Nat] /\ last[r.user] < r.ts
      /\ \A u \in Uid \ {r.user} : last'[u] = last[u]
  BY <1>1, <1>2, <1>3 DEF Newer
<1>5. \A u \in Uid : last[u] <= last'[u] /\ last[u] \in Nat /\ last'[u] \in Nat /\ saved[u] \in Nat
  BY <1>1, <1>3, <1>4
<1>6. saved' \in {saved, last'}
  BY DEF Serve
<1>7. \A u \in Uid : saved'[u] <= last'[u]
  BY <1>1, <1>5, <1>6
<1>8. ASSUME NEW q \in Request
      PROVE  Known(q) <= Known(q)' /\ Known(q) \in {0, 1} /\ Known(q)' \in {0, 1}
  <2>1. q.user \in Uid /\ q.ts \in Nat
    BY RequestTyped
  <2> QED
    BY <1>5, <2>1 DEF Known
<1>9. Known(r) = 0 /\ Known(r)' = 1
  BY <1>3, <1>4 DEF Known, Newer
<1>10. /\ effect' = effect \/ Took(r, r.user)
       /\ r.cmd # "account" /\ stage # "redo" => effect' = effect
  BY DEF Serve
<1> QED
  BY <1>1, <1>4, <1>6, <1>7, <1>8, <1>9, <1>10

LEMMA EffectOfOne ==
  ASSUME Types, NEW r \in Request, NEW u \in Uid, Took(r, u)
  PROVE  /\ effect' \in [Request -> [Uid -> Nat]]
         /\ effect'[r][u] = effect[r][u] + 1
         /\ \A q \in Request, v \in Uid : q # r \/ v # u => effect'[q][v] = effect[q][v]
BY DEF Took, Types

(* Less is pending when only process a moves, and it has nothing more to   *)
(* write than before.                                                      *)
LEMMA LessPending ==
  ASSUME NEW a \in Api, Own(a),
         \/ pc'[a] \notin {"body", "store"}
         \/ pc[a] \in {"body", "store"} /\ req'[a] = req[a] /\ ToSet(todo'[a]) \subseteq ToSet(todo[a]),
         NEW r, NEW u
  PROVE  Pending(r, u)' \subseteq Pending(r, u)
<1> SUFFICES ASSUME NEW b \in Api, pc'[b] \in {"body", "store"}, req'[b] = r, u \in ToSet(todo'[b])
             PROVE  pc[b] \in {"body", "store"} /\ req[b] = r /\ u \in ToSet(todo[b])
  BY DEF Pending
<1>1. CASE b = a
  BY <1>1
<1>2. CASE b # a
  BY <1>2 DEF Own
<1> QED
  BY <1>1, <1>2

(* What such a step leaves alone. *)
Without(a) ==
  /\ Own(a)
  /\ UNCHANGED <<last, saved, effect, restarts>>
  /\ late' \subseteq {"auth", "redo"} \X Request
  /\ sent' \subseteq Request
  /\ reply' \in [Request -> SUBSET {"ok", "fail", "refused", "403", "500"}]
  /\ pc' \in [Api -> {"idle", "auth", "body", "redo", "store"}]
  /\ req' \in [Api -> Request \cup {NoRequest}]
  /\ todo' \in [Api -> Seq(Uid)]
  /\ good' \in [Api -> BOOLEAN]
  /\ pc'[a] # "idle" => req'[a] \in Request
  /\ todo'[a] = todo[a] \/ todo'[a] = <<>>
  /\ \/ pc'[a] \notin {"body", "store"}
     \/ /\ pc[a] \in {"body", "store"}
        /\ req'[a] = req[a] /\ todo'[a] = todo[a] /\ good'[a] = good[a]
  /\ pc'[a] = "redo" => pc[a] = "body" /\ req'[a] = req[a] /\ req[a].cmd \in Continued

LEMMA QuietStep ==
  ASSUME Types, NEW a \in Api, Quiet(a)
  PROVE  Without(a)
<1> USE DEF account, process, outside, Types, TypeOK, Goto
<1>1. ASSUME NEW r \in Request, Receive(a, r)
      PROVE  Without(a)
  BY <1>1 DEF Receive, Without, Own
<1>2. ASSUME pc[a] # "idle", NEW x \in {"ok", "fail", "refused", "403", "500"}, Respond(a, x)
      PROVE  /\ reply' \in [Request -> SUBSET {"ok", "fail", "refused", "403", "500"}]
             /\ Idle(a)
  BY <1>2 DEF Respond
<1> DEFINE Home == /\ Idle(a)
                   /\ UNCHANGED <<last, saved, effect, restarts>>
                   /\ late' \subseteq {"auth", "redo"} \X Request
                   /\ sent' = sent
                   /\ reply' \in [Request -> SUBSET {"ok", "fail", "refused", "403", "500"}]
<1>3. ASSUME Home
      PROVE  Without(a)
  BY <1>3, IdleProcess DEF Without
<1>4. CASE AccountFails(a)
  <2>1. pc[a] \in {"auth", "redo"} /\ req[a] \in Request
    BY <1>4 DEF AccountFails
  <2>2. late' \subseteq {"auth", "redo"} \X Request
    BY <1>4, <2>1 DEF AccountFails
  <2> QED
    BY <1>2, <1>3, <1>4, <2>1, <2>2 DEF AccountFails
<1>5. CASE AuthFails(a) \/ BodyFails(a) \/ RedoFails(a)
  BY <1>2, <1>3, <1>5 DEF AuthFails, BodyFails, RedoFails
<1>6. CASE Stored(a)
  BY <1>2, <1>3, <1>6 DEF Stored
<1>7. CASE ApiRestart(a)
  BY <1>3, <1>7 DEF ApiRestart
<1>8. CASE Body(a)
  <2>1. req[a] \in Request /\ sent' \subseteq Request
    BY <1>8 DEF Body
  <2>2. pc' = [pc EXCEPT ![a] = IF req[a].cmd \in Continued THEN "redo" ELSE "store"]
    BY <1>8 DEF Body
  <2> QED
    BY <1>8, <2>1, <2>2 DEF Body, Without, Own
<1> QED
  BY <1>1, <1>4, <1>5, <1>6, <1>7, <1>8 DEF Quiet

(* Every step is one of these: none, one without effect, one of AEM-Account *)
(* for a process or for none, one that begins or goes on with writing, and *)
(* the restart of AEM-Account.                                             *)
LEMMA Steps ==
  ASSUME [Next]_vars
  PROVE  \/ UNCHANGED vars
         \/ \E a \in Api : \/ Quiet(a) \/ ForAccount(a) \/ Redo(a)
                           \/ Authentic(a) \/ Store(a)
         \/ \E stage \in {"auth", "redo"}, r \in Request : Late(stage, r)
         \/ AccountRestart
BY DEF Next, Quiet

(* A request that Account carries out is at an end for its process. *)
LEMMA CarriedOut ==
  ASSUME Types, NEW a \in Api, ForAccount(a) \/ Redo(a)
  PROVE  /\ req[a] \in Request /\ Newer(req[a])
         /\ \/ pc[a] = "auth" /\ req[a].cmd = "account" /\ Serve("auth", req[a])
            \/ pc[a] = "redo" /\ Serve("redo", req[a])
         /\ Took(req[a], req[a].user)
         /\ Idle(a) /\ UNCHANGED <<late, restarts, sent>>
         /\ reply' = [reply EXCEPT ![req[a]] = @ \cup {"ok"}]
BY DEF ForAccount, Redo, Types, TypeOK, Respond, Serve

LEMMA AuthenticStep ==
  ASSUME Types, NEW a \in Api, Authentic(a)
  PROVE  /\ req[a] \in Request /\ Newer(req[a]) /\ Serve("auth", req[a])
         /\ effect' = effect /\ Own(a)
         /\ UNCHANGED <<late, restarts, req, good, sent, reply>>
         /\ pc[a] = "auth" /\ pc'[a] \in {"body", "store"}
         /\ pc' \in [Api -> {"idle", "auth", "body", "redo", "store"}]
         /\ todo' \in [Api -> Seq(Uid)]
         /\ IsInjective(todo'[a])
         /\ req[a].cmd \in Message => todo'[a] = req[a].to
<1>1. req[a] \in Request /\ pc[a] = "auth"
  BY DEF Authentic, Types, TypeOK
<1>2. /\ req[a].cmd # "account" /\ Newer(req[a]) /\ Serve("auth", req[a])
      /\ UNCHANGED <<late, restarts, req, good, sent, reply>>
  BY DEF Authentic
<1>3. effect' = effect
  BY <1>2 DEF Serve
<1>4. pc' = [pc EXCEPT ![a] = IF req[a].cmd \in Post THEN "body" ELSE "store"]
  BY DEF Authentic, Goto
<1>5. todo' = [todo EXCEPT ![a] = IF req[a].cmd \in Message THEN req[a].to
                                  ELSE <<LowByte(req[a].user)>>]
  BY DEF Authentic
<1>6. /\ req[a].to \in Seq(Uid) /\ IsInjective(req[a].to)
      /\ <<LowByte(req[a].user)>> \in Seq(Uid) /\ IsInjective(<<LowByte(req[a].user)>>)
  BY <1>1, RequestTyped, OneInjective
<1> QED
  BY <1>1, <1>2, <1>3, <1>4, <1>5, <1>6 DEF Own, Types, TypeOK

LEMMA StoreStep ==
  ASSUME Types, NEW a \in Api, Store(a)
  PROVE  /\ req[a] \in Request /\ Head(todo[a]) \in Uid
         /\ pc[a] = "store" /\ pc' = pc /\ req' = req
         /\ todo[a] \in Seq(Uid) /\ todo[a] # <<>>
         /\ todo' \in [Api -> Seq(Uid)] /\ todo'[a] = Tail(todo[a]) /\ Own(a)
         /\ good' \in [Api -> BOOLEAN] /\ (good'[a] => good[a])
         /\ \/ effect' = effect /\ ~good'[a]
            \/ Took(req[a], Head(todo[a]))
         /\ UNCHANGED <<last, saved, late, restarts, sent, reply>>
<1>1. req[a] \in Request /\ pc[a] = "store" /\ todo[a] \in Seq(Uid) /\ todo[a] # <<>>
  BY DEF Store, Types, TypeOK
<1>2. Head(todo[a]) \in Uid /\ Tail(todo[a]) \in Seq(Uid)
  BY <1>1, HeadAndTail
<1>3. PICK o \in Outcome : /\ todo' = [todo EXCEPT ![a] = Tail(@)]
                           /\ IF o = "failed" THEN UNCHANGED effect
                                              ELSE Took(req[a], Head(todo[a]))
                           /\ good' = [good EXCEPT ![a] = @ /\ o = "done"]
                           /\ UNCHANGED <<account, pc, req, sent, times, reply>>
  BY DEF Store
<1>4. good[a] \in BOOLEAN /\ good \in [Api -> BOOLEAN] /\ todo \in [Api -> Seq(Uid)]
  BY DEF Types, TypeOK
<1>5. good' \in [Api -> BOOLEAN] /\ good'[a] = (good[a] /\ o = "done")
      /\ \A b \in Api \ {a} : good'[b] = good[b]
  BY <1>3, <1>4
<1>6. todo' \in [Api -> Seq(Uid)] /\ todo'[a] = Tail(todo[a])
      /\ \A b \in Api \ {a} : todo'[b] = todo[b]
  BY <1>2, <1>3, <1>4
<1>7. UNCHANGED <<last, saved, late, restarts, pc, req, sent, reply>>
  BY <1>3 DEF account
<1>8. \/ effect' = effect /\ ~good'[a]
      \/ Took(req[a], Head(todo[a]))
  BY <1>3, <1>5
<1> QED
  BY <1>1, <1>2, <1>5, <1>6, <1>7, <1>8 DEF Own

-----------------------------------------------------------------------------
(* The invariant. *)

LEMMA TypesStep ==
  ASSUME Types, [Next]_vars
  PROVE  Types'
<1> USE DEF Types, TypeOK
<1>1. CASE UNCHANGED vars
  BY <1>1 DEF vars, account, process, outside
<1>2. ASSUME NEW a \in Api, Quiet(a)
      PROVE  Types'
  BY <1>2, QuietStep, OneInjective DEF Without, Own
<1>3. ASSUME NEW a \in Api, ForAccount(a) \/ Redo(a)
      PROVE  Types'
  <2>1. /\ req[a] \in Request
        /\ last' \in [Uid -> Nat] /\ saved' \in [Uid -> Nat] /\ \A u \in Uid : saved'[u] <= last'[u]
    BY <1>3, CarriedOut, Accepted
  <2>2. effect' \in [Request -> [Uid -> Nat]]
    BY <1>3, <2>1, CarriedOut, EffectOfOne, RequestTyped
  <2>3. reply' \in [Request -> SUBSET {"ok", "fail", "refused", "403", "500"}]
    <3>1. reply' = [reply EXCEPT ![req[a]] = @ \cup {"ok"}]
      BY <1>3, CarriedOut
    <3> QED
      BY <2>1, <3>1
  <2>4. Idle(a) /\ UNCHANGED <<late, restarts, sent>>
    BY <1>3, CarriedOut
  <2> QED
    BY <2>1, <2>2, <2>3, <2>4, IdleProcess, OneInjective, ZenonT(60) DEF Own
<1>4. ASSUME NEW a \in Api, Authentic(a)
      PROVE  Types'
  <2>1. /\ req[a] \in Request
        /\ last' \in [Uid -> Nat] /\ saved' \in [Uid -> Nat] /\ \A u \in Uid : saved'[u] <= last'[u]
    BY <1>4, AuthenticStep, Accepted
  <2> QED
    BY <1>4, <2>1, AuthenticStep DEF Own
<1>5. ASSUME NEW a \in Api, Store(a)
      PROVE  Types'
  <2>1. effect' \in [Request -> [Uid -> Nat]]
    BY <1>5, StoreStep, EffectOfOne
  <2>2. IsInjective(todo'[a])
    <3>1. todo[a] \in Seq(Uid) /\ todo[a] # <<>> /\ todo'[a] = Tail(todo[a]) /\ IsInjective(todo[a])
      BY <1>5, StoreStep
    <3> QED
      BY <3>1, HeadAndTail
  <2> QED
    BY <1>5, <2>1, <2>2, StoreStep DEF Own
<1>6. ASSUME NEW stage \in {"auth", "redo"}, NEW r \in Request, Late(stage, r)
      PROVE  Types'
  <2>1. late' \subseteq {"auth", "redo"} \X Request /\ UNCHANGED <<restarts, process, sent, reply>>
    BY <1>6 DEF Late
  <2>2. CASE Newer(r)
    <3>1. Serve(stage, r)
      BY <1>6, <2>2 DEF Late
    <3>2. effect' \in [Request -> [Uid -> Nat]]
      BY <2>2, <3>1, Accepted, EffectOfOne, RequestTyped
    <3>3. last' \in [Uid -> Nat] /\ saved' \in [Uid -> Nat] /\ \A u \in Uid : saved'[u] <= last'[u]
      BY <2>2, <3>1, Accepted
    <3> QED
      BY <2>1, <3>2, <3>3 DEF process
  <2>3. CASE ~Newer(r)
    BY <1>6, <2>1, <2>3 DEF Late, process
  <2> QED
    BY <2>2, <2>3
<1>7. CASE AccountRestart
  BY <1>7 DEF AccountRestart, process, outside
<1> QED
  BY <1>1, <1>2, <1>3, <1>4, <1>5, <1>6, <1>7, Steps

(* One more of pending and effect only for one that is newly known, or for  *)
(* a restart.                                                              *)
LEMMA NotMore ==
  ASSUME Types, Accounted,
         NEW r \in Request, NEW u \in Uid, Pending(r, u)' \subseteq Pending(r, u),
         effect'[r][u] \in Nat, restarts' \in Nat, Known(r)' \in {0, 1},
         effect'[r][u] + restarts + Known(r) <= effect[r][u] + restarts' + Known(r)'
  PROVE  /\ IsFiniteSet(Pending(r, u)')
         /\ effect'[r][u] + Cardinality(Pending(r, u)') <= restarts' + Known(r)'
<1>1. /\ IsFiniteSet(Pending(r, u)) /\ Cardinality(Pending(r, u)) \in Nat
      /\ effect[r][u] + Cardinality(Pending(r, u)) <= restarts + Known(r)
  BY FS_CardinalityType DEF Accounted
<1>2. /\ IsFiniteSet(Pending(r, u)') /\ Cardinality(Pending(r, u)') \in Nat
      /\ Cardinality(Pending(r, u)') <= Cardinality(Pending(r, u))
  BY <1>1, FS_Subset, FS_CardinalityType
<1>3. effect[r][u] \in Nat /\ restarts \in Nat /\ Known(r) \in {0, 1}
  BY DEF Types, Known
<1> QED
  BY <1>1, <1>2, <1>3

LEMMA AccountedStep ==
  ASSUME Types, Types', Accounted, [Next]_vars
  PROVE  Accounted'
<1>0. \A r \in Request, u \in Uid :
        /\ effect[r][u] \in Nat /\ effect'[r][u] \in Nat
        /\ Known(r) \in {0, 1} /\ Known(r)' \in {0, 1}
        /\ restarts \in Nat /\ restarts' \in Nat
  BY DEF Types, Known
<1> DEFINE Settled(r, u) == /\ IsFiniteSet(Pending(r, u)')
                            /\ effect'[r][u] + Cardinality(Pending(r, u)') <= restarts' + Known(r)'
<1>1. SUFFICES ASSUME NEW r \in Request, NEW u \in Uid
               PROVE  Settled(r, u)
  BY DEF Accounted
<1>2. CASE UNCHANGED vars
  BY <1>0, <1>2, NotMore DEF vars, account, process, outside, Pending, Known
<1>3. ASSUME NEW a \in Api, Quiet(a)
      PROVE  Settled(r, u)
  <2>1. Without(a)
    BY <1>3, QuietStep
  <2>2. Pending(r, u)' \subseteq Pending(r, u)
    BY <2>1, LessPending DEF Without
  <2> QED
    BY <1>0, <2>1, <2>2, NotMore, SMTT(30) DEF Without, Known
<1>4. ASSUME NEW a \in Api, ForAccount(a) \/ Redo(a)
      PROVE  Settled(r, u)
  <2>1. /\ req[a] \in Request /\ Newer(req[a]) /\ Took(req[a], req[a].user)
        /\ Serve("auth", req[a]) \/ Serve("redo", req[a])
        /\ Own(a) /\ pc'[a] = "idle" /\ restarts' = restarts
    BY <1>4, CarriedOut, IdleProcess
  <2>2. Pending(r, u)' \subseteq Pending(r, u)
    BY <2>1, LessPending
  <2>3. Known(r) <= Known(r)' /\ (r = req[a] => Known(r) = 0 /\ Known(r)' = 1)
    <3>1. CASE Serve("auth", req[a])
      BY <2>1, <3>1, Accepted
    <3>2. CASE Serve("redo", req[a])
      BY <2>1, <3>2, Accepted
    <3> QED
      BY <2>1, <3>1, <3>2
  <2>4. /\ effect'[req[a]][req[a].user] = effect[req[a]][req[a].user] + 1
        /\ r # req[a] \/ u # req[a].user => effect'[r][u] = effect[r][u]
    BY <2>1, EffectOfOne, RequestTyped
  <2>5. effect'[r][u] + Known(r) <= effect[r][u] + Known(r)'
    <3>1. CASE r = req[a] /\ u = req[a].user
      <4>1. effect'[r][u] = effect[r][u] + 1 /\ Known(r) = 0 /\ Known(r)' = 1
        BY <2>3, <2>4, <3>1
      <4> QED
        BY <1>0, <4>1
    <3>2. CASE r # req[a] \/ u # req[a].user
      BY <1>0, <2>3, <2>4, <3>2
    <3> QED
      BY <3>1, <3>2
  <2> QED
    BY <1>0, <2>1, <2>2, <2>5, NotMore
<1>5. ASSUME NEW a \in Api, Authentic(a)
      PROVE  Settled(r, u)
  <2>1. /\ req[a] \in Request /\ effect' = effect /\ restarts' = restarts /\ req' = req
        /\ Own(a) /\ pc[a] = "auth"
        /\ Known(r) <= Known(r)' /\ Known(req[a]) = 0 /\ Known(req[a])' = 1
    BY <1>5, AuthenticStep, Accepted
  <2>2. CASE req[a] = r
    <3>1. Pending(r, u)' \subseteq Pending(r, u) \cup {a}
      BY <2>1 DEF Pending, Own
    <3>2. /\ IsFiniteSet(Pending(r, u) \cup {a})
          /\ Cardinality(Pending(r, u) \cup {a}) <= Cardinality(Pending(r, u)) + 1
          /\ Cardinality(Pending(r, u)) \in Nat
          /\ Cardinality(Pending(r, u) \cup {a}) \in Nat
      <4>1. IsFiniteSet(Pending(r, u))
        BY DEF Accounted
      <4>2. Cardinality(Pending(r, u)) \in Nat
        BY <4>1, FS_CardinalityType
      <4>3. /\ IsFiniteSet(Pending(r, u) \cup {a})
            /\ \/ Cardinality(Pending(r, u) \cup {a}) = Cardinality(Pending(r, u))
               \/ Cardinality(Pending(r, u) \cup {a}) = Cardinality(Pending(r, u)) + 1
        BY <4>1, FS_AddElement
      <4> QED
        BY <4>2, <4>3
    <3>3. /\ IsFiniteSet(Pending(r, u)')
          /\ Cardinality(Pending(r, u)') <= Cardinality(Pending(r, u) \cup {a})
          /\ Cardinality(Pending(r, u)') \in Nat
      BY <3>1, <3>2, FS_Subset, FS_CardinalityType
    <3>4. effect[r][u] + Cardinality(Pending(r, u)) <= restarts + 0
      BY <2>1, <2>2 DEF Accounted
    <3> QED
      BY <1>0, <2>1, <2>2, <3>2, <3>3, <3>4
  <2>3. CASE req[a] # r
    <3>1. Pending(r, u)' \subseteq Pending(r, u)
      BY <2>1, <2>3 DEF Pending, Own
    <3> QED
      BY <1>0, <2>1, <3>1, NotMore
  <2> QED
    BY <2>2, <2>3
<1>6. ASSUME NEW a \in Api, Store(a)
      PROVE  Settled(r, u)
  <2>1. /\ req[a] \in Request /\ Head(todo[a]) \in Uid /\ pc[a] = "store" /\ pc' = pc /\ req' = req
        /\ todo[a] \in Seq(Uid) /\ todo[a] # <<>>
        /\ todo'[a] = Tail(todo[a]) /\ Own(a)
        /\ effect' = effect \/ Took(req[a], Head(todo[a]))
        /\ UNCHANGED <<last, restarts>>
    BY <1>6, StoreStep
  <2>2. Known(r)' = Known(r)
    BY <2>1 DEF Known
  <2>3. /\ Head(todo[a]) \in ToSet(todo[a]) /\ ToSet(todo'[a]) \subseteq ToSet(todo[a])
        /\ Head(todo[a]) \notin ToSet(todo'[a])
    BY <2>1, HeadAndTail DEF Types
  <2>4. Pending(r, u)' \subseteq Pending(r, u)
    BY <2>1, <2>3, LessPending
  <2>5. CASE effect'[r][u] = effect[r][u]
    BY <1>0, <2>1, <2>2, <2>4, <2>5, NotMore, SMTT(30)
  <2>6. CASE Took(req[a], Head(todo[a])) /\ r = req[a] /\ u = Head(todo[a])
    <3>1. effect'[r][u] = effect[r][u] + 1
      BY <2>1, <2>6, EffectOfOne
    <3>2. a \in Pending(r, u) /\ a \notin Pending(r, u)'
      BY <2>1, <2>3, <2>6 DEF Pending
    <3>3. Pending(r, u)' \subseteq Pending(r, u) \ {a}
      BY <2>4, <3>2
    <3>4. /\ IsFiniteSet(Pending(r, u) \ {a})
          /\ Cardinality(Pending(r, u) \ {a}) = Cardinality(Pending(r, u)) - 1
          /\ Cardinality(Pending(r, u)) \in Nat
      BY <3>2, FS_RemoveElement, FS_CardinalityType DEF Accounted
    <3>5. /\ IsFiniteSet(Pending(r, u)')
          /\ Cardinality(Pending(r, u)') <= Cardinality(Pending(r, u) \ {a})
          /\ Cardinality(Pending(r, u)') \in Nat
      BY <3>3, <3>4, FS_Subset, FS_CardinalityType
    <3>6. effect[r][u] + Cardinality(Pending(r, u)) <= restarts + Known(r)
      BY DEF Accounted
    <3>7. restarts' = restarts
      BY <2>1
    <3>8. effect'[r][u] + Cardinality(Pending(r, u)') <= restarts' + Known(r)'
      BY <1>0, <2>2, <3>1, <3>4, <3>5, <3>6, <3>7
    <3> QED
      BY <3>5, <3>8
  <2> QED
    BY <2>1, <2>5, <2>6, EffectOfOne
<1>7. ASSUME NEW stage \in {"auth", "redo"}, NEW q \in Request, Late(stage, q)
      PROVE  Settled(r, u)
  <2>1. UNCHANGED <<pc, req, todo, restarts>>
    BY <1>7 DEF Late, process
  <2>2. Pending(r, u)' \subseteq Pending(r, u)
    BY <2>1 DEF Pending
  <2>3. effect'[r][u] + Known(r) <= effect[r][u] + Known(r)'
    <3>1. CASE Newer(q)
      <4>1. /\ effect' = effect \/ Took(q, q.user)
            /\ Known(r) <= Known(r)' /\ Known(q) = 0 /\ Known(q)' = 1
        BY <1>7, <3>1, Accepted DEF Late
      <4>2. CASE effect' = effect
        BY <1>0, <4>1, <4>2
      <4>3. CASE Took(q, q.user)
        <5>1. /\ effect'[q][q.user] = effect[q][q.user] + 1
              /\ r # q \/ u # q.user => effect'[r][u] = effect[r][u]
          BY <4>3, EffectOfOne, RequestTyped
        <5> QED
          BY <1>0, <4>1, <5>1
      <4> QED
        BY <4>1, <4>2, <4>3
    <3>2. CASE ~Newer(q)
      <4>1. effect' = effect /\ last' = last
        BY <1>7, <3>2 DEF Late
      <4> QED
        BY <1>0, <4>1 DEF Known
    <3> QED
      BY <3>1, <3>2
  <2> QED
    BY <1>0, <2>1, <2>2, <2>3, NotMore
<1>8. CASE AccountRestart
  <2>1. UNCHANGED <<pc, req, todo, effect>> /\ restarts' = restarts + 1
    BY <1>8 DEF AccountRestart, process, outside
  <2>2. Pending(r, u)' \subseteq Pending(r, u)
    BY <2>1 DEF Pending
  <2> QED
    BY <1>0, <2>1, <2>2, NotMore
<1> QED
  BY <1>2, <1>3, <1>4, <1>5, <1>6, <1>7, <1>8, Steps

(* What is in effect stays so. *)
Kept(r, u) == effect'[r][u] >= effect[r][u]

LEMMA EffectKept ==
  ASSUME Types, [Next]_vars, NEW r \in Request, NEW u \in Uid
  PROVE  Kept(r, u)
<1>0. effect[r][u] \in Nat
  BY DEF Types
<1> USE DEF Kept
<1>1. CASE UNCHANGED effect
  BY <1>0, <1>1
<1>2. ASSUME NEW q \in Request, NEW v \in Uid, Took(q, v)
      PROVE  Kept(r, u)
  <2>1. effect'[q][v] = effect[q][v] + 1 /\ (q # r \/ v # u => effect'[r][u] = effect[r][u])
    BY <1>2, EffectOfOne
  <2> QED
    BY <1>0, <2>1
<1>3. ASSUME NEW a \in Api, Quiet(a)
      PROVE  UNCHANGED effect
  BY <1>3, QuietStep DEF Without
<1>4. ASSUME NEW a \in Api, ForAccount(a) \/ Redo(a)
      PROVE  Kept(r, u)
  BY <1>2, <1>4, CarriedOut, RequestTyped
<1>5. ASSUME NEW a \in Api, Authentic(a)
      PROVE  UNCHANGED effect
  BY <1>5, AuthenticStep
<1>6. ASSUME NEW a \in Api, Store(a)
      PROVE  Kept(r, u)
  BY <1>1, <1>2, <1>6, StoreStep
<1>7. ASSUME NEW stage \in {"auth", "redo"}, NEW q \in Request, Late(stage, q)
      PROVE  Kept(r, u)
  <2>1. UNCHANGED effect \/ Took(q, q.user)
    BY <1>7 DEF Late, Serve
  <2> QED
    BY <1>1, <1>2, <2>1, RequestTyped
<1>8. CASE AccountRestart \/ UNCHANGED vars
  BY <1>1, <1>8 DEF AccountRestart, outside, vars
<1> QED
  BY <1>1, <1>3, <1>4, <1>5, <1>6, <1>7, <1>8, Steps

(* The mailboxes of a request. *)
LEMMA ToTyped ==
  ASSUME NEW r \in Request, NEW i \in DOMAIN r.to
  PROVE  r.to[i] \in Uid /\ r.to[i] \in ToSet(r.to)
BY RequestTyped DEF ToSet

(* Underway and SentIsStored, for one process and for one request. *)
OnItsWay(a) ==
  /\ pc[a] = "redo" => req[a].cmd \in Continued
  /\ pc[a] \in {"body", "store"} /\ good[a] /\ req[a].cmd \in Message =>
       \A i \in DOMAIN req[a].to :
         req[a].to[i] \in ToSet(todo[a]) \/ effect[req[a]][req[a].to[i]] > 0

(* A process whose request goes on as it was stays underway, whatever the  *)
(* others do meanwhile.                                                    *)
LEMMA StaysOnItsWay ==
  ASSUME Types, Types', [Next]_vars, NEW a \in Api, OnItsWay(a),
         pc'[a] = "redo" => pc[a] = "redo" \/ req[a].cmd \in Continued,
         pc'[a] \in {"body", "store"} => pc[a] \in {"body", "store"},
         pc'[a] # "idle" => req'[a] = req[a],
         pc'[a] \in {"body", "store"} => todo'[a] = todo[a] /\ good'[a] = good[a]
  PROVE  OnItsWay(a)'
<1>1. pc'[a] = "redo" => req'[a].cmd \in Continued
  BY DEF OnItsWay
<1>2. ASSUME pc'[a] \in {"body", "store"}, good'[a], req'[a].cmd \in Message,
             NEW i \in DOMAIN req'[a].to
      PROVE  req'[a].to[i] \in ToSet(todo'[a]) \/ effect'[req'[a]][req'[a].to[i]] > 0
  <2>1. /\ req'[a] = req[a] /\ todo'[a] = todo[a] /\ good'[a] = good[a]
        /\ req[a] \in Request /\ i \in DOMAIN req[a].to
    BY <1>2 DEF Types, TypeOK
  <2>2. req[a].to[i] \in ToSet(todo[a]) \/ effect[req[a]][req[a].to[i]] > 0
    BY <1>2, <2>1 DEF OnItsWay
  <2>3. req[a].to[i] \in Uid
    BY <2>1, ToTyped
  <2>4. /\ effect'[req[a]][req[a].to[i]] >= effect[req[a]][req[a].to[i]]
        /\ effect'[req[a]][req[a].to[i]] \in Nat /\ effect[req[a]][req[a].to[i]] \in Nat
    BY <2>1, <2>3, EffectKept DEF Kept, Types
  <2> QED
    BY <2>1, <2>2, <2>4
<1> QED
  BY <1>1, <1>2 DEF OnItsWay

LEMMA UnderwayStep ==
  ASSUME Types, Types', Underway, [Next]_vars
  PROVE  Underway'
<1> SUFFICES ASSUME NEW b \in Api
             PROVE  OnItsWay(b)'
  BY DEF Underway, OnItsWay
<1>0. OnItsWay(b)
  BY DEF Underway, OnItsWay
<1>1. CASE UNCHANGED <<pc, req, todo, good>>
  BY <1>0, <1>1, StaysOnItsWay
<1>2. ASSUME NEW a \in Api, Own(a), a # b
      PROVE  OnItsWay(b)'
  BY <1>0, <1>2, StaysOnItsWay DEF Own
<1>3. CASE pc'[b] = "idle"
  BY <1>3 DEF OnItsWay
<1>4. ASSUME NEW a \in Api, Quiet(a)
      PROVE  OnItsWay(b)'
  <2>1. Without(a)
    BY <1>4, QuietStep
  <2>2. CASE a = b
    <3>1. CASE pc'[b] \in {"body", "store"}
      BY <1>0, <2>1, <2>2, <3>1, StaysOnItsWay DEF Without
    <3>2. CASE pc'[b] = "redo"
      BY <2>1, <2>2, <3>2 DEF Without, OnItsWay
    <3>3. CASE pc'[b] \notin {"body", "store", "redo"}
      BY <3>3 DEF OnItsWay
    <3> QED
      BY <3>1, <3>2, <3>3
  <2> QED
    BY <1>2, <2>1, <2>2 DEF Without
<1>5. ASSUME NEW a \in Api, ForAccount(a) \/ Redo(a)
      PROVE  OnItsWay(b)'
  BY <1>2, <1>3, <1>5, CarriedOut, IdleProcess
<1>6. ASSUME NEW a \in Api, Authentic(a)
      PROVE  OnItsWay(b)'
  <2>1. CASE a = b
    <3>1. /\ req' = req /\ req[b] \in Request /\ pc'[b] \in {"body", "store"}
          /\ req[b].cmd \in Message => todo'[b] = req[b].to
      BY <1>6, <2>1, AuthenticStep
    <3> QED
      BY <3>1, ToTyped DEF OnItsWay
  <2> QED
    BY <1>2, <1>6, <2>1, AuthenticStep
<1>7. ASSUME NEW a \in Api, Store(a)
      PROVE  OnItsWay(b)'
  <2>1. CASE a = b
    <3>1. /\ req[b] \in Request /\ Head(todo[b]) \in Uid
          /\ pc[b] = "store" /\ pc' = pc /\ req' = req
          /\ todo[b] \in Seq(Uid) /\ todo[b] # <<>> /\ todo'[b] = Tail(todo[b])
          /\ good'[b] => good[b]
          /\ (effect' = effect /\ ~good'[b]) \/ Took(req[b], Head(todo[b]))
      BY <1>7, <2>1, StoreStep
    <3>2. ASSUME good'[b], req[b].cmd \in Message, NEW i \in DOMAIN req[b].to
          PROVE  req[b].to[i] \in ToSet(todo'[b]) \/ effect'[req[b]][req[b].to[i]] > 0
      <4>1. req[b].to[i] \in Uid
        BY <3>1, ToTyped
      <4>2. /\ effect'[req[b]][req[b].to[i]] >= effect[req[b]][req[b].to[i]]
            /\ effect'[req[b]][req[b].to[i]] \in Nat /\ effect[req[b]][req[b].to[i]] \in Nat
        <5>1. Kept(req[b], req[b].to[i])
          BY <3>1, <4>1, EffectKept
        <5>2. effect \in [Request -> [Uid -> Nat]] /\ effect' \in [Request -> [Uid -> Nat]]
          BY DEF Types
        <5> QED
          BY <3>1, <4>1, <5>1, <5>2 DEF Kept
      <4>3. req[b].to[i] \in ToSet(todo[b]) \/ effect[req[b]][req[b].to[i]] > 0
        BY <1>0, <3>1, <3>2 DEF OnItsWay
      <4>4. CASE req[b].to[i] = Head(todo[b])
        <5>1. effect'[req[b]][req[b].to[i]] = effect[req[b]][req[b].to[i]] + 1
          BY <3>1, <3>2, <4>4, EffectOfOne
        <5> QED
          BY <4>2, <5>1
      <4>5. CASE req[b].to[i] # Head(todo[b])
        <5>1. ToSet(todo[b]) \subseteq ToSet(todo'[b]) \cup {Head(todo[b])}
          BY <3>1, HeadAndTail
        <5> QED
          BY <4>2, <4>3, <4>5, <5>1
      <4> QED
        BY <4>4, <4>5
    <3> QED
      BY <3>1, <3>2 DEF OnItsWay
  <2> QED
    BY <1>2, <1>7, <2>1, StoreStep
<1>8. ASSUME NEW stage \in {"auth", "redo"}, NEW r \in Request, Late(stage, r)
      PROVE  OnItsWay(b)'
  BY <1>1, <1>8 DEF Late, process
<1>9. CASE AccountRestart \/ UNCHANGED vars
  BY <1>1, <1>9 DEF AccountRestart, process, vars
<1> QED
  BY <1>4, <1>5, <1>6, <1>7, <1>8, <1>9, Steps

(* Success is answered by a process that has nothing left to write and has *)
(* noted no failure, or by AEM-Account, to what is no message.             *)
LEMMA Answered ==
  ASSUME Types, Underway, [Next]_vars, NEW r \in Request,
         "ok" \in reply'[r], r.cmd \in Message
  PROVE  \/ "ok" \in reply[r]
         \/ \A i \in DOMAIN r.to : effect[r][r.to[i]] > 0
<1>0. reply \in [Request -> SUBSET {"ok", "fail", "refused", "403", "500"}]
      /\ \A a \in Api : pc[a] # "idle" => req[a] \in Request
  BY DEF Types, TypeOK
<1>1. CASE UNCHANGED reply
  BY <1>1
<1>2. ASSUME NEW a \in Api, NEW x \in {"fail", "refused", "403", "500"}, req[a] \in Request,
             Respond(a, x)
      PROVE  "ok" \in reply[r]
  BY <1>0, <1>2 DEF Respond
<1>3. ASSUME NEW a \in Api, ForAccount(a) \/ Redo(a)
      PROVE  "ok" \in reply[r]
  <2>1. req[a].cmd \notin Message
    <3>1. (pc[a] = "auth" /\ req[a].cmd = "account") \/ pc[a] = "redo"
      BY <1>3, CarriedOut
    <3> QED
      BY <3>1 DEF Underway, Continued, Message
  <2>2. reply' = [reply EXCEPT ![req[a]] = @ \cup {"ok"}] /\ req[a] \in Request
    BY <1>3, CarriedOut
  <2> QED
    BY <1>0, <2>1, <2>2
<1>4. ASSUME NEW a \in Api, Stored(a), "ok" \notin reply[r]
      PROVE  \A i \in DOMAIN r.to : effect[r][r.to[i]] > 0
  <2>1. /\ pc[a] = "store" /\ todo[a] = <<>> /\ req[a] \in Request
        /\ reply' = [reply EXCEPT ![req[a]] =
                       @ \cup {IF good[a] /\ req[a].cmd # "upload" THEN "ok" ELSE "fail"}]
    BY <1>0, <1>4 DEF Stored, Respond
  <2>2. req[a] = r /\ good[a]
    BY <1>0, <1>4, <2>1
  <2>3. ToSet(todo[a]) = {}
    BY <2>1 DEF ToSet
  <2> QED
    BY <2>1, <2>2, <2>3 DEF Underway
<1>5. ASSUME NEW a \in Api, AccountFails(a) \/ AuthFails(a) \/ BodyFails(a) \/ RedoFails(a)
      PROVE  "ok" \in reply[r]
  <2>1. req[a] \in Request /\ \E x \in {"fail", "refused", "403", "500"} : Respond(a, x)
    BY <1>0, <1>5 DEF AccountFails, AuthFails, BodyFails, RedoFails
  <2> QED
    BY <1>2, <2>1
<1>6. ASSUME NEW a \in Api, Quiet(a)
      PROVE  \/ "ok" \in reply[r]
             \/ \A i \in DOMAIN r.to : effect[r][r.to[i]] > 0
  BY <1>1, <1>4, <1>5, <1>6 DEF Quiet, Receive, Body, ApiRestart
<1>7. ASSUME NEW a \in Api, Authentic(a) \/ Store(a)
      PROVE  "ok" \in reply[r]
  BY <1>1, <1>7, AuthenticStep, StoreStep
<1>8. ASSUME NEW stage \in {"auth", "redo"}, NEW q \in Request, Late(stage, q)
      PROVE  "ok" \in reply[r]
  BY <1>1, <1>8 DEF Late
<1>9. CASE AccountRestart \/ UNCHANGED vars
  BY <1>1, <1>9 DEF AccountRestart, vars
<1> QED
  BY <1>3, <1>6, <1>7, <1>8, <1>9, Steps

LEMMA SentStep ==
  ASSUME Types, Types', Underway, SentIsStored, [Next]_vars
  PROVE  SentIsStored'
<1> SUFFICES ASSUME NEW r \in Request, r.cmd \in Message, "ok" \in reply'[r],
                    NEW i \in DOMAIN r.to
             PROVE  effect'[r][r.to[i]] > 0
  BY DEF SentIsStored
<1>1. effect[r][r.to[i]] > 0
  BY Answered DEF SentIsStored
<1>2. /\ effect'[r][r.to[i]] >= effect[r][r.to[i]]
      /\ effect'[r][r.to[i]] \in Nat /\ effect[r][r.to[i]] \in Nat
  BY ToTyped, EffectKept DEF Kept, Types
<1> QED
  BY <1>1, <1>2

LEMMA InvInit ==
  Init => Inv
<1> SUFFICES ASSUME Init
             PROVE  Inv
  OBVIOUS
<1>1. Types
  <2>1. last \in [Uid -> Nat] /\ saved \in [Uid -> Nat] /\ \A u \in Uid : saved[u] <= last[u]
    BY DEF Init
  <2>2. \A a \in Api : todo[a] = <<>>
    BY DEF Init
  <2> QED
    BY <2>1, <2>2 DEF Init, Types, TypeOK, IsInjective
<1>2. Accounted
  <2> SUFFICES ASSUME NEW r \in Request, NEW u \in Uid
               PROVE  /\ IsFiniteSet(Pending(r, u))
                      /\ effect[r][u] + Cardinality(Pending(r, u)) <= restarts + Known(r)
    BY DEF Accounted
  <2>1. Pending(r, u) = {}
    BY DEF Init, Pending
  <2>2. IsFiniteSet(Pending(r, u)) /\ Cardinality(Pending(r, u)) = 0
    BY <2>1, FS_EmptySet
  <2>3. effect[r][u] = 0 /\ restarts = 0 /\ Known(r) \in {0, 1}
    BY DEF Init, Known
  <2> QED
    BY <2>2, <2>3
<1>3. Underway /\ SentIsStored
  BY DEF Init, Underway, SentIsStored
<1> QED
  BY <1>1, <1>2, <1>3 DEF Inv

LEMMA InvAlways ==
  Spec => []Inv
<1>1. Inv /\ [Next]_vars => Inv'
  BY TypesStep, AccountedStep, UnderwayStep, SentStep DEF Inv
<1> QED
  BY InvInit, <1>1, PTL DEF Spec

-----------------------------------------------------------------------------
(* Types: api_auth's times in memory are never behind those saved, and     *)
(* respondClient has a request in every state but the idle one.            *)
THEOREM RequestsTyped ==
  Spec => []TypeOK
<1>1. Inv => TypeOK
  BY DEF Inv, Types
<1> QED
  BY InvAlways, <1>1, PTL

(* api_auth: a request takes effect once on what it concerns, and once     *)
(* more for each restart of AEM-Account, however often, through however    *)
(* many processes it is repeated, whatever is late or fails.               *)
THEOREM RequestsTakeEffectOnce ==
  Spec => []TakesEffectOnce
<1>1. ASSUME Inv
      PROVE  TakesEffectOnce
  <2> SUFFICES ASSUME NEW r \in Request, NEW u \in Uid
               PROVE  effect[r][u] <= 1 + restarts
    BY DEF TakesEffectOnce
  <2>1. /\ IsFiniteSet(Pending(r, u)) /\ Cardinality(Pending(r, u)) \in Nat
        /\ effect[r][u] + Cardinality(Pending(r, u)) <= restarts + Known(r)
    BY <1>1, FS_CardinalityType DEF Inv, Accounted
  <2>2. effect[r][u] \in Nat /\ restarts \in Nat /\ Known(r) \in {0, 1}
    BY <1>1 DEF Inv, Types, Known
  <2> QED
    BY <2>1, <2>2
<1> QED
  BY InvAlways, <1>1, PTL

(* send_imail, send_pmail: a message answered with success has been        *)
(* written to the mailbox of everybody whom AEM-Account named, whatever    *)
(* other processes did with the same request meanwhile.                    *)
THEOREM SentAreStored ==
  Spec => []SentIsStored
<1>1. Inv => SentIsStored
  BY DEF Inv
<1> QED
  BY InvAlways, <1>1, PTL
=============================================================================
