------------------------ MODULE AccountStorageProofs ------------------------
(***************************************************************************)
(* An answer that an account was created or deleted can be relied on, for  *)
(* every number of persons, UserIDs, callers and requests, whoever gives   *)
(* up, comes late, or is restarted.                                        *)
(***************************************************************************)
EXTENDS AccountStorage, SequencesExt, SequenceTheorems, TLAPS

Asked   == {o \in Op : o.kind = "create" => o.who \in Person}
Entry   == [from : Client \cup {None}, op : Asked]
Answers == {Nothing, Wait, Error, Done} \cup [is : {"keys"}, val : Person]
           \cup [is : {"found"}, val : {o \in Asked : o.kind \in Uses}]

TransportTypes ==
  /\ queue \in [Server -> Seq(Entry)]
  /\ \A s \in Server : Len(queue[s]) <= Backlog
  /\ serving \in [Server -> {None} \cup Entry]
  /\ answer \in [Client -> Answers]

Types ==
  /\ acct \in [Uid -> Person \cup {None}]
  /\ box = [u \in Uid |-> box[u]]
  /\ \A u \in Uid : box[u] = None \/ box[u] \in SUBSET Sealed
  /\ called \in [Server -> BOOLEAN]
  /\ settled \in [Uid -> BOOLEAN]
  /\ TransportTypes

(* What a server has been sent and not yet answered: it serves the request *)
(* at place 0.                                                             *)
At(s, i)  == IF i = 0 THEN serving[s] ELSE queue[s][i]
Places(s) == {i \in 0 .. Len(queue[s]) : At(s, i) # None}

OpenOrDrop == {"open", "drop"}

(* A server calls for what it serves, and Account has made the change. *)
Calling ==
  /\ called["acc"] =>
       /\ serving["acc"] # None
       /\ \/ Of("acc").kind = "create" /\ acct[Of("acc").uid] # None
          \/ Of("acc").kind = "delete" /\ acct[Of("acc").uid] = None
  /\ called["sto"] => serving["sto"] # None /\ Of("sto").kind \in {"write", "empty"}

Expected(q) ==
  /\ called["acc"] /\ Waiting("acc")
  /\ q.op.uid = Of("acc").uid
  /\ q.op.kind = IF Of("acc").kind = "create" THEN "open" ELSE "drop"

AskedFor(q) ==
  /\ called["sto"] /\ Waiting("sto")
  /\ q.op.kind = "keys" /\ q.op.uid = Of("sto").uid

(* The request that Account waits for is the one that it is serving for,   *)
(* and there is none behind it that opens or drops a mailbox.              *)
FromAccount ==
  \A i \in Places("sto") : At("sto", i).from = "acc" =>
    /\ Expected(At("sto", i))
    /\ \A j \in Places("sto") : j > i => At("sto", j).op.kind \notin OpenOrDrop

(* The same for the keys that Storage waits for: it asks once. *)
FromStorage ==
  \A i \in Places("acc") : At("acc", i).from = "sto" =>
    /\ AskedFor(At("acc", i))
    /\ \A j \in Places("acc") : At("acc", j).from = "sto" => i = j

(* Storage has confirmed the last change of the account u, though Account  *)
(* may not have looked at the answer yet.                                  *)
Sure(u) ==
  \/ settled[u]
  \/ called["acc"] /\ answer["acc"] = Done /\ Of("acc").uid = u

Right(u) ==
  /\ acct[u] = None <=> box[u] = None
  /\ box[u] # None => \A e \in box[u] : e.key \in {acct[u], Unknown}

Quiet(u) ==
  \A i \in Places("sto") :
    At("sto", i).op.uid = u => At("sto", i).op.kind \notin OpenOrDrop

KeyIsOwners(u) ==
  called["sto"] /\ answer["sto"].is = "keys" /\ Of("sto").uid = u =>
    answer["sto"].val = acct[u]

(* Then no change of its mailbox is left from earlier, and the keys that   *)
(* Storage may have got for it meanwhile are its owner's.                  *)
Confirmations == \A u \in Uid : Sure(u) => Right(u) /\ Quiet(u) /\ KeyIsOwners(u)

Inv == Types /\ Calling /\ FromAccount /\ FromStorage /\ Confirmations

-----------------------------------------------------------------------------
(* What the steps of the transport do to the places of a server: requests  *)
(* move up by d, and some of them are abandoned.                           *)
Moved(s, d) ==
  \A i \in Places(s)' :
    /\ i + d \in Places(s)
    /\ At(s, i)'.op = At(s, i + d).op
    /\ At(s, i)'.from \in {At(s, i + d).from, None}

LEMMA Names ==
  /\ Server = {"acc", "sto"} /\ "acc" \in Server /\ "sto" \in Server
  /\ Server \subseteq Client
  /\ None \notin Client /\ "acc" \notin Caller /\ "sto" \notin Caller
  /\ None \notin Entry
  BY AccountStorageAssumption, RequestAssumption DEF Server, Client, Entry, Asked

LEMMA LinesTyped ==
  ASSUME Types, NEW s \in Server
  PROVE  /\ queue[s] \in Seq(Entry) /\ Len(queue[s]) \in Nat
         /\ serving[s] \in {None} \cup Entry
         /\ \A i \in 1 .. Len(queue[s]) : queue[s][i] \in Entry
         /\ Places(s) = {i \in 0 .. Len(queue[s]) : i # 0 \/ serving[s] # None}
         /\ \A i \in Places(s) : At(s, i) \in Entry
<1>1. queue[s] \in Seq(Entry) /\ serving[s] \in {None} \cup Entry
  BY DEF Types, TransportTypes
<1>2. Len(queue[s]) \in Nat /\ \A i \in 1 .. Len(queue[s]) : queue[s][i] \in Entry
  BY <1>1
<1>3. None \notin Entry
  BY Names
<1>4. \A i \in 0 .. Len(queue[s]) : i # 0 => At(s, i) \in Entry
  BY <1>2 DEF At
<1>5. At(s, 0) = serving[s]
  BY DEF At
<1> QED
  BY <1>1, <1>2, <1>3, <1>4, <1>5 DEF Places

LEMMA OnReply ==
  ASSUME Types, NEW s \in Server, NEW r, Reply(s, r)
  PROVE  /\ \A t \in Server : Moved(t, 0)
         /\ \A t \in Server : \A i \in Places(t)' : At(t, i)' = At(t, i)
         /\ 0 \notin Places(s)'
         /\ \A t \in Server : t # s => serving'[t] = serving[t]
         /\ answer'[s] = Nothing
         /\ \A x \in Client : x # s =>
              answer'[x] = IF x = serving[s].from THEN r ELSE answer[x]
<1>1. queue' = queue /\ serving' = [serving EXCEPT ![s] = None]
  BY DEF Reply
<1>2. serving'[s] = None /\ \A t \in Server : t # s => serving'[t] = serving[t]
  BY <1>1 DEF Types, TransportTypes
<1>3. 0 \notin Places(s)'
  BY <1>2 DEF Places, At
<1>4. ASSUME NEW t \in Server, NEW i \in Places(t)'
      PROVE  i \in Places(t) /\ At(t, i)' = At(t, i)
  <2>1. t = s => i # 0
    BY <1>3
  <2> QED
    BY <1>1, <1>2, <2>1 DEF Places, At
<1>5. \A t \in Server : Moved(t, 0)
  <2> SUFFICES ASSUME NEW t \in Server, NEW i \in Places(t)'
               PROVE  /\ i + 0 \in Places(t)
                      /\ At(t, i)'.op = At(t, i + 0).op
                      /\ At(t, i)'.from \in {At(t, i + 0).from, None}
    BY DEF Moved
  <2>1. i \in 0 .. Len(queue'[t])
    BY DEF Places
  <2>2. i + 0 = i
    BY <2>1
  <2> QED
    BY <1>4, <2>2
<1>6. /\ answer'[s] = Nothing
      /\ \A x \in Client : x # s =>
           answer'[x] = IF x = serving[s].from THEN r ELSE answer[x]
  <2>1. answer' = Told(s, r) /\ s \in Client
    BY Names DEF Reply
  <2>2. \A x \in Client : Told(s, r)[x] =
          IF x = s THEN Nothing ELSE IF x = serving[s].from THEN r ELSE answer[x]
    BY DEF Told
  <2> QED
    BY <2>1, <2>2
<1> QED
  BY <1>2, <1>3, <1>4, <1>5, <1>6

LEMMA OnConnect ==
  ASSUME Types, NEW x \in Client, NEW s \in Server, NEW o, Connect(x, s, o)
  PROVE  /\ \A t \in Server : t # s => Moved(t, 0)
         /\ \A i \in Places(s)' :
              \/ i = Len(queue[s]) + 1 /\ At(s, i)' = Request(x, o)
              \/ i \in Places(s) /\ At(s, i)' = At(s, i)
         /\ \A i \in Places(s) : i < Len(queue[s]) + 1
         /\ answer[x] # Wait /\ answer' = [answer EXCEPT ![x] = Wait]
         /\ serving' = serving
         /\ Len(queue[s]) < Backlog
<1>1. /\ queue' = [queue EXCEPT ![s] = Append(@, Request(x, o))]
      /\ answer' = [answer EXCEPT ![x] = Wait]
      /\ serving' = serving /\ answer[x] # Wait
      /\ Len(queue[s]) < Backlog
  BY DEF Connect, Waiting
<1>2. /\ queue'[s] = Append(queue[s], Request(x, o))
      /\ \A t \in Server : t # s => queue'[t] = queue[t]
  BY <1>1 DEF Types, TransportTypes
<1>3. queue[s] \in Seq(Entry) /\ Len(queue[s]) \in Nat
  BY LinesTyped
<1>4. /\ Len(queue'[s]) = Len(queue[s]) + 1
      /\ queue'[s][Len(queue[s]) + 1] = Request(x, o)
      /\ \A i \in 1 .. Len(queue[s]) : queue'[s][i] = queue[s][i]
  BY <1>2, <1>3
<1>5. ASSUME NEW i \in Places(s)'
      PROVE  \/ i = Len(queue[s]) + 1 /\ At(s, i)' = Request(x, o)
             \/ i \in Places(s) /\ At(s, i)' = At(s, i)
  <2>1. i \in 0 .. Len(queue[s]) + 1 /\ At(s, i)' # None
    BY <1>4 DEF Places
  <2>2. CASE i = 0
    BY <1>1, <1>3, <2>1, <2>2 DEF Places, At
  <2>3. CASE i = Len(queue[s]) + 1
    BY <1>3, <1>4, <2>3 DEF At
  <2>4. CASE i \in 1 .. Len(queue[s])
    BY <1>4, <2>1, <2>4 DEF Places, At
  <2> QED
    BY <1>3, <2>1, <2>2, <2>3, <2>4
<1>6. \A i \in Places(s) : i < Len(queue[s]) + 1
  BY <1>3 DEF Places
<1>7. ASSUME NEW t \in Server, t # s
      PROVE  Moved(t, 0)
  <2>1. queue'[t] = queue[t] /\ serving'[t] = serving[t]
    BY <1>1, <1>2, <1>7
  <2>2. \A i \in Places(t)' : i \in Places(t) /\ At(t, i)' = At(t, i) /\ i + 0 = i
    BY <2>1 DEF Places, At
  <2> QED
    BY <2>2 DEF Moved
<1> QED
  BY <1>1, <1>5, <1>6, <1>7

LEMMA OnAccept ==
  ASSUME Types, NEW s \in Server, Accept(s)
  PROVE  /\ Moved(s, 1) /\ \A t \in Server : t # s => Moved(t, 0)
         /\ serving[s] = None
         /\ \A t \in Server : t # s => serving'[t] = serving[t]
         /\ answer' = answer
         /\ queue'[s] = Tail(queue[s])
<1>1. /\ serving[s] = None /\ queue[s] # <<>> /\ answer' = answer
      /\ serving'[s] = Head(queue[s]) /\ queue'[s] = Tail(queue[s])
      /\ \A t \in Server : t # s => serving'[t] = serving[t] /\ queue'[t] = queue[t]
  BY DEF Accept, Types, TransportTypes
<1>2. queue[s] \in Seq(Entry) /\ Len(queue[s]) \in Nat
  BY LinesTyped
<1>3. /\ Len(queue'[s]) = Len(queue[s]) - 1 /\ Len(queue[s]) > 0
      /\ serving'[s] = queue[s][1]
      /\ \A i \in 1 .. Len(queue'[s]) : queue'[s][i] = queue[s][i + 1]
  BY <1>1, <1>2
<1>4. ASSUME NEW i \in Places(s)'
      PROVE  i + 1 \in Places(s) /\ At(s, i)' = At(s, i + 1)
  <2>1. i \in 0 .. Len(queue[s]) - 1 /\ At(s, i)' # None
    BY <1>3 DEF Places
  <2>2. i + 1 \in 0 .. Len(queue[s]) /\ i + 1 # 0
    BY <1>2, <2>1
  <2>3. At(s, i)' = queue[s][i + 1]
    <3>1. CASE i = 0
      BY <1>3, <3>1 DEF At
    <3>2. CASE i # 0
      BY <1>2, <1>3, <2>1, <3>2 DEF At
    <3> QED
      BY <3>1, <3>2
  <2>4. At(s, i + 1) = queue[s][i + 1]
    BY <2>2 DEF At
  <2> QED
    BY <2>1, <2>2, <2>3, <2>4 DEF Places
<1>5. ASSUME NEW t \in Server, t # s
      PROVE  Moved(t, 0)
  <2>1. \A i \in Places(t)' : i \in Places(t) /\ At(t, i)' = At(t, i) /\ i + 0 = i
    BY <1>1, <1>5 DEF Places, At
  <2> QED
    BY <2>1 DEF Moved
<1>6. Moved(s, 1)
  BY <1>4 DEF Moved
<1> QED
  BY <1>1, <1>5, <1>6

LEMMA OnShort ==
  ASSUME Types, NEW s \in Server, Short(s)
  PROVE  /\ Moved(s, 1) /\ \A t \in Server : t # s => Moved(t, 0)
         /\ serving' = serving /\ answer' = answer
         /\ queue'[s] = Tail(queue[s]) /\ queue[s] # <<>>
<1>1. /\ serving[s] = None /\ queue[s] # <<>> /\ answer' = answer /\ serving' = serving
      /\ queue'[s] = Tail(queue[s])
      /\ \A t \in Server : t # s => queue'[t] = queue[t]
  BY DEF Short, Types, TransportTypes
<1>2. queue[s] \in Seq(Entry) /\ Len(queue[s]) \in Nat
  BY LinesTyped
<1>3. /\ Len(queue'[s]) = Len(queue[s]) - 1 /\ Len(queue[s]) > 0
      /\ \A i \in 1 .. Len(queue'[s]) : queue'[s][i] = queue[s][i + 1]
  BY <1>1, <1>2
<1>4. ASSUME NEW i \in Places(s)'
      PROVE  i + 1 \in Places(s) /\ At(s, i)' = At(s, i + 1)
  <2>1. i \in 1 .. Len(queue[s]) - 1 /\ At(s, i)' # None
    BY <1>1, <1>3 DEF Places, At
  <2>2. i + 1 \in 0 .. Len(queue[s]) /\ i + 1 # 0 /\ i # 0
    BY <1>2, <2>1
  <2>3. At(s, i)' = queue[s][i + 1]
    BY <1>2, <1>3, <2>1, <2>2 DEF At
  <2>4. At(s, i + 1) = queue[s][i + 1]
    BY <2>2 DEF At
  <2> QED
    BY <2>1, <2>2, <2>3, <2>4 DEF Places
<1>5. ASSUME NEW t \in Server, t # s
      PROVE  Moved(t, 0)
  <2>1. \A i \in Places(t)' : i \in Places(t) /\ At(t, i)' = At(t, i) /\ i + 0 = i
    BY <1>1, <1>5 DEF Places, At
  <2> QED
    BY <2>1 DEF Moved
<1>6. Moved(s, 1)
  BY <1>4 DEF Moved
<1> QED
  BY <1>1, <1>5, <1>6

LEMMA OnAbandoned ==
  ASSUME NEW q \in {None} \cup Entry, NEW x \in Client
  PROVE  /\ Abandoned(q, x) \in {None} \cup Entry
         /\ Abandoned(q, x) = None <=> q = None
         /\ q # None => /\ Abandoned(q, x).op = q.op
                        /\ Abandoned(q, x).from \in {q.from, None}
                        /\ Abandoned(q, x).from # x
<1>1. None \notin Entry /\ x # None
  BY Names
<1>2. CASE q # None /\ q.from = x
  <2>1. Abandoned(q, x) = [q EXCEPT !.from = None] /\ q \in Entry
    BY <1>2 DEF Abandoned
  <2>2. /\ [q EXCEPT !.from = None] \in Entry
        /\ [q EXCEPT !.from = None].op = q.op
        /\ [q EXCEPT !.from = None].from = None
    BY <2>1 DEF Entry
  <2> QED
    BY <1>1, <1>2, <2>1, <2>2
<1>3. CASE ~(q # None /\ q.from = x)
  <2>1. Abandoned(q, x) = q
    BY <1>3 DEF Abandoned
  <2> QED
    BY <1>1, <1>3, <2>1
<1> QED
  BY <1>2, <1>3

(* Both a client that gives up and one that ends leave their requests of   *)
(* the line of t without anybody who waits for the answer.                 *)
Left(t, x) ==
  /\ queue'[t] = [i \in DOMAIN queue[t] |-> Abandoned(queue[t][i], x)]
  /\ serving'[t] = Abandoned(serving[t], x)

LEMMA OnLeft ==
  ASSUME Types, NEW t \in Server, NEW x \in Client, Left(t, x)
  PROVE  /\ Moved(t, 0)
         /\ \A i \in Places(t)' : At(t, i)'.from # x
         /\ serving'[t] = None <=> serving[t] = None
         /\ serving[t] # None => serving'[t].op = serving[t].op
         /\ serving'[t] \in {None} \cup Entry
         /\ queue'[t] \in Seq(Entry) /\ Len(queue'[t]) = Len(queue[t])
<1>1. /\ queue[t] \in Seq(Entry) /\ Len(queue[t]) \in Nat
      /\ serving[t] \in {None} \cup Entry
      /\ \A i \in 1 .. Len(queue[t]) : queue[t][i] \in Entry
  BY LinesTyped
<1>2. DOMAIN queue[t] = 1 .. Len(queue[t])
  BY <1>1
<1>3. \A i \in 1 .. Len(queue[t]) :
        /\ queue'[t][i] = Abandoned(queue[t][i], x)
        /\ queue'[t][i] \in Entry
  BY <1>1, <1>2, OnAbandoned, Names DEF Left
<1>4. queue'[t] = [i \in 1 .. Len(queue[t]) |-> queue'[t][i]]
  BY <1>2 DEF Left
<1>5. queue'[t] \in Seq(Entry) /\ Len(queue'[t]) = Len(queue[t])
  BY <1>1, <1>3, <1>4
<1>6. /\ serving'[t] = None <=> serving[t] = None
      /\ serving[t] # None => serving'[t].op = serving[t].op
      /\ serving'[t] \in {None} \cup Entry
  BY <1>1, OnAbandoned DEF Left
<1>7. ASSUME NEW i \in Places(t)'
      PROVE  /\ i + 0 \in Places(t)
             /\ At(t, i)'.op = At(t, i + 0).op
             /\ At(t, i)'.from \in {At(t, i + 0).from, None}
             /\ At(t, i)'.from # x
  <2>1. i \in 0 .. Len(queue[t]) /\ i + 0 = i /\ At(t, i)' # None
    BY <1>5 DEF Places
  <2>2. At(t, i)' = Abandoned(At(t, i), x) /\ At(t, i) \in {None} \cup Entry
    <3>1. CASE i = 0
      BY <1>1, <3>1 DEF At, Left
    <3>2. CASE i # 0
      BY <1>1, <1>3, <2>1, <3>2 DEF At
    <3> QED
      BY <3>1, <3>2
  <2>3. At(t, i) # None
    BY <2>1, <2>2, OnAbandoned
  <2> QED
    BY <2>1, <2>2, <2>3, OnAbandoned DEF Places
<1> QED
  BY <1>5, <1>6, <1>7 DEF Moved

LEMMA OnGiveUp ==
  ASSUME NEW x, GiveUp(x)
  PROVE  /\ \A t \in Server : Left(t, x)
         /\ answer' = [answer EXCEPT ![x] = Error]
         /\ queue' = [s \in Server |-> queue'[s]]
         /\ serving' = [s \in Server |-> serving'[s]]
  BY DEF GiveUp, Left

LEMMA OnReset ==
  ASSUME NEW s \in Server, Reset(s)
  PROVE  /\ \A t \in Server : t # s => Left(t, s)
         /\ queue'[s] = <<>> /\ serving'[s] = None
         /\ Places(s)' = {}
         /\ answer'[s] = Nothing
         /\ \A x \in Client : x # s => answer'[x] \in {answer[x], Error}
         /\ answer' = [x \in Client |-> answer'[x]]
         /\ queue' = [t \in Server |-> queue'[t]]
         /\ serving' = [t \in Server |-> serving'[t]]
<1> DEFINE lost == (ToSet(queue[s]) \cup {serving[s]}) \ {None}
<1>1. /\ answer' = [x \in Client |->
           IF x = s THEN Nothing
           ELSE IF x \in {q.from : q \in lost} THEN Error
           ELSE answer[x]]
      /\ queue' = [t \in Server |-> IF t = s THEN <<>> ELSE
           [i \in DOMAIN queue[t] |-> Abandoned(queue[t][i], s)]]
      /\ serving' = [t \in Server |-> IF t = s THEN None
                                      ELSE Abandoned(serving[t], s)]
  BY DEF Reset
<1> HIDE DEF lost
<1>2. queue'[s] = <<>> /\ serving'[s] = None /\ \A t \in Server : t # s => Left(t, s)
  BY <1>1 DEF Left
<1>3. Places(s)' = {}
  BY <1>2 DEF Places, At
<1>4. /\ answer'[s] = Nothing
      /\ \A x \in Client : x # s => answer'[x] \in {answer[x], Error}
  BY <1>1, Names
<1> QED
  BY <1>1, <1>2, <1>3, <1>4

-----------------------------------------------------------------------------
(* Types of the transport, operation by operation. *)

LEMMA ReplyTyped ==
  ASSUME Types, NEW s \in Server, NEW r \in Answers, Reply(s, r)
  PROVE  TransportTypes'
<1>1. answer' = Told(s, r) /\ serving' = [serving EXCEPT ![s] = None] /\ queue' = queue
  BY DEF Reply
<1>2. Told(s, r) \in [Client -> Answers]
  BY DEF Told, Types, TransportTypes, Answers
<1> QED
  BY <1>1, <1>2 DEF Types, TransportTypes

LEMMA ConnectTyped ==
  ASSUME Types, NEW x \in Client, NEW s \in Server, NEW o \in Asked, Connect(x, s, o)
  PROVE  TransportTypes'
<1>1. /\ queue' = [queue EXCEPT ![s] = Append(@, Request(x, o))]
      /\ answer' = [answer EXCEPT ![x] = Wait]
      /\ serving' = serving
      /\ Len(queue[s]) < Backlog
  BY DEF Connect
<1>2. Request(x, o) \in Entry
  BY DEF Request, Entry
<1>3. /\ queue[s] \in Seq(Entry) /\ Len(queue[s]) \in Nat /\ Backlog \in Nat
      /\ \A t \in Server : queue[t] \in Seq(Entry) /\ Len(queue[t]) <= Backlog
  BY LinesTyped, AccountStorageAssumption DEF Types, TransportTypes
<1>4. /\ Append(queue[s], Request(x, o)) \in Seq(Entry)
      /\ Len(Append(queue[s], Request(x, o))) = Len(queue[s]) + 1
  BY <1>2, <1>3
<1>5. queue' \in [Server -> Seq(Entry)]
  BY <1>1, <1>4 DEF Types, TransportTypes
<1>6. \A t \in Server : Len(queue'[t]) <= Backlog
  <2> SUFFICES ASSUME NEW t \in Server
               PROVE  Len(queue'[t]) <= Backlog
    OBVIOUS
  <2>1. queue'[t] = IF t = s THEN Append(queue[s], Request(x, o)) ELSE queue[t]
    BY <1>1 DEF Types, TransportTypes
  <2> QED
    BY <1>1, <1>3, <1>4, <2>1
<1>7. answer' \in [Client -> Answers]
  BY <1>1 DEF Types, TransportTypes, Answers
<1> QED
  BY <1>1, <1>5, <1>6, <1>7 DEF Types, TransportTypes

LEMMA NotConnectedTyped ==
  ASSUME Types, NEW x \in Client, NotConnected(x)
  PROVE  TransportTypes'
<1>1. answer' = [answer EXCEPT ![x] = Error] /\ queue' = queue /\ serving' = serving
  BY DEF NotConnected
<1>2. answer' \in [Client -> Answers]
  BY <1>1 DEF Types, TransportTypes, Answers
<1> QED
  BY <1>1, <1>2 DEF Types, TransportTypes

LEMMA TailTyped ==
  ASSUME Types, NEW s \in Server, queue[s] # <<>>,
         queue' = [queue EXCEPT ![s] = Tail(@)]
  PROVE  queue' \in [Server -> Seq(Entry)] /\ \A t \in Server : Len(queue'[t]) <= Backlog
<1>1. /\ queue[s] \in Seq(Entry) /\ Len(queue[s]) \in Nat /\ Backlog \in Nat
      /\ \A t \in Server : Len(queue[t]) <= Backlog
  BY LinesTyped, AccountStorageAssumption DEF Types, TransportTypes
<1>2. Tail(queue[s]) \in Seq(Entry) /\ Len(Tail(queue[s])) = Len(queue[s]) - 1
  BY <1>1
<1>3. queue' \in [Server -> Seq(Entry)]
  BY <1>2 DEF Types, TransportTypes
<1>4. \A t \in Server : queue'[t] = IF t = s THEN Tail(queue[s]) ELSE queue[t]
  BY DEF Types, TransportTypes
<1> QED
  BY <1>1, <1>2, <1>3, <1>4

LEMMA AcceptTyped ==
  ASSUME Types, NEW s \in Server, Accept(s)
  PROVE  TransportTypes'
<1>1. /\ queue[s] # <<>> /\ answer' = answer
      /\ serving' = [serving EXCEPT ![s] = Head(queue[s])]
      /\ queue' = [queue EXCEPT ![s] = Tail(@)]
  BY DEF Accept
<1>2. Head(queue[s]) \in Entry
  BY <1>1, LinesTyped
<1> QED
  BY <1>1, <1>2, TailTyped DEF Types, TransportTypes

LEMMA ShortTyped ==
  ASSUME Types, NEW s \in Server, Short(s)
  PROVE  TransportTypes'
<1>1. /\ queue[s] # <<>> /\ answer' = answer /\ serving' = serving
      /\ queue' = [queue EXCEPT ![s] = Tail(@)]
  BY DEF Short
<1> QED
  BY <1>1, TailTyped DEF Types, TransportTypes

LEMMA GiveUpTyped ==
  ASSUME Types, NEW x \in Client, GiveUp(x)
  PROVE  TransportTypes'
<1>1. \A t \in Server :
        /\ serving'[t] \in {None} \cup Entry
        /\ queue'[t] \in Seq(Entry) /\ Len(queue'[t]) <= Backlog
  BY OnGiveUp, OnLeft DEF Types, TransportTypes
<1>2. answer' \in [Client -> Answers]
  BY OnGiveUp DEF Types, TransportTypes, Answers
<1>3. /\ queue' = [s \in Server |-> queue'[s]]
      /\ serving' = [s \in Server |-> serving'[s]]
  BY OnGiveUp
<1>4. queue' \in [Server -> Seq(Entry)] /\ serving' \in [Server -> {None} \cup Entry]
  BY <1>1, <1>3
<1> QED
  BY <1>1, <1>2, <1>4 DEF TransportTypes

LEMMA ResetTyped ==
  ASSUME Types, NEW s \in Server, Reset(s)
  PROVE  TransportTypes'
<1>1. \A t \in Server :
        /\ serving'[t] \in {None} \cup Entry
        /\ queue'[t] \in Seq(Entry) /\ Len(queue'[t]) <= Backlog
  <2> SUFFICES ASSUME NEW t \in Server
               PROVE  /\ serving'[t] \in {None} \cup Entry
                      /\ queue'[t] \in Seq(Entry) /\ Len(queue'[t]) <= Backlog
    OBVIOUS
  <2>1. CASE t = s
    <3>1. queue'[t] = <<>> /\ serving'[t] = None
      BY <2>1, OnReset
    <3>2. Backlog \in Nat
      BY AccountStorageAssumption
    <3> QED
      BY <3>1, <3>2
  <2>2. CASE t # s
    <3>1. Left(t, s) /\ s \in Client
      BY <2>2, OnReset, Names
    <3>2. Len(queue[t]) <= Backlog
      BY DEF Types, TransportTypes
    <3> QED
      BY <3>1, <3>2, OnLeft
  <2> QED
    BY <2>1, <2>2
<1>2. \A x \in Client : answer'[x] \in Answers
  <2>1. answer'[s] = Nothing /\ \A x \in Client : x # s => answer'[x] \in {answer[x], Error}
    BY OnReset
  <2>2. answer \in [Client -> Answers] /\ Nothing \in Answers /\ Error \in Answers
    BY DEF Types, TransportTypes, Answers
  <2> QED
    BY <2>1, <2>2
<1>3. /\ queue' = [t \in Server |-> queue'[t]]
      /\ serving' = [t \in Server |-> serving'[t]]
      /\ answer' = [x \in Client |-> answer'[x]]
  BY OnReset
<1>4. /\ queue' \in [Server -> Seq(Entry)] /\ serving' \in [Server -> {None} \cup Entry]
      /\ answer' \in [Client -> Answers]
  BY <1>1, <1>2, <1>3
<1> QED
  BY <1>1, <1>4 DEF TransportTypes

-----------------------------------------------------------------------------
(* Requests that move keep what is said of them, as long as whoever waits  *)
(* for them goes on waiting.                                               *)

LEMMA QuietMoved ==
  ASSUME NEW d \in {0, 1}, Moved("sto", d), NEW u, Quiet(u)
  PROVE  Quiet(u)'
  BY DEF Moved, Quiet

LEMMA FromAccountMoved ==
  ASSUME NEW d \in {0, 1}, Moved("sto", d), FromAccount,
         \A i \in Places("sto")' : At("sto", i)'.from = "acc" =>
           called'["acc"] /\ answer'["acc"] = Wait /\ serving'["acc"].op = serving["acc"].op
  PROVE  FromAccount'
<1> SUFFICES ASSUME NEW i \in Places("sto")', At("sto", i)'.from = "acc"
             PROVE  /\ Expected(At("sto", i))'
                    /\ \A j \in Places("sto")' : j > i => At("sto", j)'.op.kind \notin OpenOrDrop
  BY DEF FromAccount, OpenOrDrop
<1>1. /\ i + d \in Places("sto") /\ At("sto", i + d).from = "acc"
      /\ At("sto", i)'.op = At("sto", i + d).op
  BY Names DEF Moved
<1>2. /\ Expected(At("sto", i + d))
      /\ \A j \in Places("sto") : j > i + d => At("sto", j).op.kind \notin OpenOrDrop
  BY <1>1 DEF FromAccount
<1>3. Expected(At("sto", i))'
  BY <1>1, <1>2 DEF Expected, Waiting, Of
<1>4. ASSUME NEW j \in Places("sto")', j > i
      PROVE  At("sto", j)'.op.kind \notin OpenOrDrop
  <2>1. j + d \in Places("sto") /\ At("sto", j)'.op = At("sto", j + d).op
    BY DEF Moved
  <2>2. i \in Int /\ j \in Int
    BY DEF Places
  <2>3. j + d > i + d
    BY <1>4, <2>2
  <2> QED
    BY <1>2, <2>1, <2>3
<1> QED
  BY <1>3, <1>4

LEMMA FromStorageMoved ==
  ASSUME NEW d \in {0, 1}, Moved("acc", d), FromStorage,
         \A i \in Places("acc")' : At("acc", i)'.from = "sto" =>
           called'["sto"] /\ answer'["sto"] = Wait /\ serving'["sto"].op = serving["sto"].op
  PROVE  FromStorage'
<1> SUFFICES ASSUME NEW i \in Places("acc")', At("acc", i)'.from = "sto"
             PROVE  /\ AskedFor(At("acc", i))'
                    /\ \A j \in Places("acc")' : At("acc", j)'.from = "sto" => i = j
  BY DEF FromStorage
<1>1. /\ i + d \in Places("acc") /\ At("acc", i + d).from = "sto"
      /\ At("acc", i)'.op = At("acc", i + d).op
  BY Names DEF Moved
<1>2. /\ AskedFor(At("acc", i + d))
      /\ \A j \in Places("acc") : At("acc", j).from = "sto" => i + d = j
  BY <1>1 DEF FromStorage
<1>3. AskedFor(At("acc", i))'
  BY <1>1, <1>2 DEF AskedFor, Waiting, Of
<1>4. ASSUME NEW j \in Places("acc")', At("acc", j)'.from = "sto"
      PROVE  i = j
  <2>1. j + d \in Places("acc") /\ At("acc", j + d).from = "sto"
    BY <1>4, Names DEF Moved
  <2>2. i \in Int /\ j \in Int
    BY DEF Places
  <2> QED
    BY <1>2, <2>1, <2>2
<1> QED
  BY <1>3, <1>4

(* Who does not wait has no request anywhere. *)
LEMMA NoneFromAccount ==
  ASSUME FromAccount, ~(called["acc"] /\ answer["acc"] = Wait)
  PROVE  \A i \in Places("sto") : At("sto", i).from # "acc"
  BY DEF FromAccount, Expected, Waiting

LEMMA NoneFromStorage ==
  ASSUME FromStorage, ~(called["sto"] /\ answer["sto"] = Wait)
  PROVE  \A i \in Places("acc") : At("acc", i).from # "sto"
  BY DEF FromStorage, AskedFor, Waiting

LEMMA Unmoved ==
  ASSUME queue' = queue, serving' = serving, NEW t \in Server
  PROVE  Moved(t, 0)
<1>1. \A i \in Places(t)' : i \in Places(t) /\ At(t, i)' = At(t, i) /\ i + 0 = i
  BY DEF Places, At
<1> QED
  BY <1>1 DEF Moved

-----------------------------------------------------------------------------
(* Whatever the accounts and mailboxes, the calls stay in order. *)
Lines == TransportTypes /\ called \in [Server -> BOOLEAN] /\ Calling /\ FromAccount /\ FromStorage

LEMMA AccountEnds ==
  ASSUME Types, Lines, NEW r \in Answers, End("acc", r),
         serving["acc"] # None, called["acc"] => answer["acc"] # Wait
  PROVE  /\ Lines'
         /\ \A u \in Uid : Quiet(u) => Quiet(u)'
         /\ ~called'["acc"] /\ called'["sto"] = called["sto"]
         /\ serving'["sto"] = serving["sto"]
         /\ answer'["sto"] = IF serving["acc"].from = "sto" THEN r ELSE answer["sto"]
<1>1. Reply("acc", r) /\ called' = [called EXCEPT !["acc"] = FALSE]
  BY DEF End
<1>2. /\ Moved("acc", 0) /\ Moved("sto", 0)
      /\ \A i \in Places("acc")' : At("acc", i)' = At("acc", i)
      /\ \A i \in Places("sto")' : At("sto", i)' = At("sto", i)
      /\ 0 \notin Places("acc")'
      /\ serving'["sto"] = serving["sto"]
      /\ answer'["sto"] = IF serving["acc"].from = "sto" THEN r ELSE answer["sto"]
  BY <1>1, OnReply, Names
<1>3. /\ called' \in [Server -> BOOLEAN]
      /\ ~called'["acc"] /\ called'["sto"] = called["sto"]
  BY <1>1, Names DEF Types
<1>4. TransportTypes'
  BY <1>1, ReplyTyped, Names
<1>5. Calling'
  BY <1>2, <1>3 DEF Lines, Calling, Of
<1>6. FromAccount'
  <2>1. ASSUME NEW i \in Places("sto")'
        PROVE  At("sto", i)'.from # "acc"
    <3>1. i + 0 \in Places("sto") /\ i + 0 = i
      BY <1>2 DEF Moved, Places
    <3> QED
      BY <3>1, <1>2, NoneFromAccount DEF Lines
  <2> QED
    BY <2>1, <1>2, FromAccountMoved DEF Lines
<1>7. FromStorage'
  <2>1. ASSUME NEW i \in Places("acc")', At("acc", i)'.from = "sto"
        PROVE  called'["sto"] /\ answer'["sto"] = Wait /\ serving'["sto"].op = serving["sto"].op
    <3>1. i + 0 \in Places("acc") /\ i + 0 = i /\ i # 0 /\ At("acc", i).from = "sto"
      BY <1>2, <2>1 DEF Moved, Places
    <3>2. /\ AskedFor(At("acc", i))
          /\ \A j \in Places("acc") : At("acc", j).from = "sto" => i = j
      BY <3>1 DEF Lines, FromStorage
    <3>3. 0 \in Places("acc") /\ At("acc", 0) = serving["acc"]
      BY LinesTyped, Names DEF Places, At
    <3>4. serving["acc"].from # "sto"
      BY <3>1, <3>2, <3>3
    <3> QED
      BY <1>2, <1>3, <3>2, <3>4 DEF AskedFor, Waiting
  <2> QED
    BY <2>1, <1>2, FromStorageMoved DEF Lines
<1>8. \A u \in Uid : Quiet(u) => Quiet(u)'
  BY <1>2, QuietMoved
<1> QED
  BY <1>2, <1>3, <1>4, <1>5, <1>6, <1>7, <1>8 DEF Lines

LEMMA StorageEnds ==
  ASSUME Types, Lines, NEW r \in Answers, End("sto", r), acct' = acct,
         serving["sto"] # None, called["sto"] => answer["sto"] # Wait
  PROVE  /\ Lines'
         /\ \A u \in Uid : Quiet(u) => Quiet(u)'
         /\ ~called'["sto"] /\ called'["acc"] = called["acc"]
         /\ serving'["acc"] = serving["acc"]
         /\ answer'["acc"] = IF serving["sto"].from = "acc" THEN r ELSE answer["acc"]
         /\ serving["sto"].from = "acc" =>
              Expected(serving["sto"]) /\ \A u \in Uid : Quiet(u)'
<1>1. Reply("sto", r) /\ called' = [called EXCEPT !["sto"] = FALSE]
  BY DEF End
<1>2. /\ Moved("acc", 0) /\ Moved("sto", 0)
      /\ \A i \in Places("acc")' : At("acc", i)' = At("acc", i)
      /\ \A i \in Places("sto")' : At("sto", i)' = At("sto", i)
      /\ 0 \notin Places("sto")'
      /\ serving'["acc"] = serving["acc"]
      /\ answer'["acc"] = IF serving["sto"].from = "acc" THEN r ELSE answer["acc"]
  BY <1>1, OnReply, Names
<1>3. /\ called' \in [Server -> BOOLEAN]
      /\ ~called'["sto"] /\ called'["acc"] = called["acc"]
  BY <1>1, Names DEF Types
<1>4. TransportTypes'
  BY <1>1, ReplyTyped, Names
<1>5. Calling'
  BY <1>2, <1>3 DEF Lines, Calling, Of
<1>6. 0 \in Places("sto") /\ At("sto", 0) = serving["sto"]
  BY LinesTyped, Names DEF Places, At
<1>7. ASSUME NEW i \in Places("sto")'
      PROVE  i \in Places("sto") /\ i > 0 /\ i + 0 = i
  <2>1. i + 0 \in Places("sto") /\ i \in 0 .. Len(queue'["sto"])
    BY <1>2 DEF Moved, Places
  <2> QED
    BY <1>2, <2>1
<1>8. serving["sto"].from = "acc" =>
        /\ Expected(serving["sto"])
        /\ \A j \in Places("sto")' : At("sto", j)'.op.kind \notin OpenOrDrop
  BY <1>2, <1>6, <1>7 DEF Lines, FromAccount
<1>9. FromAccount'
  <2>1. ASSUME NEW i \in Places("sto")', At("sto", i)'.from = "acc"
        PROVE  called'["acc"] /\ answer'["acc"] = Wait /\ serving'["acc"].op = serving["acc"].op
    <3>1. Expected(At("sto", i))
      BY <1>2, <1>7, <2>1 DEF Lines, FromAccount
    <3>2. At("sto", i).op.kind \in OpenOrDrop
      BY <3>1 DEF Expected, OpenOrDrop
    <3>3. serving["sto"].from # "acc"
      BY <1>2, <1>8, <3>2
    <3> QED
      BY <1>2, <1>3, <3>1, <3>3 DEF Expected, Waiting
  <2> QED
    BY <2>1, <1>2, FromAccountMoved DEF Lines
<1>10. FromStorage'
  <2>1. ASSUME NEW i \in Places("acc")'
        PROVE  At("acc", i)'.from # "sto"
    <3>1. i + 0 \in Places("acc") /\ i + 0 = i
      BY <1>2 DEF Moved, Places
    <3> QED
      BY <3>1, <1>2, NoneFromStorage DEF Lines
  <2> QED
    BY <2>1, <1>2, FromStorageMoved DEF Lines
<1>11. \A u \in Uid : Quiet(u) => Quiet(u)'
  BY <1>2, QuietMoved
<1> QED
  BY <1>2, <1>3, <1>4, <1>5, <1>8, <1>9, <1>10, <1>11 DEF Lines, Quiet

LEMMA AccountCalls ==
  ASSUME Types, Lines, NEW o \in Asked, Call("acc", "sto", o),
         serving["acc"] # None, ~called["acc"],
         o.uid = Of("acc").uid,
         \/ Of("acc").kind = "create" /\ o.kind = "open" /\ acct'[o.uid] # None
         \/ Of("acc").kind = "delete" /\ o.kind = "drop" /\ acct'[o.uid] = None
  PROVE  /\ Lines'
         /\ \A u \in Uid : u # o.uid /\ Quiet(u) => Quiet(u)'
         /\ answer'["acc"] # Done
         /\ serving' = serving /\ answer'["sto"] = answer["sto"]
         /\ called'["sto"] = called["sto"]
<1>1. /\ called' = [called EXCEPT !["acc"] = TRUE]
      /\ Connect("acc", "sto", o) \/ NotConnected("acc")
  BY DEF Call
<1>2. /\ called' \in [Server -> BOOLEAN]
      /\ called'["acc"] /\ called'["sto"] = called["sto"]
  BY <1>1, Names DEF Types
<1>3. TransportTypes' /\ serving' = serving
  <2>1. CASE Connect("acc", "sto", o)
    BY <2>1, ConnectTyped, Names DEF Connect
  <2>2. CASE NotConnected("acc")
    BY <2>2, NotConnectedTyped, Names DEF NotConnected
  <2> QED
    BY <1>1, <2>1, <2>2
<1>4. Calling'
  BY <1>2, <1>3 DEF Lines, Calling, Of
<1>5. Moved("acc", 0)
  <2>1. CASE Connect("acc", "sto", o)
    BY <2>1, OnConnect, Names
  <2>2. CASE NotConnected("acc")
    BY <2>2, Unmoved, Names DEF NotConnected
  <2> QED
    BY <1>1, <2>1, <2>2
<1>6. /\ answer'["acc"] # Done /\ answer'["sto"] = answer["sto"]
      /\ Connect("acc", "sto", o) => answer'["acc"] = Wait
  <2>1. answer' = [answer EXCEPT !["acc"] = Wait] \/ answer' = [answer EXCEPT !["acc"] = Error]
    BY <1>1 DEF Connect, NotConnected
  <2>2. Wait # Done /\ Error # Done
    BY DEF Wait, Error, Done, Answer
  <2>3. answer'["acc"] \in {Wait, Error} /\ answer'["sto"] = answer["sto"]
    BY <2>1, Names DEF Types, TransportTypes
  <2>4. Connect("acc", "sto", o) => answer'["acc"] = Wait
    BY Names DEF Connect, Types, TransportTypes
  <2> QED
    BY <2>2, <2>3, <2>4
<1>7. FromStorage'
  <2>1. ASSUME NEW i \in Places("acc")', At("acc", i)'.from = "sto"
        PROVE  called'["sto"] /\ answer'["sto"] = Wait /\ serving'["sto"].op = serving["sto"].op
    <3>1. i + 0 \in Places("acc") /\ At("acc", i + 0).from = "sto"
      BY <1>5, <2>1, Names DEF Moved
    <3> QED
      BY <1>2, <1>3, <1>6, <3>1 DEF Lines, FromStorage, AskedFor, Waiting
  <2> QED
    BY <2>1, <1>5, FromStorageMoved DEF Lines
<1>8. FromAccount' /\ \A u \in Uid : u # o.uid /\ Quiet(u) => Quiet(u)'
  <2>1. CASE NotConnected("acc")
    <3>1. Moved("sto", 0)
      BY <2>1, Unmoved, Names DEF NotConnected
    <3>2. ASSUME NEW i \in Places("sto")'
          PROVE  At("sto", i)'.from # "acc"
      <4>1. i + 0 \in Places("sto") /\ At("sto", i)'.from \in {At("sto", i + 0).from, None}
        BY <3>1 DEF Moved
      <4> QED
        BY <4>1, NoneFromAccount, Names DEF Lines
    <3>3. FromAccount'
      BY <3>1, <3>2, FromAccountMoved DEF Lines
    <3> QED
      BY <3>1, <3>3, QuietMoved
  <2>2. CASE Connect("acc", "sto", o)
    <3> DEFINE n == Len(queue["sto"]) + 1
    <3>1. /\ \A i \in Places("sto")' :
               \/ i = n /\ At("sto", i)' = Request("acc", o)
               \/ i \in Places("sto") /\ At("sto", i)' = At("sto", i)
          /\ n \in Nat
      BY <2>2, OnConnect, LinesTyped, Names
    <3>2. \A i \in Places("sto")' : i \in Nat /\ i <= n
      <4>1. Len(queue'["sto"]) = n
        BY <2>2, LinesTyped, Names DEF Connect, Types, TransportTypes
      <4> QED
        BY <4>1, <3>1 DEF Places
    <3> HIDE DEF n
    <3>3. Request("acc", o).from = "acc" /\ Request("acc", o).op = o
      BY DEF Request
    <3>4. ASSUME NEW i \in Places("sto")', At("sto", i)'.from = "acc"
          PROVE  /\ Expected(At("sto", i))'
                 /\ \A j \in Places("sto")' : j > i => At("sto", j)'.op.kind \notin OpenOrDrop
      <4>1. i = n /\ At("sto", i)'.op = o
        BY <3>1, <3>3, <3>4, NoneFromAccount DEF Lines
      <4>2. Expected(At("sto", i))'
        BY <1>2, <1>3, <1>6, <2>2, <4>1 DEF Expected, Waiting, Of
      <4> QED
        BY <3>1, <3>2, <4>1, <4>2
    <3>5. FromAccount'
      BY <3>4 DEF FromAccount, OpenOrDrop
    <3>6. \A u \in Uid : u # o.uid /\ Quiet(u) => Quiet(u)'
      BY <3>1, <3>3 DEF Quiet, OpenOrDrop
    <3> QED
      BY <3>5, <3>6
  <2> QED
    BY <1>1, <2>1, <2>2
<1> QED
  BY <1>2, <1>3, <1>4, <1>6, <1>7, <1>8 DEF Lines

LEMMA StorageCalls ==
  ASSUME Types, Lines, NEW u0 \in Uid, Call("sto", "acc", For("keys", u0)), acct' = acct,
         serving["sto"] # None, ~called["sto"],
         u0 = Of("sto").uid, Of("sto").kind \in {"write", "empty"}
  PROVE  /\ Lines'
         /\ \A u \in Uid : Quiet(u) => Quiet(u)'
         /\ answer'["sto"].is # "keys"
         /\ serving' = serving /\ answer'["acc"] = answer["acc"]
         /\ called'["acc"] = called["acc"]
<1> DEFINE o == For("keys", u0)
<1>o. o \in Asked /\ o.kind = "keys" /\ o.uid = u0
  BY DEF For, Asked, Op, Kind
<1> HIDE DEF o
<1>1. /\ called' = [called EXCEPT !["sto"] = TRUE]
      /\ Connect("sto", "acc", o) \/ NotConnected("sto")
  BY DEF Call, o
<1>2. /\ called' \in [Server -> BOOLEAN]
      /\ called'["sto"] /\ called'["acc"] = called["acc"]
  BY <1>1, Names DEF Types
<1>3. TransportTypes' /\ serving' = serving
  <2>1. CASE Connect("sto", "acc", o)
    BY <2>1, <1>o, ConnectTyped, Names DEF Connect
  <2>2. CASE NotConnected("sto")
    BY <2>2, NotConnectedTyped, Names DEF NotConnected
  <2> QED
    BY <1>1, <2>1, <2>2
<1>4. Calling'
  BY <1>2, <1>3 DEF Lines, Calling, Of
<1>5. Moved("sto", 0)
  <2>1. CASE Connect("sto", "acc", o)
    BY <2>1, OnConnect, Names
  <2>2. CASE NotConnected("sto")
    BY <2>2, Unmoved, Names DEF NotConnected
  <2> QED
    BY <1>1, <2>1, <2>2
<1>6. /\ answer'["sto"].is # "keys" /\ answer'["acc"] = answer["acc"]
      /\ Connect("sto", "acc", o) => answer'["sto"] = Wait
  <2>1. answer' = [answer EXCEPT !["sto"] = Wait] \/ answer' = [answer EXCEPT !["sto"] = Error]
    BY <1>1 DEF Connect, NotConnected
  <2>2. Wait.is # "keys" /\ Error.is # "keys"
    BY DEF Wait, Error, Answer
  <2>3. answer'["sto"] \in {Wait, Error} /\ answer'["acc"] = answer["acc"]
    BY <2>1, Names DEF Types, TransportTypes
  <2>4. Connect("sto", "acc", o) => answer'["sto"] = Wait
    BY Names DEF Connect, Types, TransportTypes
  <2> QED
    BY <2>2, <2>3, <2>4
<1>7. FromAccount'
  <2>1. ASSUME NEW i \in Places("sto")', At("sto", i)'.from = "acc"
        PROVE  called'["acc"] /\ answer'["acc"] = Wait /\ serving'["acc"].op = serving["acc"].op
    <3>1. i + 0 \in Places("sto") /\ At("sto", i + 0).from = "acc"
      BY <1>5, <2>1, Names DEF Moved
    <3> QED
      BY <1>2, <1>3, <1>6, <3>1 DEF Lines, FromAccount, Expected, Waiting
  <2> QED
    BY <2>1, <1>5, FromAccountMoved DEF Lines
<1>8. FromStorage'
  <2>1. CASE NotConnected("sto")
    <3>1. Moved("acc", 0)
      BY <2>1, Unmoved, Names DEF NotConnected
    <3>2. ASSUME NEW i \in Places("acc")'
          PROVE  At("acc", i)'.from # "sto"
      <4>1. i + 0 \in Places("acc") /\ At("acc", i)'.from \in {At("acc", i + 0).from, None}
        BY <3>1 DEF Moved
      <4> QED
        BY <4>1, NoneFromStorage, Names DEF Lines
    <3> QED
      BY <3>1, <3>2, FromStorageMoved DEF Lines
  <2>2. CASE Connect("sto", "acc", o)
    <3> DEFINE n == Len(queue["acc"]) + 1
    <3>1. \A i \in Places("acc")' :
            \/ i = n /\ At("acc", i)' = Request("sto", o)
            \/ i \in Places("acc") /\ At("acc", i)' = At("acc", i)
      BY <2>2, OnConnect, Names
    <3> HIDE DEF n
    <3>2. Request("sto", o).from = "sto" /\ Request("sto", o).op = o
      BY DEF Request
    <3>3. ASSUME NEW i \in Places("acc")', At("acc", i)'.from = "sto"
          PROVE  i = n /\ AskedFor(At("acc", i))'
      <4>1. i = n /\ At("acc", i)'.op = o
        BY <3>1, <3>2, <3>3, NoneFromStorage DEF Lines
      <4>2. AskedFor(At("acc", i))'
        BY <1>o, <1>2, <1>3, <1>6, <2>2, <4>1 DEF AskedFor, Waiting, Of
      <4> QED
        BY <4>1, <4>2
    <3> QED
      BY <3>3 DEF FromStorage
  <2> QED
    BY <1>1, <2>1, <2>2
<1>9. \A u \in Uid : Quiet(u) => Quiet(u)'
  BY <1>5, QuietMoved
<1> QED
  BY <1>2, <1>3, <1>4, <1>6, <1>7, <1>8, <1>9 DEF Lines

LEMMA CallerConnects ==
  ASSUME Types, Lines, NEW c \in Caller, NEW s \in Server, NEW o \in Asked,
         s = "sto" => o.kind \in Uses, Connect(c, s, o),
         called' = called, acct' = acct
  PROVE  /\ Lines'
         /\ \A u \in Uid : Quiet(u) => Quiet(u)'
         /\ serving' = serving
         /\ answer'["acc"] = answer["acc"] /\ answer'["sto"] = answer["sto"]
<1>1. c \in Client /\ c # "acc" /\ c # "sto"
  BY Names DEF Client
<1>2. TransportTypes' /\ serving' = serving
  BY <1>1, ConnectTyped DEF Connect
<1>3. answer'["acc"] = answer["acc"] /\ answer'["sto"] = answer["sto"]
  BY <1>1, OnConnect, Names DEF Types, TransportTypes
<1>4. Calling'
  BY <1>2 DEF Lines, Calling, Of
<1>5. \A t \in Server : t # s => Moved(t, 0)
  BY <1>1, OnConnect
<1> DEFINE n == Len(queue[s]) + 1
<1>6. /\ \A i \in Places(s)' :
           \/ i = n /\ At(s, i)' = Request(c, o)
           \/ i \in Places(s) /\ At(s, i)' = At(s, i)
      /\ \A i \in Places(s) : i < n
  BY <1>1, OnConnect
<1> HIDE DEF n
<1>7. Request(c, o).from = c /\ Request(c, o).op = o
  BY DEF Request
<1>8. FromAccount' /\ \A u \in Uid : Quiet(u) => Quiet(u)'
  <2>1. CASE s = "acc"
    <3>1. Moved("sto", 0)
      BY <1>5, <2>1, Names
    <3>2. ASSUME NEW i \in Places("sto")', At("sto", i)'.from = "acc"
          PROVE  called'["acc"] /\ answer'["acc"] = Wait /\ serving'["acc"].op = serving["acc"].op
      <4>1. i + 0 \in Places("sto") /\ At("sto", i + 0).from = "acc"
        BY <3>1, <3>2, Names DEF Moved
      <4> QED
        BY <1>2, <1>3, <4>1 DEF Lines, FromAccount, Expected, Waiting
    <3>3. FromAccount'
      BY <3>1, <3>2, FromAccountMoved DEF Lines
    <3> QED
      BY <3>1, <3>3, QuietMoved
  <2>2. CASE s = "sto"
    <3>1. o.kind \notin OpenOrDrop
      BY <2>2 DEF Uses, OpenOrDrop
    <3>2. ASSUME NEW i \in Places("sto")', At("sto", i)'.from = "acc"
          PROVE  /\ Expected(At("sto", i))'
                 /\ \A j \in Places("sto")' : j > i => At("sto", j)'.op.kind \notin OpenOrDrop
      <4>1. i \in Places("sto") /\ At("sto", i)' = At("sto", i)
        BY <1>1, <1>6, <1>7, <2>2, <3>2
      <4>2. /\ Expected(At("sto", i))
            /\ \A j \in Places("sto") : j > i => At("sto", j).op.kind \notin OpenOrDrop
        BY <3>2, <4>1 DEF Lines, FromAccount
      <4>3. Expected(At("sto", i))'
        BY <1>2, <1>3, <4>1, <4>2 DEF Expected, Waiting, Of
      <4> QED
        BY <1>6, <1>7, <2>2, <3>1, <4>2, <4>3
    <3>3. FromAccount'
      BY <3>2 DEF FromAccount, OpenOrDrop
    <3>4. \A u \in Uid : Quiet(u) => Quiet(u)'
      BY <1>6, <1>7, <2>2, <3>1 DEF Quiet, OpenOrDrop
    <3> QED
      BY <3>3, <3>4
  <2> QED
    BY <2>1, <2>2, Names
<1>9. FromStorage'
  <2>1. CASE s = "sto"
    <3>1. Moved("acc", 0)
      BY <1>5, <2>1, Names
    <3>2. ASSUME NEW i \in Places("acc")', At("acc", i)'.from = "sto"
          PROVE  called'["sto"] /\ answer'["sto"] = Wait /\ serving'["sto"].op = serving["sto"].op
      <4>1. i + 0 \in Places("acc") /\ At("acc", i + 0).from = "sto"
        BY <3>1, <3>2, Names DEF Moved
      <4> QED
        BY <1>2, <1>3, <4>1 DEF Lines, FromStorage, AskedFor, Waiting
    <3> QED
      BY <3>1, <3>2, FromStorageMoved DEF Lines
  <2>2. CASE s = "acc"
    <3>1. ASSUME NEW i \in Places("acc")', At("acc", i)'.from = "sto"
          PROVE  /\ AskedFor(At("acc", i))'
                 /\ \A j \in Places("acc")' : At("acc", j)'.from = "sto" => i = j
      <4>1. i \in Places("acc") /\ At("acc", i)' = At("acc", i)
        BY <1>1, <1>6, <1>7, <2>2, <3>1
      <4>2. /\ AskedFor(At("acc", i))
            /\ \A j \in Places("acc") : At("acc", j).from = "sto" => i = j
        BY <3>1, <4>1 DEF Lines, FromStorage
      <4>3. AskedFor(At("acc", i))'
        BY <1>2, <1>3, <4>1, <4>2 DEF AskedFor, Waiting, Of
      <4> QED
        BY <1>1, <1>6, <1>7, <2>2, <4>2, <4>3
    <3> QED
      BY <3>1 DEF FromStorage
  <2> QED
    BY <2>1, <2>2, Names
<1> QED
  BY <1>2, <1>3, <1>4, <1>8, <1>9 DEF Lines

(* A step that moves requests on, and leaves alone who waits for them.     *)
LEMMA LinesMove ==
  ASSUME Types, Lines, TransportTypes', called' = called, acct' = acct,
         answer'["acc"] = answer["acc"], answer'["sto"] = answer["sto"],
         NEW da \in {0, 1}, NEW ds \in {0, 1}, Moved("acc", da), Moved("sto", ds),
         \A s \in Server : serving[s] # None => serving'[s] = serving[s]
  PROVE  /\ Lines'
         /\ \A u \in Uid : Quiet(u) => Quiet(u)'
<1>1. \A s \in Server : called[s] => serving[s] # None /\ serving'[s] = serving[s]
  BY Names DEF Lines, Calling
<1>2. Calling'
  BY <1>1, Names DEF Lines, Calling, Of
<1>3. ASSUME NEW i \in Places("sto")', At("sto", i)'.from = "acc"
      PROVE  called'["acc"] /\ answer'["acc"] = Wait /\ serving'["acc"].op = serving["acc"].op
  <2>1. i + ds \in Places("sto") /\ At("sto", i + ds).from = "acc"
    BY <1>3, Names DEF Moved
  <2> QED
    BY <1>1, <2>1, Names DEF Lines, FromAccount, Expected, Waiting
<1>4. ASSUME NEW i \in Places("acc")', At("acc", i)'.from = "sto"
      PROVE  called'["sto"] /\ answer'["sto"] = Wait /\ serving'["sto"].op = serving["sto"].op
  <2>1. i + da \in Places("acc") /\ At("acc", i + da).from = "sto"
    BY <1>4, Names DEF Moved
  <2> QED
    BY <1>1, <2>1, Names DEF Lines, FromStorage, AskedFor, Waiting
<1>5. FromAccount'
  BY <1>3, FromAccountMoved DEF Lines
<1>6. FromStorage'
  BY <1>4, FromStorageMoved DEF Lines
<1>7. \A u \in Uid : Quiet(u) => Quiet(u)'
  BY QuietMoved
<1> QED
  BY <1>2, <1>5, <1>6, <1>7 DEF Lines

LEMMA GivesUp ==
  ASSUME Types, Lines, NEW x \in Client, GiveUp(x), called' = called, acct' = acct
  PROVE  /\ Lines'
         /\ \A u \in Uid : Quiet(u) => Quiet(u)'
         /\ \A s \in Server : answer'[s] \in {answer[s], Error}
         /\ \A s \in Server : serving[s] # None => serving'[s].op = serving[s].op
<1>1. TransportTypes'
  BY GiveUpTyped
<1>2. \A t \in Server :
        /\ Moved(t, 0)
        /\ \A i \in Places(t)' : At(t, i)'.from # x
        /\ serving'[t] = None <=> serving[t] = None
        /\ serving[t] # None => serving'[t].op = serving[t].op
  BY OnGiveUp, OnLeft
<1>3. \A s \in Client : answer'[s] = IF s = x THEN Error ELSE answer[s]
  BY OnGiveUp DEF Types, TransportTypes
<1>4. \A s \in Server : called[s] => serving[s] # None
  BY Names DEF Lines, Calling
<1>5. Calling'
  BY <1>2, <1>4, Names DEF Lines, Calling, Of
<1>6. FromAccount'
  <2>1. ASSUME NEW i \in Places("sto")', At("sto", i)'.from = "acc"
        PROVE  called'["acc"] /\ answer'["acc"] = Wait /\ serving'["acc"].op = serving["acc"].op
    <3>1. i + 0 \in Places("sto") /\ At("sto", i + 0).from = "acc"
      BY <1>2, <2>1, Names DEF Moved
    <3>2. called["acc"] /\ answer["acc"] = Wait
      BY <3>1 DEF Lines, FromAccount, Expected, Waiting
    <3>3. x # "acc"
      BY <1>2, <2>1, Names
    <3> QED
      BY <1>2, <1>3, <1>4, <3>2, <3>3, Names
  <2>2. Moved("sto", 0)
    BY <1>2, Names
  <2> QED
    BY <2>1, <2>2, FromAccountMoved DEF Lines
<1>7. FromStorage'
  <2>1. ASSUME NEW i \in Places("acc")', At("acc", i)'.from = "sto"
        PROVE  called'["sto"] /\ answer'["sto"] = Wait /\ serving'["sto"].op = serving["sto"].op
    <3>1. i + 0 \in Places("acc") /\ At("acc", i + 0).from = "sto"
      BY <1>2, <2>1, Names DEF Moved
    <3>2. called["sto"] /\ answer["sto"] = Wait
      BY <3>1 DEF Lines, FromStorage, AskedFor, Waiting
    <3>3. x # "sto"
      BY <1>2, <2>1, Names
    <3> QED
      BY <1>2, <1>3, <1>4, <3>2, <3>3, Names
  <2>2. Moved("acc", 0)
    BY <1>2, Names
  <2> QED
    BY <2>1, <2>2, FromStorageMoved DEF Lines
<1>8. \A u \in Uid : Quiet(u) => Quiet(u)'
  BY <1>2, QuietMoved, Names
<1>9. called' \in [Server -> BOOLEAN]
  BY DEF Lines
<1> QED
  BY <1>1, <1>2, <1>3, <1>5, <1>6, <1>7, <1>8, <1>9, Names DEF Lines

LEMMA Restarts ==
  ASSUME Types, Lines, NEW s \in Server, Reset(s),
         called' = [called EXCEPT ![s] = FALSE], acct' = acct
  PROVE  /\ Lines'
         /\ \A u \in Uid : Quiet(u) => Quiet(u)'
         /\ ~called'[s]
         /\ \A t \in Server : t # s =>
              /\ called'[t] = called[t] /\ answer'[t] \in {answer[t], Error}
              /\ serving[t] # None => serving'[t].op = serving[t].op
<1>1. TransportTypes' /\ Places(s)' = {}
  BY ResetTyped, OnReset
<1>2. \A t \in Server : t # s =>
        /\ Moved(t, 0)
        /\ \A i \in Places(t)' : At(t, i)'.from # s
        /\ serving'[t] = None <=> serving[t] = None
        /\ serving[t] # None => serving'[t].op = serving[t].op
        /\ called'[t] = called[t] /\ answer'[t] \in {answer[t], Error}
  <2> SUFFICES ASSUME NEW t \in Server, t # s
               PROVE  /\ Moved(t, 0)
                      /\ \A i \in Places(t)' : At(t, i)'.from # s
                      /\ serving'[t] = None <=> serving[t] = None
                      /\ serving[t] # None => serving'[t].op = serving[t].op
                      /\ called'[t] = called[t] /\ answer'[t] \in {answer[t], Error}
    OBVIOUS
  <2>1. Left(t, s) /\ s \in Client /\ t \in Client
    BY OnReset, Names
  <2>2. called'[t] = called[t]
    BY DEF Lines
  <2>3. answer'[t] \in {answer[t], Error}
    BY <2>1, OnReset
  <2> QED
    BY <2>1, <2>2, <2>3, OnLeft
<1>3. called' \in [Server -> BOOLEAN] /\ ~called'[s]
  BY DEF Lines
<1>4. \A t \in Server : called'[t] => t # s /\ called[t] /\ serving[t] # None
  BY <1>2, <1>3, Names DEF Lines, Calling
<1>5. Calling'
  BY <1>2, <1>4, Names DEF Lines, Calling, Of
<1>6. Moved("sto", 0) /\ Moved("acc", 0)
  BY <1>1, <1>2, Names DEF Moved
<1>7. ASSUME NEW i \in Places("sto")'
      PROVE  At("sto", i)'.from # "acc"
  <2>1. s = "acc"
    BY <1>1, Names
  <2> QED
    BY <1>2, <2>1, Names
<1>8. ASSUME NEW i \in Places("acc")'
      PROVE  At("acc", i)'.from # "sto"
  <2>1. s = "sto"
    BY <1>1, Names
  <2> QED
    BY <1>2, <2>1, Names
<1>9. FromAccount' /\ FromStorage'
  BY <1>6, <1>7, <1>8, FromAccountMoved, FromStorageMoved DEF Lines
<1>10. \A u \in Uid : Quiet(u) => Quiet(u)'
  BY <1>6, QuietMoved
<1> QED
  BY <1>1, <1>2, <1>3, <1>5, <1>9, <1>10 DEF Lines

-----------------------------------------------------------------------------
(* The accounts and the mailboxes. *)
Boxes ==
  /\ acct \in [Uid -> Person \cup {None}]
  /\ box = [u \in Uid |-> box[u]]
  /\ \A u \in Uid : box[u] = None \/ box[u] \in SUBSET Sealed
  /\ settled \in [Uid -> BOOLEAN]

(* What leaves accounts and mailboxes alone, and confirms nothing. *)
LEMMA NothingConfirmed ==
  ASSUME Inv, Lines', UNCHANGED <<acct, box, settled>>,
         \A u \in Uid : Quiet(u) => Quiet(u)',
         called'["acc"] /\ answer'["acc"] = Done =>
           called["acc"] /\ answer["acc"] = Done /\ Of("acc")' = Of("acc"),
         called'["sto"] /\ answer'["sto"].is = "keys" =>
           called["sto"] /\ answer'["sto"] = answer["sto"] /\ Of("sto")' = Of("sto")
  PROVE  Inv'
<1>1. Boxes'
  BY DEF Boxes, Inv, Types
<1>2. ASSUME NEW u \in Uid, Sure(u)'
      PROVE  Right(u)' /\ Quiet(u)' /\ KeyIsOwners(u)'
  <2>1. Sure(u)
    BY <1>2 DEF Sure
  <2>2. Right(u) /\ Quiet(u) /\ KeyIsOwners(u)
    BY <2>1 DEF Inv, Confirmations
  <2>3. Right(u)'
    BY <2>2 DEF Right
  <2>4. KeyIsOwners(u)'
    BY <2>2 DEF KeyIsOwners
  <2> QED
    BY <2>2, <2>3, <2>4
<1>3. Confirmations'
  BY <1>2 DEF Confirmations
<1> QED
  BY <1>1, <1>3 DEF Inv, Types, Boxes, Lines

(* What a server serves. *)
LEMMA Served ==
  ASSUME Inv, NEW s \in Server, serving[s] # None
  PROVE  /\ Of(s) \in Asked /\ Of(s).uid \in Uid
         /\ Of(s).who \in Person \cup {None}
         /\ Of(s).kind = "create" => Of(s).who \in Person
<1>1. serving[s] \in Entry
  BY DEF Inv, Types, TransportTypes
<1> QED
  BY <1>1 DEF Of, Entry, Asked, Op

(* A change of the account u, which Storage is yet to be told of. *)
LEMMA ChangeKeepsOthers ==
  ASSUME Inv, Lines', Boxes', NEW u0 \in Uid, box' = box,
         \A u \in Uid : u # u0 => acct'[u] = acct[u] /\ settled'[u] = settled[u],
         ~settled'[u0],
         \A u \in Uid : u # u0 /\ Quiet(u) => Quiet(u)',
         answer'["acc"] # Done, serving' = serving,
         called'["sto"] = called["sto"], answer'["sto"] = answer["sto"]
  PROVE  Inv'
<1>1. ASSUME NEW u \in Uid, Sure(u)'
      PROVE  Right(u)' /\ Quiet(u)' /\ KeyIsOwners(u)'
  <2>1. u # u0 /\ settled[u]
    BY <1>1 DEF Sure
  <2>2. Right(u) /\ Quiet(u) /\ KeyIsOwners(u)
    BY <2>1 DEF Inv, Confirmations, Sure
  <2>3. Right(u)'
    BY <2>1, <2>2 DEF Right
  <2>4. KeyIsOwners(u)'
    BY <2>1, <2>2 DEF KeyIsOwners, Of
  <2> QED
    BY <2>1, <2>2, <2>3, <2>4
<1> QED
  BY <1>1 DEF Inv, Types, Boxes, Lines, Confirmations

LEMMA ErrorIsAnswer == Error \in Answers /\ Error # Done /\ Error.is # "keys"
  BY DEF Answers, Error, Done, Answer

LEMMA CreateKeeps ==
  ASSUME Inv, Create
  PROVE  Inv'
<1> DEFINE u0 == Of("acc").uid
           p  == Of("acc").who
<1>1. serving["acc"] # None /\ Of("acc").kind = "create" /\ ~called["acc"] /\ box' = box
  BY DEF Create, Serves, Of
<1>2. u0 \in Uid /\ p \in Person
  BY <1>1, Served, Names
<1>3. Types /\ Lines
  BY DEF Inv, Types, Lines
<1>4. CASE End("acc", Error) /\ UNCHANGED <<acct, settled>>
  <2>1. /\ Lines' /\ \A u \in Uid : Quiet(u) => Quiet(u)'
        /\ ~called'["acc"] /\ called'["sto"] = called["sto"]
        /\ serving'["sto"] = serving["sto"]
        /\ answer'["sto"] = IF serving["acc"].from = "sto" THEN Error ELSE answer["sto"]
    BY <1>1, <1>3, <1>4, AccountEnds, ErrorIsAnswer
  <2> QED
    BY <1>1, <1>4, <2>1, NothingConfirmed, ErrorIsAnswer DEF Of
<1>5. CASE /\ acct[u0] = None
           /\ acct' = [acct EXCEPT ![u0] = p]
           /\ settled' = [settled EXCEPT ![u0] = FALSE]
           /\ Call("acc", "sto", For("open", u0))
  <2>1. For("open", u0) \in Asked /\ For("open", u0).uid = u0 /\ For("open", u0).kind = "open"
    BY <1>2 DEF For, Asked, Op, Kind
  <2>2. acct \in [Uid -> Person \cup {None}] /\ settled \in [Uid -> BOOLEAN]
    BY <1>3 DEF Types
  <2>3. p # None
    BY <1>2, AccountStorageAssumption
  <2>4. acct'[u0] # None /\ ~settled'[u0]
    BY <1>2, <1>5, <2>2, <2>3
  <2>5. Lines' /\ answer'["acc"] # Done /\ serving' = serving
        /\ answer'["sto"] = answer["sto"] /\ called'["sto"] = called["sto"]
        /\ \A u \in Uid : u # u0 /\ Quiet(u) => Quiet(u)'
    BY <1>1, <1>3, <1>5, <2>1, <2>4, AccountCalls
  <2>6. Boxes'
    BY <1>1, <1>2, <1>3, <1>5 DEF Boxes, Types
  <2>7. \A u \in Uid : u # u0 => acct'[u] = acct[u] /\ settled'[u] = settled[u]
    BY <1>5, <2>2
  <2> HIDE DEF u0
  <2> QED
    BY <1>1, <1>2, <2>4, <2>5, <2>6, <2>7, ChangeKeepsOthers
<1> QED
  BY <1>4, <1>5 DEF Create

LEMMA DeleteKeeps ==
  ASSUME Inv, Delete
  PROVE  Inv'
<1> DEFINE u0 == Of("acc").uid
<1>1. serving["acc"] # None /\ Of("acc").kind = "delete" /\ ~called["acc"] /\ box' = box
  BY DEF Delete, Serves, Of
<1>2. u0 \in Uid
  BY <1>1, Served, Names
<1>3. Types /\ Lines
  BY DEF Inv, Types, Lines
<1>4. CASE End("acc", Error) /\ UNCHANGED <<acct, settled>>
  <2>1. /\ Lines' /\ \A u \in Uid : Quiet(u) => Quiet(u)'
        /\ ~called'["acc"] /\ called'["sto"] = called["sto"]
        /\ serving'["sto"] = serving["sto"]
        /\ answer'["sto"] = IF serving["acc"].from = "sto" THEN Error ELSE answer["sto"]
    BY <1>1, <1>3, <1>4, AccountEnds, ErrorIsAnswer
  <2> QED
    BY <1>1, <1>4, <2>1, NothingConfirmed, ErrorIsAnswer DEF Of
<1>5. CASE /\ acct' = [acct EXCEPT ![u0] = None]
           /\ settled' = [settled EXCEPT ![u0] = FALSE]
           /\ Call("acc", "sto", For("drop", u0))
  <2>1. For("drop", u0) \in Asked /\ For("drop", u0).uid = u0 /\ For("drop", u0).kind = "drop"
    BY <1>2 DEF For, Asked, Op, Kind
  <2>2. acct \in [Uid -> Person \cup {None}] /\ settled \in [Uid -> BOOLEAN]
    BY <1>3 DEF Types
  <2>4. acct'[u0] = None /\ ~settled'[u0]
    BY <1>2, <1>5, <2>2
  <2>5. Lines' /\ answer'["acc"] # Done /\ serving' = serving
        /\ answer'["sto"] = answer["sto"] /\ called'["sto"] = called["sto"]
        /\ \A u \in Uid : u # u0 /\ Quiet(u) => Quiet(u)'
    BY <1>1, <1>3, <1>5, <2>1, <2>4, AccountCalls
  <2>6. Boxes'
    BY <1>1, <1>2, <1>3, <1>5 DEF Boxes, Types
  <2>7. \A u \in Uid : u # u0 => acct'[u] = acct[u] /\ settled'[u] = settled[u]
    BY <1>5, <2>2
  <2> HIDE DEF u0
  <2> QED
    BY <1>1, <1>2, <2>4, <2>5, <2>6, <2>7, ChangeKeepsOthers
<1> QED
  BY <1>4, <1>5 DEF Delete

LEMMA ConfirmedKeeps ==
  ASSUME Inv, Confirmed
  PROVE  Inv'
<1> DEFINE u0   == Of("acc").uid
           done == answer["acc"] = Done
           r    == IF done THEN Done ELSE Error
<1>1. /\ called["acc"] /\ answer["acc"] # Wait
      /\ settled' = [settled EXCEPT ![u0] = done]
      /\ End("acc", r) /\ acct' = acct /\ box' = box
  BY DEF Confirmed, Returned, Waiting
<1>2. serving["acc"] # None
  BY <1>1 DEF Inv, Calling
<1>3. u0 \in Uid /\ Types /\ Lines
  BY <1>2, Served, Names DEF Inv, Types, Lines
<1>4. r \in Answers /\ r.is # "keys"
  BY DEF Answers, Done, Error, Answer
<1>5. /\ Lines' /\ \A u \in Uid : Quiet(u) => Quiet(u)'
      /\ ~called'["acc"] /\ called'["sto"] = called["sto"]
      /\ serving'["sto"] = serving["sto"]
      /\ answer'["sto"] = IF serving["acc"].from = "sto" THEN r ELSE answer["sto"]
  BY <1>1, <1>2, <1>3, <1>4, AccountEnds
<1>6. Boxes'
  BY <1>1, <1>3 DEF Boxes, Types
<1>7. ASSUME NEW u \in Uid, Sure(u)'
      PROVE  Right(u)' /\ Quiet(u)' /\ KeyIsOwners(u)'
  <2>1. settled'[u]
    BY <1>5, <1>7 DEF Sure
  <2>2. Sure(u)
    BY <1>1, <1>3, <2>1 DEF Sure, Types
  <2>3. Right(u) /\ Quiet(u) /\ KeyIsOwners(u)
    BY <2>2 DEF Inv, Confirmations
  <2>4. Right(u)'
    BY <1>1, <2>3 DEF Right
  <2>5. KeyIsOwners(u)'
    BY <1>1, <1>4, <1>5, <2>3 DEF KeyIsOwners, Of
  <2> QED
    BY <1>5, <2>3, <2>4, <2>5
<1> QED
  BY <1>5, <1>6, <1>7 DEF Inv, Types, Boxes, Lines, Confirmations

LEMMA LookupKeeps ==
  ASSUME Inv, Lookup
  PROVE  Inv'
<1>1. /\ serving["acc"] # None /\ Of("acc").kind \in Uses
      /\ UNCHANGED <<acct, box, settled>>
  BY DEF Lookup, Serves, Of
<1>2. Types /\ Lines /\ Of("acc") \in Asked
  BY <1>1, Served, Names DEF Inv, Types, Lines
<1>3. ~called["acc"]
  BY <1>1 DEF Inv, Calling, Uses
<1>4. PICK r \in {Answer("found", Of("acc")), Error} : End("acc", r)
  BY DEF Lookup
<1>5. r \in Answers /\ r.is # "keys"
  BY <1>1, <1>2 DEF Answers, Error, Answer
<1>6. /\ Lines' /\ \A u \in Uid : Quiet(u) => Quiet(u)'
      /\ ~called'["acc"] /\ called'["sto"] = called["sto"]
      /\ serving'["sto"] = serving["sto"]
      /\ answer'["sto"] = IF serving["acc"].from = "sto" THEN r ELSE answer["sto"]
  BY <1>1, <1>2, <1>3, <1>4, <1>5, AccountEnds
<1> QED
  BY <1>1, <1>5, <1>6, NothingConfirmed DEF Of

(* The keys are those of the account, if it is Storage that waits for them. *)
LEMMA KeysKeeps ==
  ASSUME Inv, Keys
  PROVE  Inv'
<1> DEFINE u0 == Of("acc").uid
           p  == acct[u0]
           r  == IF p = None THEN Error ELSE Answer("keys", p)
<1>1. /\ serving["acc"] # None /\ Of("acc").kind = "keys"
      /\ UNCHANGED <<acct, box, settled>> /\ End("acc", r)
  BY DEF Keys, Serves, Of
<1>2. Types /\ Lines /\ u0 \in Uid
  BY <1>1, Served, Names DEF Inv, Types, Lines
<1>3. ~called["acc"]
  BY <1>1 DEF Inv, Calling
<1>4. p \in Person \cup {None}
  BY <1>2 DEF Types
<1>5. r \in Answers /\ (r.is = "keys" => r.val = p)
  BY <1>4 DEF Answers, Error, Answer
<1>6. /\ Lines' /\ \A u \in Uid : Quiet(u) => Quiet(u)'
      /\ ~called'["acc"] /\ called'["sto"] = called["sto"]
      /\ serving'["sto"] = serving["sto"]
      /\ answer'["sto"] = IF serving["acc"].from = "sto" THEN r ELSE answer["sto"]
  BY <1>1, <1>2, <1>3, <1>5, AccountEnds
<1>7. serving["acc"].from = "sto" => Of("sto").uid = u0
  <2>1. 0 \in Places("acc") /\ At("acc", 0) = serving["acc"]
    BY <1>1, <1>2, LinesTyped, Names DEF Places, At
  <2> QED
    BY <2>1 DEF Inv, FromStorage, AskedFor, Of
<1>8. Boxes'
  BY <1>1, <1>2 DEF Boxes, Types
<1>9. ASSUME NEW u \in Uid, Sure(u)'
      PROVE  Right(u)' /\ Quiet(u)' /\ KeyIsOwners(u)'
  <2>1. Sure(u)
    BY <1>1, <1>6, <1>9 DEF Sure
  <2>2. Right(u) /\ Quiet(u) /\ KeyIsOwners(u)
    BY <2>1 DEF Inv, Confirmations
  <2>3. Right(u)'
    BY <1>1, <2>2 DEF Right
  <2>4. KeyIsOwners(u)'
    <3>1. CASE serving["acc"].from = "sto"
      BY <1>1, <1>5, <1>6, <1>7, <3>1 DEF KeyIsOwners, Of
    <3>2. CASE serving["acc"].from # "sto"
      BY <1>1, <1>6, <2>2, <3>2 DEF KeyIsOwners, Of
    <3> QED
      BY <3>1, <3>2
  <2> QED
    BY <1>6, <2>2, <2>3, <2>4
<1> QED
  BY <1>6, <1>8, <1>9 DEF Inv, Types, Boxes, Lines, Confirmations

(* A mailbox that is opened or dropped for Account, which then knows it to *)
(* be as it should be, or for nobody, when u0 is not confirmed.            *)
LEMMA ChangeOfBox ==
  ASSUME Inv, NEW u0 \in Uid, u0 = Of("sto").uid, NEW b,
         b = None \/ b \in SUBSET Sealed,
         serving["sto"] # None, Of("sto").kind \in OpenOrDrop,
         box' = [box EXCEPT ![u0] = b], UNCHANGED <<acct, settled>>,
         End("sto", Done),
         Of("sto").kind = "open" => b # None /\ \A e \in b : e.key = Unknown,
         Of("sto").kind = "drop" => b = None
  PROVE  Inv'
<1>1. Types /\ Lines /\ Done \in Answers
  BY DEF Inv, Types, Lines, Answers
<1>2. ~called["sto"]
  BY DEF Inv, Calling, OpenOrDrop
<1>3. /\ Lines' /\ \A u \in Uid : Quiet(u) => Quiet(u)'
      /\ ~called'["sto"] /\ called'["acc"] = called["acc"]
      /\ serving'["acc"] = serving["acc"]
      /\ answer'["acc"] = IF serving["sto"].from = "acc" THEN Done ELSE answer["acc"]
      /\ serving["sto"].from = "acc" => Expected(serving["sto"]) /\ \A u \in Uid : Quiet(u)'
  BY <1>1, <1>2, StorageEnds
<1>4. ~Sure(u0)
  <2>1. 0 \in Places("sto") /\ At("sto", 0) = serving["sto"]
    BY <1>1, LinesTyped, Names DEF Places, At
  <2>2. ~Quiet(u0)
    BY <2>1 DEF Quiet, Of
  <2> QED
    BY <2>2 DEF Inv, Confirmations
<1>5. Boxes'
  BY <1>1 DEF Boxes, Types
<1>6. \A u \in Uid : box'[u] = IF u = u0 THEN b ELSE box[u]
  BY <1>1 DEF Types
<1>7. ASSUME NEW u \in Uid, Sure(u)'
      PROVE  Right(u)' /\ Quiet(u)'
  <2>1. CASE Sure(u)
    <3>1. Right(u) /\ Quiet(u) /\ u # u0
      BY <1>4, <2>1 DEF Inv, Confirmations
    <3>2. Right(u)'
      BY <1>6, <3>1 DEF Right
    <3> QED
      BY <1>3, <3>1, <3>2
  <2>2. CASE ~Sure(u)
    <3>1. serving["sto"].from = "acc" /\ Of("acc").uid = u /\ called["acc"]
      BY <1>3, <1>7, <2>2 DEF Sure, Of
    <3>2. Expected(serving["sto"]) /\ Quiet(u)'
      BY <1>3, <3>1
    <3>3. u = u0
      BY <3>1, <3>2 DEF Expected, Of
    <3>4. /\ Of("acc").kind = "create" => Of("sto").kind = "open"
          /\ Of("acc").kind # "create" => Of("sto").kind = "drop"
      BY <3>2 DEF Expected, Of
    <3>5. Right(u)'
      <4>1. CASE Of("acc").kind = "create"
        <5>1. acct'[u] # None /\ b # None /\ \A e \in b : e.key = Unknown
          BY <3>1, <3>4, <4>1 DEF Inv, Calling
        <5> QED
          BY <1>6, <3>3, <5>1 DEF Right
      <4>2. CASE Of("acc").kind # "create"
        <5>1. acct'[u] = None /\ b = None
          BY <3>1, <3>4, <4>2 DEF Inv, Calling
        <5> QED
          BY <1>6, <3>3, <5>1 DEF Right
      <4> QED
        BY <4>1, <4>2
    <3> QED
      BY <3>2, <3>5
  <2> QED
    BY <2>1, <2>2
<1>8. \A u \in Uid : KeyIsOwners(u)'
  BY <1>3 DEF KeyIsOwners
<1> QED
  BY <1>3, <1>5, <1>7, <1>8 DEF Inv, Types, Boxes, Lines, Confirmations

LEMMA OpenKeeps ==
  ASSUME Inv, Open
  PROVE  Inv'
<1> DEFINE u0 == Of("sto").uid
           b  == {[for |-> None, key |-> Unknown]}
<1>1. serving["sto"] # None /\ Of("sto").kind = "open" /\ UNCHANGED <<acct, settled>>
  BY DEF Open, Serves, Of
<1>2. Types /\ Lines /\ u0 \in Uid
  BY <1>1, Served, Names DEF Inv, Types, Lines
<1>3. CASE box[u0] # None
  <2>1. End("sto", Error) /\ box' = box
    BY <1>3 DEF Open
  <2>2. ~called["sto"]
    BY <1>1 DEF Inv, Calling
  <2>3. /\ Lines' /\ \A u \in Uid : Quiet(u) => Quiet(u)'
        /\ ~called'["sto"] /\ called'["acc"] = called["acc"]
        /\ serving'["acc"] = serving["acc"]
        /\ answer'["acc"] = IF serving["sto"].from = "acc" THEN Error ELSE answer["acc"]
    BY <1>1, <1>2, <2>1, <2>2, StorageEnds, ErrorIsAnswer
  <2> QED
    BY <1>1, <2>1, <2>3, NothingConfirmed, ErrorIsAnswer DEF Of
<1>4. CASE box[u0] = None
  <2>1. End("sto", Done) /\ box' = [box EXCEPT ![u0] = b]
    BY <1>4 DEF Open
  <2>2. b \in SUBSET Sealed /\ \A e \in b : e.key = Unknown
    BY DEF Sealed
  <2>3. b # None
    BY <2>2, RequestAssumption
  <2> HIDE DEF b
  <2> QED
    BY <1>1, <1>2, <2>1, <2>2, <2>3, ChangeOfBox DEF OpenOrDrop
<1> QED
  BY <1>3, <1>4

LEMMA DropKeeps ==
  ASSUME Inv, Drop
  PROVE  Inv'
<1>1. /\ serving["sto"] # None /\ Of("sto").kind = "drop" /\ UNCHANGED <<acct, settled>>
      /\ End("sto", Done) /\ box' = [box EXCEPT ![Of("sto").uid] = None]
  BY DEF Drop, Serves, Of
<1>2. Of("sto").uid \in Uid
  BY <1>1, Served, Names
<1> QED
  BY <1>1, <1>2, ChangeOfBox DEF OpenOrDrop

(* A request of a caller is carried out in the mailbox u0. *)
LEMMA UseOfBox ==
  ASSUME Inv, NEW u0 \in Uid, NEW b, NEW r \in Answers,
         b = None \/ b \in SUBSET Sealed,
         serving["sto"] # None, Of("sto").kind \notin OpenOrDrop,
         called["sto"] => answer["sto"] # Wait,
         box' = [box EXCEPT ![u0] = b], UNCHANGED <<acct, settled>>,
         End("sto", r),
         Sure(u0) => /\ b = None <=> box[u0] = None
                     /\ b # None => \A e \in b : e.key \in {acct[u0], Unknown}
  PROVE  Inv'
<1>1. Types /\ Lines
  BY DEF Inv, Types, Lines
<1>2. /\ Lines' /\ \A u \in Uid : Quiet(u) => Quiet(u)'
      /\ ~called'["sto"] /\ called'["acc"] = called["acc"]
      /\ serving'["acc"] = serving["acc"]
      /\ answer'["acc"] = IF serving["sto"].from = "acc" THEN r ELSE answer["acc"]
      /\ serving["sto"].from = "acc" => Expected(serving["sto"])
  BY <1>1, StorageEnds
<1>3. answer'["acc"] = answer["acc"]
  BY <1>2 DEF Expected, OpenOrDrop, Of
<1>4. Boxes'
  BY <1>1 DEF Boxes, Types
<1>5. \A u \in Uid : box'[u] = IF u = u0 THEN b ELSE box[u]
  BY <1>1 DEF Types
<1>6. ASSUME NEW u \in Uid, Sure(u)'
      PROVE  Right(u)' /\ Quiet(u)' /\ KeyIsOwners(u)'
  <2>1. Sure(u)
    BY <1>2, <1>3, <1>6 DEF Sure, Of
  <2>2. Right(u) /\ Quiet(u)
    BY <2>1 DEF Inv, Confirmations
  <2>3. Right(u)'
    BY <1>5, <2>1, <2>2 DEF Right
  <2>4. KeyIsOwners(u)'
    BY <1>2 DEF KeyIsOwners
  <2> QED
    BY <1>2, <2>2, <2>3, <2>4
<1> QED
  BY <1>2, <1>4, <1>6 DEF Inv, Types, Boxes, Lines, Confirmations

(* Storage answers a request, and has done nothing. *)
LEMMA RefusalKeeps ==
  ASSUME Inv, serving["sto"] # None, Of("sto").kind \notin OpenOrDrop,
         NEW r \in Answers, End("sto", r), UNCHANGED <<acct, box, settled>>,
         called["sto"] => answer["sto"] # Wait
  PROVE  Inv'
<1>1. Types /\ Lines
  BY DEF Inv, Types, Lines
<1>2. /\ Lines' /\ \A u \in Uid : Quiet(u) => Quiet(u)'
      /\ ~called'["sto"] /\ called'["acc"] = called["acc"]
      /\ serving'["acc"] = serving["acc"]
      /\ answer'["acc"] = IF serving["sto"].from = "acc" THEN r ELSE answer["acc"]
      /\ serving["sto"].from = "acc" => Expected(serving["sto"])
  BY <1>1, StorageEnds
<1>3. answer'["acc"] = answer["acc"]
  BY <1>2 DEF Expected, OpenOrDrop, Of
<1> QED
  BY <1>2, <1>3, NothingConfirmed DEF Of

LEMMA AskKeysKeeps ==
  ASSUME Inv, AskKeys
  PROVE  Inv'
<1> DEFINE u0 == Of("sto").uid
<1>1. /\ serving["sto"] # None /\ Of("sto").kind \in {"write", "empty"}
      /\ ~called["sto"] /\ UNCHANGED <<acct, box, settled>>
      /\ End("sto", Error) \/ Call("sto", "acc", For("keys", u0))
  BY DEF AskKeys, Serves, Of
<1>2. Types /\ Lines /\ u0 \in Uid
  BY <1>1, Served, Names DEF Inv, Types, Lines
<1>3. CASE End("sto", Error)
  BY <1>1, <1>3, RefusalKeeps, ErrorIsAnswer DEF OpenOrDrop
<1>4. CASE Call("sto", "acc", For("keys", u0))
  <2>1. /\ Lines' /\ \A u \in Uid : Quiet(u) => Quiet(u)'
        /\ answer'["sto"].is # "keys"
        /\ serving' = serving /\ answer'["acc"] = answer["acc"]
        /\ called'["acc"] = called["acc"]
    BY <1>1, <1>2, <1>4, StorageCalls
  <2> QED
    BY <1>1, <2>1, NothingConfirmed DEF Of
<1> QED
  BY <1>1, <1>3, <1>4

LEMMA SealKeeps ==
  ASSUME Inv, Seal
  PROVE  Inv'
<1> DEFINE u0 == Of("sto").uid
           p  == answer["sto"].val
           new(m) == {[for |-> m, key |-> p]}
           b  == IF Serves("sto", "write") THEN box[u0] \cup new(Of("sto").who)
                                           ELSE new(None)
<1>1. called["sto"] /\ answer["sto"] # Wait /\ UNCHANGED <<acct, settled>>
  BY DEF Seal, Returned, Waiting
<1>2. serving["sto"] # None /\ Of("sto").kind \in {"write", "empty"}
  BY <1>1 DEF Inv, Calling
<1>3. Types /\ Lines /\ u0 \in Uid /\ Of("sto").who \in Person \cup {None}
  BY <1>2, Served, Names DEF Inv, Types, Lines
<1>4. CASE answer["sto"].is # "keys" \/ box[u0] = None
  <2>1. End("sto", Error) /\ box' = box
    BY <1>4 DEF Seal
  <2> QED
    BY <1>1, <1>2, <2>1, RefusalKeeps, ErrorIsAnswer DEF OpenOrDrop
<1>5. CASE answer["sto"].is = "keys" /\ box[u0] # None
  <2>1. End("sto", Done) /\ box' = [box EXCEPT ![u0] = b]
    BY <1>5 DEF Seal
  <2>2. p \in Person
    <3>1. answer["sto"] \in Answers
      BY <1>3, Names DEF Types, TransportTypes
    <3> QED
      BY <1>5, <3>1 DEF Answers, Nothing, Wait, Error, Done, Answer
  <2>3. box[u0] \in SUBSET Sealed
    BY <1>3, <1>5 DEF Types
  <2>4. b \in SUBSET Sealed
    BY <1>3, <2>2, <2>3 DEF Sealed
  <2>5. b # None
    BY <2>4, RequestAssumption
  <2>6. ASSUME Sure(u0), NEW e \in b
        PROVE  e.key \in {acct[u0], Unknown}
    <3>1. p = acct[u0] /\ \A f \in box[u0] : f.key \in {acct[u0], Unknown}
      BY <1>1, <1>3, <1>5, <2>6 DEF Inv, Confirmations, KeyIsOwners, Right
    <3>2. e \in box[u0] \/ e.key = p
      BY <2>6
    <3> QED
      BY <3>1, <3>2
  <2>7. Done \in Answers
    BY DEF Answers
  <2> HIDE DEF b
  <2> QED
    BY <1>1, <1>2, <1>3, <1>5, <2>1, <2>4, <2>5, <2>6, <2>7, UseOfBox DEF OpenOrDrop
<1> QED
  BY <1>4, <1>5

LEMMA DeleteOneKeeps ==
  ASSUME Inv, DeleteOne
  PROVE  Inv'
<1> DEFINE u0 == Of("sto").uid
<1>1. /\ serving["sto"] # None /\ Of("sto").kind = "remove" /\ UNCHANGED <<acct, settled>>
  BY DEF DeleteOne, Serves, Of
<1>2. Types /\ Lines /\ u0 \in Uid /\ ~called["sto"] /\ Done \in Answers
  BY <1>1, Served, Names DEF Inv, Types, Lines, Calling, Answers
<1>3. CASE End("sto", Error) /\ box' = box
  BY <1>1, <1>2, <1>3, RefusalKeeps, ErrorIsAnswer DEF OpenOrDrop
<1>4. CASE /\ box[u0] \notin {None, {}} /\ End("sto", Done)
           /\ \E e \in box[u0] : box' \in {box, [box EXCEPT ![u0] = @ \ {e}]}
  <2>1. CASE box' = box
    BY <1>1, <1>2, <1>4, <2>1, RefusalKeeps DEF OpenOrDrop
  <2>2. CASE box' # box
    <3>1. PICK e \in box[u0] : box' = [box EXCEPT ![u0] = @ \ {e}]
      BY <1>4, <2>2
    <3> DEFINE b == box[u0] \ {e}
    <3>2. box[u0] \in SUBSET Sealed
      BY <1>2, <1>4 DEF Types
    <3>3. b \in SUBSET Sealed /\ box' = [box EXCEPT ![u0] = b]
      BY <3>1, <3>2
    <3>4. b # None
      BY <3>3, RequestAssumption
    <3>5. Sure(u0) => \A f \in b : f.key \in {acct[u0], Unknown}
      BY <1>2, <1>4 DEF Inv, Confirmations, Right
    <3> HIDE DEF b
    <3> QED
      BY <1>1, <1>2, <1>4, <3>3, <3>4, <3>5, UseOfBox DEF OpenOrDrop
  <2> QED
    BY <2>1, <2>2
<1> QED
  BY <1>3, <1>4 DEF DeleteOne

LEMMA BeginKeeps ==
  ASSUME Inv, NEW c \in Caller, NEW o \in Wanted, Begin(c, o)
  PROVE  Inv'
<1>1. Connect(c, "acc", o) /\ UNCHANGED <<acct, box, called, settled>>
  BY DEF Begin
<1>2. o \in Asked
  BY RequestAssumption DEF Asked
<1>3. Types /\ Lines
  BY DEF Inv, Types, Lines
<1>4. /\ Lines' /\ \A u \in Uid : Quiet(u) => Quiet(u)'
      /\ serving' = serving
      /\ answer'["acc"] = answer["acc"] /\ answer'["sto"] = answer["sto"]
  BY <1>1, <1>2, <1>3, CallerConnects, Names
<1> QED
  BY <1>1, <1>4, NothingConfirmed DEF Of

LEMMA SecondKeeps ==
  ASSUME Inv, NEW c \in Caller, Second(c)
  PROVE  Inv'
<1> DEFINE o == answer[c].val
<1>1. /\ answer[c].is = "found" /\ UNCHANGED <<acct, box, called, settled>>
      /\ Connect(c, "sto", o) \/ NotConnected(c)
  BY DEF Second
<1>2. c \in Client /\ c # "acc" /\ c # "sto"
  BY Names DEF Client
<1>3. Types /\ Lines
  BY DEF Inv, Types, Lines
<1>4. o \in Asked /\ o.kind \in Uses
  <2>1. answer[c] \in Answers
    BY <1>2, <1>3 DEF Types, TransportTypes
  <2> QED
    BY <1>1, <2>1 DEF Answers, Nothing, Wait, Error, Done, Answer
<1>5. CASE Connect(c, "sto", o)
  <2>1. /\ Lines' /\ \A u \in Uid : Quiet(u) => Quiet(u)'
        /\ serving' = serving
        /\ answer'["acc"] = answer["acc"] /\ answer'["sto"] = answer["sto"]
    BY <1>1, <1>3, <1>4, <1>5, CallerConnects, Names
  <2> QED
    BY <1>1, <2>1, NothingConfirmed DEF Of
<1>6. CASE NotConnected(c)
  <2>1. queue' = queue /\ serving' = serving /\ TransportTypes'
    BY <1>2, <1>3, <1>6, NotConnectedTyped DEF NotConnected
  <2>2. Moved("acc", 0) /\ Moved("sto", 0)
    BY <2>1, Unmoved, Names
  <2>3. answer'["acc"] = answer["acc"] /\ answer'["sto"] = answer["sto"]
    BY <1>2, <1>3, <1>6, Names DEF NotConnected, Types, TransportTypes
  <2>4. Lines' /\ \A u \in Uid : Quiet(u) => Quiet(u)'
    BY <1>1, <1>3, <2>1, <2>2, <2>3, LinesMove
  <2> QED
    BY <1>1, <2>1, <2>3, <2>4, NothingConfirmed DEF Of
<1> QED
  BY <1>1, <1>5, <1>6

LEMMA TimeOutKeeps ==
  ASSUME Inv, NEW x \in Client, TimeOut(x)
  PROVE  Inv'
<1>1. GiveUp(x) /\ UNCHANGED <<acct, box, called, settled>>
  BY DEF TimeOut
<1>2. Types /\ Lines
  BY DEF Inv, Types, Lines
<1>3. /\ Lines' /\ \A u \in Uid : Quiet(u) => Quiet(u)'
      /\ \A s \in Server : answer'[s] \in {answer[s], Error}
      /\ \A s \in Server : serving[s] # None => serving'[s].op = serving[s].op
  BY <1>1, <1>2, GivesUp
<1>4. \A s \in Server : called[s] => Of(s)' = Of(s)
  BY <1>3, Names DEF Inv, Calling, Of
<1> QED
  BY <1>1, <1>3, <1>4, NothingConfirmed, ErrorIsAnswer, Names

LEMMA NextRequestKeeps ==
  ASSUME Inv, NEW s \in Server, NextRequest(s)
  PROVE  Inv'
<1>1. Accept(s) /\ UNCHANGED <<acct, box, called, settled>>
  BY DEF NextRequest
<1>2. Types /\ Lines
  BY DEF Inv, Types, Lines
<1>3. /\ Moved(s, 1) /\ \A t \in Server : t # s => Moved(t, 0)
      /\ serving[s] = None
      /\ \A t \in Server : t # s => serving'[t] = serving[t]
      /\ answer' = answer /\ TransportTypes'
  BY <1>1, <1>2, OnAccept, AcceptTyped
<1>4. \A t \in Server : serving[t] # None => serving'[t] = serving[t]
  BY <1>3
<1>5. Lines' /\ \A u \in Uid : Quiet(u) => Quiet(u)'
  <2>1. CASE s = "acc"
    <3>1. Moved("acc", 1) /\ Moved("sto", 0)
      BY <1>3, <2>1, Names
    <3> QED
      BY <1>1, <1>2, <1>3, <1>4, <3>1, LinesMove
  <2>2. CASE s = "sto"
    <3>1. Moved("acc", 0) /\ Moved("sto", 1)
      BY <1>3, <2>2, Names
    <3> QED
      BY <1>1, <1>2, <1>3, <1>4, <3>1, LinesMove
  <2> QED
    BY <2>1, <2>2, Names
<1>6. \A t \in Server : called[t] => Of(t)' = Of(t)
  BY <1>4, Names DEF Inv, Calling, Of
<1> QED
  BY <1>1, <1>3, <1>5, <1>6, NothingConfirmed, Names

LEMMA ShortMessageKeeps ==
  ASSUME Inv, ShortMessage
  PROVE  Inv'
<1>1. Short("sto") /\ UNCHANGED <<acct, box, called, settled>>
  BY DEF ShortMessage
<1>2. Types /\ Lines
  BY DEF Inv, Types, Lines
<1>3. /\ Moved("sto", 1) /\ Moved("acc", 0)
      /\ serving' = serving /\ answer' = answer /\ TransportTypes'
  BY <1>1, <1>2, OnShort, ShortTyped, Names
<1>4. Lines' /\ \A u \in Uid : Quiet(u) => Quiet(u)'
  BY <1>1, <1>2, <1>3, LinesMove
<1> QED
  BY <1>1, <1>3, <1>4, NothingConfirmed DEF Of

LEMMA RestartKeeps ==
  ASSUME Inv, NEW s \in Server, Restart(s)
  PROVE  Inv'
<1>1. /\ Reset(s) /\ called' = [called EXCEPT ![s] = FALSE]
      /\ UNCHANGED <<acct, box, settled>>
  BY DEF Restart
<1>2. Types /\ Lines
  BY DEF Inv, Types, Lines
<1>3. /\ Lines' /\ \A u \in Uid : Quiet(u) => Quiet(u)'
      /\ ~called'[s]
      /\ \A t \in Server : t # s =>
           /\ called'[t] = called[t] /\ answer'[t] \in {answer[t], Error}
           /\ serving[t] # None => serving'[t].op = serving[t].op
  BY <1>1, <1>2, Restarts
<1>4. \A t \in Server : called'[t] =>
        called[t] /\ answer'[t] \in {answer[t], Error} /\ Of(t)' = Of(t)
  BY <1>3, Names DEF Inv, Calling, Of
<1> QED
  BY <1>1, <1>3, <1>4, NothingConfirmed, ErrorIsAnswer, Names

LEMMA InitEstablishes == Init => Inv
<1> SUFFICES ASSUME Init
             PROVE  Inv
  OBVIOUS
<1>1. /\ acct = [u \in Uid |-> None] /\ box = [u \in Uid |-> None]
      /\ called = [s \in Server |-> FALSE] /\ settled = [u \in Uid |-> TRUE]
      /\ queue = [s \in Server |-> <<>>] /\ serving = [s \in Server |-> None]
      /\ answer = [x \in Client |-> Nothing]
  BY DEF Init, TransportInit
<1>2. \A s \in Server : queue[s] = <<>> /\ serving[s] = None /\ Places(s) = {}
  BY <1>1 DEF Places, At
<1>3. <<>> \in Seq(Entry) /\ Len(<<>>) = 0 /\ Backlog \in Nat
  BY AccountStorageAssumption
<1>4. Types
  BY <1>1, <1>3 DEF Types, TransportTypes, Answers
<1>5. Calling /\ FromAccount /\ FromStorage
  BY <1>1, <1>2, Names DEF Calling, FromAccount, FromStorage
<1>6. Confirmations
  BY <1>1, <1>2, Names DEF Confirmations, Right, Quiet, KeyIsOwners
<1> QED
  BY <1>4, <1>5, <1>6 DEF Inv

LEMMA NextKeeps == Inv /\ [Next]_vars => Inv'
<1> SUFFICES ASSUME Inv, [Next]_vars
             PROVE  Inv'
  OBVIOUS
<1>1. CASE Create \/ Delete \/ Confirmed \/ Lookup \/ Keys
  BY <1>1, CreateKeeps, DeleteKeeps, ConfirmedKeeps, LookupKeeps, KeysKeeps
<1>2. CASE Open \/ Drop \/ AskKeys \/ Seal \/ DeleteOne
  BY <1>2, OpenKeeps, DropKeeps, AskKeysKeeps, SealKeeps, DeleteOneKeeps
<1>3. CASE \E c \in Caller, o \in Wanted : Begin(c, o)
  BY <1>3, BeginKeeps
<1>4. CASE \E c \in Caller : Second(c)
  BY <1>4, SecondKeeps
<1>5. CASE \E x \in Client : TimeOut(x)
  BY <1>5, TimeOutKeeps
<1>6. CASE \E s \in Server : NextRequest(s) \/ Restart(s)
  BY <1>6, NextRequestKeeps, RestartKeeps
<1>7. CASE ShortMessage
  BY <1>7, ShortMessageKeeps
<1>8. CASE UNCHANGED vars
  BY <1>8 DEF vars, Inv, Types, TransportTypes, Calling, FromAccount, FromStorage,
     Confirmations, Sure, Right, Quiet, KeyIsOwners, Expected, AskedFor, Waiting,
     Of, Places, At
<1> QED
  BY <1>1, <1>2, <1>3, <1>4, <1>5, <1>6, <1>7, <1>8 DEF Next

LEMMA InvImpliesTypeOK == Inv => TypeOK
<1> SUFFICES ASSUME Inv
             PROVE  TypeOK
  OBVIOUS
<1>1. Types
  BY DEF Inv
<1>2. Asked \subseteq Op
  BY DEF Asked
<1>3. ASSUME NEW s \in Server
      PROVE  \A q \in ToSet(queue[s]) \cup {serving[s]} :
               q = None \/ q \in [from : Client \cup {None}, op : Op]
  <2>1. /\ queue[s] \in Seq(Entry) /\ serving[s] \in {None} \cup Entry
        /\ \A i \in 1 .. Len(queue[s]) : queue[s][i] \in Entry
    BY <1>1, LinesTyped
  <2>2. ToSet(queue[s]) \subseteq Entry
    BY <2>1 DEF ToSet
  <2>3. Entry \subseteq [from : Client \cup {None}, op : Op]
    BY <1>2 DEF Entry
  <2> QED
    BY <2>1, <2>2, <2>3
<1>4. Answers \subseteq {Nothing, Wait, Error, Done} \cup [is : {"keys"}, val : Person]
                          \cup [is : {"found"}, val : Op]
  BY <1>2 DEF Answers
<1>5. \A x \in Client : answer[x] \in Answers
  BY <1>1 DEF Types, TransportTypes
<1>6. \A u \in Uid : box[u] = None \/ box[u] \subseteq Sealed
  BY <1>1 DEF Types
<1> QED
  BY <1>1, <1>3, <1>4, <1>5, <1>6 DEF TypeOK, Types, TransportTypes

LEMMA Invariance == Spec => []Inv
<1>1. Init => Inv
  BY InitEstablishes
<1>2. Inv /\ [Next]_vars => Inv'
  BY NextKeeps
<1> QED
  BY <1>1, <1>2, PTL DEF Spec

(* The requests in the queues, the answers and the mailboxes are of their  *)
(* types (TypeOK), whatever the numbers.                                   *)
THEOREM AccountStorageTyped == Spec => []TypeOK
<1>1. Inv => TypeOK
  BY InvImpliesTypeOK
<1> QED
  BY <1>1, Invariance, PTL

(* An account that api_account_create or api_account_delete has confirmed  *)
(* agrees with its mailbox: there is one exactly when there is the other,  *)
(* and what is in it is sealed for the owner of the account.  Calls that   *)
(* time out, answers that nobody waits for, and restarts of AEM-Account or *)
(* AEM-Storage at any moment do not change that.                           *)
THEOREM ConfirmedCanBeReliedOn == Spec => []BoxIsOwners
<1>1. Inv => BoxIsOwners
  BY DEF Inv, Confirmations, Sure, Right, BoxIsOwners
<1> QED
  BY <1>1, Invariance, PTL
=============================================================================
