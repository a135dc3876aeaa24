-------------------------- MODULE AccountStorage ---------------------------
(***************************************************************************)
(* AEM-Account and AEM-Storage at work for AEM-API, AEM-MTA and            *)
(* AEM-Deliver.  The two servers call each other: Account has mailboxes    *)
(* created and dropped, Storage asks for the keys of the mailbox it is     *)
(* about to write to.  Mail takes two calls: one to Account for the UserID *)
(* of an address, and, later, one to Storage with that UserID.             *)
(*                                                                         *)
(* A UserID is 12 bits of the user's key (aem_getUserId): two persons may  *)
(* have the same, and one may register when the other has left.            *)
(*                                                                         *)
(* Of a mailbox the model keeps which kinds of envelope it holds: whom a   *)
(* mail was meant for (None: a notice of the system), and whose key it is  *)
(* sealed with.  Modules Storage and Account have the details of both      *)
(* servers; here their file operations succeed.                            *)
(***************************************************************************)
EXTENDS Naturals, Sequences, FiniteSets

CONSTANTS
  Person,    \* owners of keys
  uidOf,     \* uidOf[p]: UserID of p
  Caller,    \* AEM-API, and AEM-MTA together with AEM-Deliver
  Wanted,    \* bound of the model: the requests that callers make
  Backlog,
  MaxGivenUp, \* bound of the model: abandoned requests in the queues, beyond
              \* which callers are patient
  Unknown,   \* a key that nobody has
  None

Uid    == {uidOf[p] : p \in Person}
Server == {"acc", "sto"}

ASSUME AccountStorageAssumption ==
  /\ Backlog \in Nat \ {0}
  /\ MaxGivenUp \in Nat
  /\ Caller \cap Server = {}
  /\ None \notin Person \cup Caller \cup Server
  /\ Unknown \notin Person \cup {None}

VARIABLES
  acct,      \* acct[u]: the person registered as u, or None
  box,       \* box[u]: envelopes in u's file; None if there is no file
  called,    \* called[s]: s has made its call for the request it serves
  settled,   \* history: settled[u] iff Storage confirmed the last change
             \* that Account made to u
  queue, serving, answer

INSTANCE IntCom

vars == <<acct, box, called, settled, queue, serving, answer>>

Sealed   == [for : Person \cup {None}, key : Person \cup {Unknown}]
Changes  == {"create", "delete"}             \* requests of callers
Uses     == {"write", "empty", "remove"}     \* likewise, by way of Lookup
Kind     == Changes \cup Uses \cup {"open", "drop", "keys"}
Op       == [kind : Kind, uid : Uid, who : Person \cup {None}]
Done     == Answer("ok", None)

(* Callers ask Account only, and nobody registers without a key.  No       *)
(* request and no file is the same as none.                                *)
ASSUME RequestAssumption ==
  /\ \A o \in Wanted : o \in Op /\ o.kind \in Changes \cup Uses
                       /\ (o.kind = "create" => o.who \in Person)
  /\ None \notin [from : Client \cup {None}, op : Op]
  /\ \A S \in SUBSET Sealed : S # None

For(k, u) == [kind |-> k, uid |-> u, who |-> None]

TypeOK ==
  /\ acct \in [Uid -> Person \cup {None}]
  /\ \A u \in Uid : box[u] = None \/ box[u] \subseteq Sealed
  /\ called \in [Server -> BOOLEAN]
  /\ settled \in [Uid -> BOOLEAN]
  /\ \A s \in Server :
       /\ Len(queue[s]) <= Backlog
       /\ \A q \in ToSet(queue[s]) \cup {serving[s]} :
            q = None \/ q \in [from : Client \cup {None}, op : Op]
  /\ \A x \in Client : answer[x] \in
       {Nothing, Wait, Error, Done} \cup [is : {"keys"}, val : Person]
                                  \cup [is : {"found"}, val : Op]

(* Only the master admin is registered, who is left out. *)
Init ==
  /\ acct = [u \in Uid |-> None]
  /\ box = [u \in Uid |-> None]
  /\ called = [s \in Server |-> FALSE]
  /\ settled = [u \in Uid |-> TRUE]
  /\ TransportInit

-----------------------------------------------------------------------------
(* Calls of a server while it serves: the request o of serving[s] is left  *)
(* unanswered until the other server's answer, or an error, is there.      *)

Serves(s, k) == serving[s] # None /\ serving[s].op.kind = k
Of(s)        == serving[s].op
Returned(s)  == called[s] /\ ~Waiting(s)

Call(s, t, o) ==
  /\ Connect(s, t, o) \/ NotConnected(s)
  /\ called' = [called EXCEPT ![s] = TRUE]

End(s, r) ==
  /\ Reply(s, r)
  /\ called' = [called EXCEPT ![s] = FALSE]

-----------------------------------------------------------------------------
(* AEM-Account. *)

(* api_account_create: the account is saved, then its mailbox is opened.   *)
Create ==
  LET u == Of("acc").uid
      p == Of("acc").who
  IN  /\ Serves("acc", "create")
      /\ ~called["acc"]
      /\ UNCHANGED box
      /\ \/ /\ acct[u] # None
            /\ End("acc", Error)
            /\ UNCHANGED <<acct, settled>>
         \/ /\ acct[u] = None
            /\ acct' = [acct EXCEPT ![u] = p]
            /\ settled' = [settled EXCEPT ![u] = FALSE]
            /\ Call("acc", "sto", For("open", u))

(* api_account_delete: the account goes first, then its mailbox. *)
Delete ==
  LET u == Of("acc").uid
  IN  /\ Serves("acc", "delete")
      /\ ~called["acc"]
      /\ UNCHANGED box
      /\ \/ /\ acct[u] = None
            /\ End("acc", Error)
            /\ UNCHANGED <<acct, settled>>
         \/ /\ acct[u] # None
            /\ acct' = [acct EXCEPT ![u] = None]
            /\ settled' = [settled EXCEPT ![u] = FALSE]
            /\ Call("acc", "sto", For("drop", u))

(* Both, when Storage has answered or the call has failed. *)
Confirmed ==
  LET u == Of("acc").uid
      done == answer["acc"] = Done
  IN  /\ Returned("acc")
      /\ settled' = [settled EXCEPT ![u] = done]
      /\ End("acc", IF done THEN Done ELSE Error)
      /\ UNCHANGED <<acct, box>>

(* mta_getUid, api_message_create, and api_auth for a user's own request:  *)
(* whose UserID is it?  The answer lets the caller go on with its request. *)
(* A person's address may be missing or closed to mail even so.            *)
Lookup ==
  /\ \E k \in Uses : Serves("acc", k)
  /\ \/ /\ acct[Of("acc").uid] = Of("acc").who
        /\ End("acc", Answer("found", Of("acc")))
     \/ End("acc", Error)
  /\ UNCHANGED <<acct, box, settled>>

(* sto_uid2keys *)
Keys ==
  /\ Serves("acc", "keys")
  /\ LET p == acct[Of("acc").uid]
     IN  End("acc", IF p = None THEN Error ELSE Answer("keys", p))
  /\ UNCHANGED <<acct, box, settled>>

-----------------------------------------------------------------------------
(* AEM-Storage. *)

(* acc_storage_create: refuses when the index has envelopes or the file    *)
(* exists.  The keys for sysMsg are taken from msg + sizeof(uint16_t) as   *)
(* elements of struct evpKeys, not bytes: from behind the message that was *)
(* received, so that the welcome is sealed with whatever is there.         *)
Open ==
  LET u == Of("sto").uid
  IN  /\ Serves("sto", "open")
      /\ IF box[u] # None
         THEN End("sto", Error) /\ UNCHANGED box
         ELSE /\ box' = [box EXCEPT ![u] = {[for |-> None, key |-> Unknown]}]
              /\ End("sto", Done)
      /\ UNCHANGED <<acct, settled>>

(* acc_storage_delete *)
Drop ==
  /\ Serves("sto", "drop")
  /\ box' = [box EXCEPT ![Of("sto").uid] = None]
  /\ End("sto", Done)
  /\ UNCHANGED <<acct, settled>>

(* storage_write and storage_empty ask for the keys of the UserID. *)
AskKeys ==
  LET u == Of("sto").uid
  IN  /\ Serves("sto", "write") \/ Serves("sto", "empty")
      /\ ~called["sto"]
      /\ IF Serves("sto", "write") /\ box[u] \in {None, {}}
         THEN End("sto", Error)
         ELSE Call("sto", "acc", For("keys", u))
      /\ UNCHANGED <<acct, box, settled>>

(* storage_write and storage_empty with the keys, or without them.         *)
Seal ==
  LET u == Of("sto").uid
      p == answer["sto"].val
      new(m) == {[for |-> m, key |-> p]}
  IN  /\ Returned("sto")
      /\ IF answer["sto"].is # "keys" \/ box[u] = None
         THEN End("sto", Error) /\ UNCHANGED box
         ELSE /\ box' = [box EXCEPT ![u] =
                   IF Serves("sto", "write") THEN @ \cup new(Of("sto").who)
                                             ELSE new(None)]
              /\ End("sto", Done)
      /\ UNCHANGED <<acct, settled>>

(* storage_delete: of one envelope, perhaps the last of its kind. *)
DeleteOne ==
  LET u == Of("sto").uid
  IN  /\ Serves("sto", "remove")
      /\ \/ /\ box[u] \in {None, {}}
            /\ End("sto", Error)
            /\ UNCHANGED box
         \/ /\ box[u] \notin {None, {}}
            /\ \E e \in box[u] : box' \in {box, [box EXCEPT ![u] = @ \ {e}]}
            /\ End("sto", Done)
      /\ UNCHANGED <<acct, settled>>

-----------------------------------------------------------------------------
(* AEM-API and AEM-MTA with AEM-Deliver: one client at a time, and one     *)
(* call at a time.                                                         *)

Begin(c, o) ==
  /\ answer[c].is # "found"
  /\ Connect(c, "acc", o)
  /\ UNCHANGED <<acct, box, called, settled>>

(* The second call, with the UserID that the first one brought. *)
Second(c) ==
  /\ answer[c].is = "found"
  /\ Connect(c, "sto", answer[c].val) \/ NotConnected(c)
  /\ UNCHANGED <<acct, box, called, settled>>

-----------------------------------------------------------------------------
(* Time, and the ends of processes. *)

GivenUp ==
  {x \in Server \X (1 .. Backlog) :
     x[2] <= Len(queue[x[1]]) /\ queue[x[1]][x[2]].from = None}

TimeOut(x) ==
  /\ GiveUp(x)
  /\ x \in Caller => Cardinality(GivenUp) < MaxGivenUp
  /\ UNCHANGED <<acct, box, called, settled>>

NextRequest(s) ==
  /\ Accept(s)
  /\ UNCHANGED <<acct, box, called, settled>>

ShortMessage ==
  /\ Short("sto")
  /\ Head(queue["sto"]).op.kind = "write"
  /\ UNCHANGED <<acct, box, called, settled>>

(* Both servers save before they call or answer. *)
Restart(s) ==
  /\ Reset(s)
  /\ called' = [called EXCEPT ![s] = FALSE]
  /\ UNCHANGED <<acct, box, settled>>

Account == Create \/ Delete \/ Confirmed \/ Lookup \/ Keys
Storage == Open \/ Drop \/ AskKeys \/ Seal \/ DeleteOne

Next ==
  \/ Create \/ Delete \/ Confirmed \/ Lookup \/ Keys
  \/ Open \/ Drop \/ AskKeys \/ Seal \/ DeleteOne
  \/ \E c \in Caller, o \in Wanted : Begin(c, o)
  \/ \E c \in Caller : Second(c)
  \/ \E x \in Client : TimeOut(x)
  \/ \E s \in Server : NextRequest(s) \/ Restart(s)
  \/ ShortMessage

Spec == Init /\ [][Next]_vars

(* A server goes on while there is something to do, and its calls time out *)
(* (setSockOpts).  Nothing is assumed of the callers.                      *)
FairSpec ==
  /\ Spec
  /\ WF_vars(Account) /\ WF_vars(Storage)
  /\ \A s \in Server : WF_vars(NextRequest(s)) /\ WF_vars(TimeOut(s))

-----------------------------------------------------------------------------
(* Properties. *)

(* Unless a change of an account was answered with an error since the last *)
(* one that was confirmed, a UserID has a file exactly when it has an      *)
(* account, and the file holds only envelopes of that account: an answer   *)
(* "ok" to api_account_create or api_account_delete can be relied on, and  *)
(* mail in progress, requests given up long ago and restarts of either     *)
(* server change nothing about that.                                       *)
BoxIsOwners ==
  \A u \in Uid : settled[u] =>
    /\ acct[u] = None <=> box[u] = None
    /\ box[u] # None => \A e \in box[u] : e.key \in {acct[u], Unknown}

(* Storage waits for Account's keys while Account waits for Storage: only  *)
(* the time limits of both calls end that.  They do, and every call of a   *)
(* caller that waits as long as it takes is answered.                      *)
CallsReturn ==
  \A x \in Client : Waiting(x) ~> ~Waiting(x)

(* README: an Envelope is openable only by the recipient.  The welcome of  *)
(* acc_storage_create is for the owner of the mailbox.                     *)
WelcomeOpens ==
  \A u \in Uid : box[u] # None => \A e \in box[u] : e.key # Unknown

(* The same for mail: the UserID that an address led to is still that of   *)
(* the same person when Storage asks for the keys.                         *)
MailForRecipient ==
  \A u \in Uid : box[u] # None =>
    \A e \in box[u] : e.for \in {e.key, None}

=============================================================================
