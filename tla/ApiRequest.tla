----------------------------- MODULE ApiRequest -----------------------------
(***************************************************************************)
(* A request to the web API on its way through AEM-API (src/api/post.c):   *)
(*                                                                         *)
(*   idle --> "auth" ---GET-------------------> "store" --> idle           *)
(*               '------POST--> "body" --'                                 *)
(*                                 '---> "redo" --> idle  (continued)      *)
(*                                                                         *)
(* AEM-Account accepts a request that is newer than the user's last one;   *)
(* AEM-Storage carries out what concerns mailboxes.  There is one process  *)
(* for the port with TLS and one for the onion service: the same user's    *)
(* requests, and repetitions of one request, may reach both.               *)
(*                                                                         *)
(* Of the clock the model keeps the times in requests: one too far from    *)
(* the server's is one that Receive does not take.                         *)
(***************************************************************************)
EXTENDS Naturals, Sequences, FiniteSets, Functions

CONSTANTS
  Api,        \* processes of AEM-API
  Uid,        \* UserIDs
  Byte,       \* one more than the largest byte, 256 in the code
  Request,    \* the requests that clients send, see RequestType
  NoRequest,  \* that of a process with none
  Outcome,    \* what may become of a call to Storage or Enquiry
  MaxTimes,   \* bound of the model: how often a request is received
  MaxRestart  \* bound of the model: restarts of AEM-Account

Mailbox   == {"delete", "upload"}             \* on the user's own mailbox
Message   == {"mail", "public", "email"}      \* messages to mailboxes
Continued == {"continue"}                     \* Account/Create, Private/Update
Post      == Message \cup Continued \cup {"upload"}
Command   == Post \cup {"delete", "account"}  \* "account": done by Account

(* to: the mailboxes that Account names for a message; for an email that   *)
(* of the sender, who gets the report.                                     *)
RequestType == [user : Uid, ts : Nat \ {0}, cmd : Command, to : Seq(Uid)]

ASSUME ApiRequestAssumption ==
  /\ Byte \in Nat \ {0}
  /\ Uid \subseteq Nat
  /\ \A u \in Uid : u % Byte \in Uid
  /\ \A r \in Request : r \in RequestType /\ IsInjective(r.to)
  /\ NoRequest \notin Request
  /\ Outcome \subseteq {"done", "lost", "failed"}
  /\ MaxTimes \in Nat
  /\ MaxRestart \in Nat

VARIABLES
  last,       \* last[u]: lastBinTs of user u in memory of AEM-Account
  saved,      \* saved[u]: the same in Account.aem
  pc, req,    \* per process: step, and the request in progress
  todo,       \* mailboxes it still has to write to
  good,       \* whether all went well so far
  effect,     \* effect[r][u]: how often r took effect on what belongs to u
  sent,       \* emails that the receiving server took
  reply,      \* reply[r]: the answers to r
  times,      \* how often r was received
  late,       \* calls to AEM-Account that were given up, not served yet
  restarts    \* of AEM-Account

account == <<last, saved, late, restarts>>
process == <<pc, req, todo, good>>
outside == <<effect, sent, times>>
vars    == <<account, process, outside, reply>>

TypeOK ==
  /\ last \in [Uid -> Nat] /\ saved \in [Uid -> Nat]
  /\ \A u \in Uid : saved[u] <= last[u]
  /\ pc \in [Api -> {"idle", "auth", "body", "redo", "store"}]
  /\ \A a \in Api : pc[a] # "idle" => req[a] \in Request
  /\ todo \in [Api -> Seq(Uid)]
  /\ good \in [Api -> BOOLEAN]
  /\ sent \subseteq Request
  /\ late \subseteq {"auth", "redo"} \X Request

Init ==
  /\ last = [u \in Uid |-> 0]
  /\ saved = last
  /\ pc = [a \in Api |-> "idle"]
  /\ req = [a \in Api |-> NoRequest]
  /\ todo = [a \in Api |-> <<>>]
  /\ good = [a \in Api |-> TRUE]
  /\ effect = [r \in Request |-> [u \in Uid |-> 0]]
  /\ sent = {}
  /\ reply = [r \in Request |-> {}]
  /\ times = [r \in Request |-> 0]
  /\ late = {}
  /\ restarts = 0

-----------------------------------------------------------------------------

Goto(a, p) == pc' = [pc EXCEPT ![a] = p]

(* The connection is closed after the answer. *)
Idle(a) ==
  /\ Goto(a, "idle")
  /\ req' = [req EXCEPT ![a] = NoRequest]
  /\ todo' = [todo EXCEPT ![a] = <<>>]
  /\ good' = [good EXCEPT ![a] = TRUE]

Respond(a, x) ==
  /\ reply' = [reply EXCEPT ![req[a]] = @ \cup {x}]
  /\ Idle(a)

Took(r, u) == effect' = [effect EXCEPT ![r][u] = @ + 1]

(* api_auth puts the UserID into one byte of its answer. *)
LowByte(u) == u % Byte

(* respondClient, aem_api_process *)
Receive(a, r) ==
  /\ pc[a] = "idle"
  /\ times[r] < MaxTimes
  /\ times' = [times EXCEPT ![r] = @ + 1]
  /\ req' = [req EXCEPT ![a] = r]
  /\ Goto(a, "auth")
  /\ UNCHANGED <<account, todo, good, effect, sent, reply>>

(* api_auth.  A slip, and the code:                                        *)
NewerOrSame(r) == r.ts >= last[r.user]

Newer(r) == r.ts > last[r.user]

(* What conn_api changes for a request that is newer: api_auth notes its   *)
(* time in memory; a GET request for Account is carried out, a continued   *)
(* POST request when it comes again; either may save all users.            *)
Serve(stage, r) ==
  /\ last' = [last EXCEPT ![r.user] = r.ts]
  /\ IF r.cmd = "account" \/ stage = "redo"
       THEN Took(r, r.user) /\ saved' \in {saved, last'}
       ELSE UNCHANGED <<effect, saved>>

(* No answer from Account, or one that is too short: respond500.  A call   *)
(* that was given up may still be in Account's queue.                      *)
AccountFails(a) ==
  /\ pc[a] \in {"auth", "redo"}
  /\ late' \in {late, late \cup {<<pc[a], req[a]>>}}
  /\ Respond(a, "500")
  /\ UNCHANGED <<last, saved, restarts, outside>>

Late(stage, r) ==
  /\ <<stage, r>> \in late
  /\ late' = late \ {<<stage, r>>}
  /\ IF Newer(r) THEN Serve(stage, r) ELSE UNCHANGED <<last, saved, effect>>
  /\ UNCHANGED <<restarts, process, sent, times, reply>>

AuthFails(a) ==
  /\ pc[a] = "auth"
  /\ ~Newer(req[a])
  /\ Respond(a, "403")
  /\ UNCHANGED <<account, outside>>

(* Account's answer to what it did itself is passed on to the client. *)
ForAccount(a) ==
  /\ pc[a] = "auth"
  /\ req[a].cmd = "account"
  /\ Newer(req[a])
  /\ Serve("auth", req[a])
  /\ Respond(a, "ok")
  /\ UNCHANGED <<late, restarts, sent, times>>

(* To another one Account's answer names the mailboxes. *)
Authentic(a) ==
  LET r == req[a]
  IN  /\ pc[a] = "auth"
      /\ r.cmd # "account"
      /\ Newer(r)
      /\ Serve("auth", r)
      /\ todo' = [todo EXCEPT ![a] = IF r.cmd \in Message THEN r.to
                                     ELSE <<LowByte(r.user)>>]
      /\ Goto(a, IF r.cmd \in Post THEN "body" ELSE "store")
      /\ UNCHANGED <<late, restarts, req, good, sent, times, reply>>

(* readHeaders, and the body of a POST request.  An email needs the        *)
(* receiving server: AEM-Enquiry finds it, sendMail talks to it.           *)
BodyFails(a) ==
  /\ pc[a] = "body"
  /\ Respond(a, "fail")
  /\ UNCHANGED <<account, outside>>

Body(a) ==
  LET r == req[a]
  IN  /\ pc[a] = "body"
      /\ Goto(a, IF r.cmd \in Continued THEN "redo" ELSE "store")
      /\ sent' \in IF r.cmd = "email" THEN {sent, sent \cup {r}} ELSE {sent}
      /\ UNCHANGED <<account, req, todo, good, effect, times, reply>>

(* handleContinue sends the same request to Account again, with the body.  *)
Redo(a) ==
  /\ pc[a] = "redo"
  /\ Newer(req[a])
  /\ Serve("redo", req[a])
  /\ Respond(a, "ok")
  /\ UNCHANGED <<late, restarts, sent, times>>

RedoFails(a) ==
  /\ pc[a] = "redo"
  /\ ~Newer(req[a])
  /\ Respond(a, "refused")
  /\ UNCHANGED <<account, outside>>

(* One call to Storage.  When the answer is lost, it may have been carried *)
(* out.  A slip, and the code:                                             *)
StoreOfLast(a) ==
  \E o \in Outcome :
    /\ pc[a] = "store"
    /\ todo[a] # <<>>
    /\ todo' = [todo EXCEPT ![a] = Tail(@)]
    /\ IF o = "failed" THEN UNCHANGED effect
                       ELSE Took(req[a], Head(todo[a]))
    /\ good' = [good EXCEPT ![a] = o = "done"]
    /\ UNCHANGED <<account, pc, req, sent, times, reply>>

Store(a) ==
  \E o \in Outcome :
    /\ pc[a] = "store"
    /\ todo[a] # <<>>
    /\ todo' = [todo EXCEPT ![a] = Tail(@)]
    /\ IF o = "failed" THEN UNCHANGED effect
                       ELSE Took(req[a], Head(todo[a]))
    /\ good' = [good EXCEPT ![a] = @ /\ o = "done"]
    /\ UNCHANGED <<account, pc, req, sent, times, reply>>

(* storage_write answers the id of the envelope, minus 65536.  send_imail, *)
(* send_pmail and send_email take for success what is not                  *)
(* AEM_INTCOM_RESPONSE_ERR; message_upload what is                         *)
(* AEM_INTCOM_RESPONSE_OK, which storage_write never answers.              *)
Stored(a) ==
  /\ pc[a] = "store"
  /\ todo[a] = <<>>
  /\ Respond(a, IF good[a] /\ req[a].cmd # "upload" THEN "ok" ELSE "fail")
  /\ UNCHANGED <<account, outside>>

(* The process ends, or the client does not get the answer. *)
ApiRestart(a) ==
  /\ pc[a] # "idle"
  /\ Idle(a)
  /\ UNCHANGED <<account, outside, reply>>

(* It reads Account.aem. *)
AccountRestart ==
  /\ restarts < MaxRestart
  /\ restarts' = restarts + 1
  /\ last' = saved
  /\ late' = {}
  /\ UNCHANGED <<saved, process, outside, reply>>

Next ==
  \/ \E a \in Api, r \in Request : Receive(a, r)
  \/ \E a \in Api :
       \/ AccountFails(a) \/ AuthFails(a) \/ ForAccount(a) \/ Authentic(a)
       \/ BodyFails(a) \/ Body(a) \/ Redo(a) \/ RedoFails(a)
       \/ Store(a) \/ Stored(a) \/ ApiRestart(a)
  \/ \E stage \in {"auth", "redo"}, r \in Request : Late(stage, r)
  \/ AccountRestart

Spec == Init /\ [][Next]_vars

-----------------------------------------------------------------------------
(* Properties. *)

(* api_auth: however often a client repeats a request, through whichever   *)
(* process, and whatever becomes of the calls, it takes effect once on     *)
(* what it concerns.  A restart of AEM-Account forgets times that were not *)
(* saved: once more for each.                                              *)
TakesEffectOnce ==
  \A r \in Request, u \in Uid : effect[r][u] <= 1 + restarts

(* send_imail, send_pmail: a message that was answered with success is in  *)
(* the mailbox of everybody it was for.                                    *)
SentIsStored ==
  \A r \in Request : r.cmd \in Message /\ "ok" \in reply[r] =>
    \A i \in DOMAIN r.to : effect[r][r.to[i]] > 0

(* A user's own commands reach the user's own mailbox. *)
OwnMailbox ==
  \A r \in Request : r.cmd \in Mailbox =>
    \A u \in Uid \ {r.user} : effect[r][u] = 0

(* The repeated request of handleContinue is accepted, unless the user has *)
(* made a newer one.                                                       *)
RedoAccepted ==
  \A r \in Request : "refused" \in reply[r] => last[r.user] > r.ts

(* message_upload: what is stored is not reported as failed.  (For calls   *)
(* that do not fail.)                                                      *)
UploadReported ==
  \A r \in Request : r.cmd = "upload" /\ "fail" \in reply[r] =>
    \A u \in Uid : effect[r][u] = 0

(* send_email: an email that was answered with success was sent. *)
EmailWasSent ==
  \A r \in Request : r.cmd = "email" /\ "ok" \in reply[r] => r \in sent
=============================================================================
