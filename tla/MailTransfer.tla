---------------------------- MODULE MailTransfer ----------------------------
(***************************************************************************)
(* How mail from other servers gets into mailboxes.                        *)
(*                                                                         *)
(*   client --SMTP--> AEM-MTA --stream--> AEM-Deliver --> AEM-Storage      *)
(*                                                                         *)
(* AEM-MTA (src/mta/respond.c) has one session at a time.  For each DATA   *)
(* it opens a stream to AEM-Deliver (src/IntCom/Stream_*.c), passes on the *)
(* body in pieces while it receives it, and answers the client with what   *)
(* Deliver says at the end.  Deliver (src/deliver/store.c) has one stream  *)
(* at a time and stores a message, its attachments and the original for    *)
(* each recipient.                                                         *)
(*                                                                         *)
(* A mail is known by the number of its DATA; its body is the pieces       *)
(* 1 .. BodyLen, each of them AEM_SMTP_CHUNKSIZE bytes.                    *)
(***************************************************************************)
EXTENDS Naturals, Sequences, SequencesExt

CONSTANTS
  Rcpt,       \* addresses in our domain
  Known,      \* those that have an owner who accepts mail
  NoUser,     \* Shield addresses that do not
  Flag,       \* Flag[r]: the flags of the address
  BodyLen,    \* the length of the bodies that are sent
  Attach,     \* the number of attachments that are found in them
  MaxBody,    \* AEM_SMTP_MAX_SIZE_BODY, 64 pieces
  MaxTo,      \* AEM_SMTP_MAX_TO, 128
  MaxRounds,  \* AEM_SMTP_MAX_ROUNDS, 500
  Outcome,    \* what may become of a call to AEM-Storage
  MaxMail,    \* bound of the model: DATA commands
  MaxRestart  \* bound of the model: restarts of AEM-Deliver

Flags == {"secure", "allver", "attach", "origin"}
Mail  == 1 .. MaxMail
Code  == {"250", "450", "451", "550"}

ASSUME MailTransferAssumption ==
  /\ Known \cap NoUser = {} /\ Known \cup NoUser \subseteq Rcpt
  /\ Flag \in [Rcpt -> SUBSET Flags]
  /\ BodyLen \in Nat /\ Attach \in Nat
  /\ MaxBody \in Nat \ {0} /\ MaxTo \in Nat \ {0} /\ MaxRounds \in Nat
  /\ Outcome \subseteq {"done", "lost", "failed"}
  /\ MaxMail \in Nat /\ MaxRestart \in Nat

VARIABLES
  (* AEM-MTA, respondClient *)
  stage,      \* of the session: idle, helo, tls, command, body, end, wait
  secure,     \* TLS 1.3
  from,       \* lenEnvFr > 0
  to,         \* meta.to
  rounds,     \* roundsDone
  count,      \* DATA commands so far; the mail in "body" and "end"
  at,         \* pieces of its body received
  line,       \* ss_sock >= 0: the stream is still open at this end
  (* the streams *)
  queue,      \* those open at AEM-Deliver's end, the first being served
  meta,       \* meta[m]: the recipients that were passed on
  items,      \* items[m]: pieces and End, sent and not yet received
  result,     \* result[m]: what Deliver answered: none, ok, err
  (* AEM-Deliver *)
  work,       \* receive, store
  src,        \* the pieces received
  todo,       \* what is still to be stored
  parent,     \* parentId, 0 for none
  whole,      \* the body has all its variants
  status,     \* deliveryStatus is OK
  restarts,
  (* AEM-Storage, and what the client was told *)
  mailbox,    \* mailbox[r]: what was stored for the owner of r
  named,      \* <<recipient, reply>> since the transaction began
  asked,      \* asked[m]: named when m's DATA came
  reply       \* reply[m]: none, 250, 451

envelope == <<from, to, named>>
local    == <<secure, rounds, count>>
session  == <<stage, envelope, local, at, line>>
streams  == <<queue, meta, items, result>>
deliver  == <<work, src, todo, parent, whole, status, restarts>>
record   == <<asked, reply>>
vars     == <<session, streams, deliver, mailbox, record>>

Piece == 0 .. BodyLen     \* 0: what is left of the final dot
End   == BodyLen + 1      \* SIZE_MAX in place of a length
Job   == [r : Rcpt, part : {"text", "attachment", "original"}]

TypeOK ==
  /\ stage \in {"idle", "helo", "tls", "command", "body", "end", "wait"}
  /\ secure \in BOOLEAN /\ from \in BOOLEAN /\ line \in BOOLEAN
  /\ to \in Seq(Rcpt) /\ Len(to) < MaxTo
  /\ rounds \in 0 .. MaxRounds + 1
  /\ count \in 0 .. MaxMail /\ at \in 0 .. BodyLen
  /\ \A m \in Mail : items[m] \in Seq(0 .. End)
  /\ queue \in Seq(Mail)
  /\ src \in Seq(Piece) /\ Len(src) <= MaxBody
  /\ todo \in Seq(Seq(Job))
  /\ \A r \in Rcpt : \A i \in DOMAIN mailbox[r] : mailbox[r][i].parent \in 0 .. i
  /\ restarts \in 0 .. MaxRestart

Init ==
  /\ stage = "idle" /\ secure = FALSE /\ from = FALSE /\ to = <<>>
  /\ rounds = 0 /\ count = 0 /\ at = 0 /\ line = FALSE /\ named = {}
  /\ queue = <<>>
  /\ meta = [m \in Mail |-> <<>>]
  /\ items = [m \in Mail |-> <<>>]
  /\ result = [m \in Mail |-> "none"]
  /\ work = "receive" /\ src = <<>> /\ todo = <<>> /\ parent = 0
  /\ whole = TRUE /\ status = TRUE
  /\ restarts = 0
  /\ mailbox = [r \in Rcpt |-> <<>>]
  /\ asked = [m \in Mail |-> {}]
  /\ reply = [m \in Mail |-> "none"]

-----------------------------------------------------------------------------
(* AEM-MTA.  At any time the client may go away, or say nothing until the  *)
(* time limit of the socket.                                               *)

Elsewhere == UNCHANGED <<streams, deliver, mailbox, record>>

NoEnvelope == from' = FALSE /\ to' = <<>> /\ named' = {}

(* email and meta are empty when a session begins. *)
Greet ==
  /\ stage = "idle"
  /\ count < MaxMail
  /\ stage' = "helo"
  /\ NoEnvelope /\ secure' = FALSE /\ rounds' = 0
  /\ UNCHANGED <<count, at, line>>
  /\ Elsewhere

(* HELO or EHLO; then STARTTLS with another one, or at once a command. *)
Helo ==
  /\ stage = "helo"
  /\ stage' = "tls"
  /\ UNCHANGED <<envelope, local, at, line>>
  /\ Elsewhere

StartTls ==
  /\ stage = "tls"
  /\ stage' = "command"
  /\ secure' \in BOOLEAN
  /\ UNCHANGED <<from, to, rounds, count, at, line, named>>
  /\ Elsewhere

(* QUIT, a connection that ends, a time limit, too many rounds. *)
Leave ==
  /\ stage \in {"helo", "tls", "command"}
  /\ stage' = "idle"
  /\ UNCHANGED <<envelope, local, at, line>>
  /\ Elsewhere

Command ==
  /\ stage = "command"
  /\ rounds <= MaxRounds
  /\ rounds' = rounds + 1
  /\ UNCHANGED <<secure, at>>

MailFrom ==
  /\ Command
  /\ from' = TRUE
  /\ UNCHANGED <<stage, to, count, line, named>>
  /\ Elsewhere

(* smtp_addr_our, getUid: an address of nobody is taken for one that       *)
(* exists, unless it is a Shield address; AEM-Account may not answer.      *)
RcptCodes(r) ==
  {"451"} \cup {CASE r \in NoUser -> "550"
                  [] r \in Known /\ "secure" \in Flag[r] /\ ~secure -> "450"
                  [] OTHER -> "250"}

(* One that needs TLS 1.3 is refused and counted. *)
RcptTo(r) ==
  \E c \in RcptCodes(r) :
    /\ Command
    /\ from
    /\ Len(to) < MaxTo - 1
    /\ to' = IF c \in {"250", "450"} THEN Append(to, r) ELSE to
    /\ named' = named \cup {<<r, c>>}
    /\ UNCHANGED <<stage, from, count, line>>
    /\ Elsewhere

(* A slip, and the code: *)
RsetSenderOnly ==
  /\ Command
  /\ from' = FALSE /\ named' = {}
  /\ UNCHANGED <<stage, to, count, line>>
  /\ Elsewhere

Rset ==
  /\ Command
  /\ NoEnvelope
  /\ UNCHANGED <<stage, count, line>>
  /\ Elsewhere

(* VRFY, NOOP, what is unsupported or out of order, too many recipients. *)
Other ==
  /\ Command
  /\ UNCHANGED <<stage, from, to, count, line, named>>
  /\ Elsewhere

(* DATA: the recipients go to AEM-Deliver first. *)
Data ==
  /\ Command
  /\ from /\ to # <<>>
  /\ count < MaxMail
  /\ count' = count + 1
  /\ asked' = [asked EXCEPT ![count'] = named]
  /\ meta' = [meta EXCEPT ![count'] = to]
  /\ queue' = Append(queue, count')
  /\ line' = TRUE
  /\ stage' = "body"
  /\ UNCHANGED <<envelope, items, result, reply, deliver, mailbox>>

(* AEM-Deliver does not answer: 451, and the session ends. *)
DataFails ==
  /\ stage = "command"
  /\ from /\ to # <<>>
  /\ stage' = "idle"
  /\ UNCHANGED <<envelope, local, at, line>>
  /\ Elsewhere

(* intcom_stream_send: what cannot be sent closes the stream.  The result  *)
(* is not looked at while the body is received.                            *)
Send(m, s) ==
  LET open == line /\ Contains(queue, m)
  IN  /\ line' = open
      /\ items' = [items EXCEPT ![m] = IF open THEN @ \o s ELSE @]

(* Another piece.  After MaxBody no more are read. *)
ReceivePiece ==
  /\ stage = "body"
  /\ at < BodyLen
  /\ at' = at + 1
  /\ Send(count, <<at'>>)
  /\ stage' = IF at' = MaxBody THEN "end" ELSE "body"
  /\ UNCHANGED <<envelope, local, queue, meta, result, deliver, mailbox, record>>

(* The final dot, after what is left before it. *)
FinalDot ==
  /\ stage = "body"
  /\ at >= BodyLen - 1
  /\ at' = BodyLen
  /\ Send(count, IF at = BodyLen THEN <<>> ELSE <<BodyLen>>)
  /\ stage' = "end"
  /\ UNCHANGED <<envelope, local, queue, meta, result, deliver, mailbox, record>>

(* One that comes in two pieces is not seen, and passed on: only the time  *)
(* limit ends the body.                                                    *)
SplitDot ==
  /\ stage = "body"
  /\ at = BodyLen
  /\ Send(count, <<0>>)
  /\ stage' = "end"
  /\ UNCHANGED <<envelope, local, at, queue, meta, result, deliver, mailbox, record>>

(* The client is gone, or has been silent for too long. *)
BodyStops ==
  /\ stage = "body"
  /\ stage' = "end"
  /\ UNCHANGED <<envelope, local, at, line>>
  /\ Elsewhere

(* intcom_stream_end: the answer of AEM-Deliver has no time limit. *)
Finish ==
  /\ stage = "end"
  /\ line
  /\ Contains(queue, count)
  /\ Send(count, <<End>>)
  /\ stage' = "wait"
  /\ UNCHANGED <<envelope, local, at, queue, meta, result, deliver, mailbox, record>>

Verdict == IF stage = "wait" /\ result[count] = "ok" THEN "250" ELSE "451"

(* What to tell the client; email and meta are emptied.  A stream that was *)
(* closed before its end could be sent has no result.  A slip, and the code: *)
AnswerWithResult ==
  /\ \/ stage = "end" /\ ~(line /\ Contains(queue, count))
     \/ stage = "wait" /\ result[count] # "none"
  /\ reply' = [reply EXCEPT ![count] = Verdict]
  /\ stage' \in {"command", "idle"}
  /\ NoEnvelope /\ line' = FALSE /\ at' = 0
  /\ UNCHANGED <<local, asked, streams, deliver, mailbox>>

Answer ==
  /\ \/ stage = "end" /\ ~(line /\ Contains(queue, count))
     \/ stage = "wait" /\ ~Contains(queue, count)
  /\ reply' = [reply EXCEPT ![count] = Verdict]
  /\ stage' \in {"command", "idle"}
  /\ NoEnvelope /\ line' = FALSE /\ at' = 0
  /\ UNCHANGED <<local, asked, streams, deliver, mailbox>>

MtaRestart ==
  /\ stage # "idle"
  /\ stage' = "idle"
  /\ line' = FALSE /\ at' = 0
  /\ UNCHANGED <<envelope, local>>
  /\ Elsewhere

-----------------------------------------------------------------------------
(* AEM-Deliver. *)

Serving == queue # <<>>
Served  == Head(queue)

(* storeMessage: for each recipient with an account what is to be stored,  *)
(* one call to AEM-Storage each.                                           *)
Jobs(r) ==
  IF r \notin Known THEN <<>>
  ELSE << [r |-> r, part |-> "text"] >>
       \o (IF "attach" \in Flag[r]
             THEN [i \in 1 .. Attach |-> [r |-> r, part |-> "attachment"]] ELSE <<>>)
       \o (IF "origin" \in Flag[r] THEN << [r |-> r, part |-> "original"] >> ELSE <<>>)

Work(rs) == [i \in DOMAIN rs |-> Jobs(rs[i])]

Idle == work' = "receive" /\ src' = <<>> /\ todo' = <<>> /\ parent' = 0
        /\ whole' = TRUE /\ status' = TRUE

(* The end of what the client sends, whatever ended it.  An empty body is  *)
(* not delivered and has no result.                                        *)
Received ==
  IF src = <<>>
    THEN Idle /\ queue' = Tail(queue)
    ELSE /\ work' = "store"
         /\ todo' = Work(meta[Served])
         /\ UNCHANGED <<queue, src, parent, whole, status>>

(* src begins with a line feed, so the piece that would make up MaxBody is *)
(* too much.                                                               *)
Fits(x) == x = 0 \/ Len(src) + 1 < MaxBody

Receive ==
  LET s == items[Served]
  IN  /\ work = "receive" /\ Serving
      /\ s # <<>>
      /\ \/ /\ Head(s) \in Piece /\ Fits(Head(s))
            /\ src' = Append(src, Head(s))
            /\ items' = [items EXCEPT ![Served] = Tail(s)]
            /\ UNCHANGED <<queue, work, todo, parent, whole, status>>
         \/ /\ Head(s) \in Piece /\ ~Fits(Head(s))
            /\ Received
            /\ UNCHANGED items
         \/ /\ Head(s) = End
            /\ Received
            /\ items' = [items EXCEPT ![Served] = Tail(s)]
      /\ UNCHANGED <<session, meta, result, restarts, mailbox, record>>

(* AEM-MTA closed the stream before its end. *)
Closed ==
  /\ work = "receive" /\ Serving
  /\ items[Served] = <<>>
  /\ ~(line /\ count = Served)
  /\ Received
  /\ UNCHANGED <<session, meta, items, result, restarts, mailbox, record>>

(* One call to AEM-Storage.  Its answer has the id of the new envelope.    *)
(* makeExtMsg takes all variants of the body but one away when the address *)
(* does not want them.                                                     *)
Entry(j) == [mail |-> Served, part |-> j.part, body |-> src,
             parent |-> IF j.part = "text" THEN 0 ELSE parent,
             whole |-> whole /\ (j.part = "text" => "allver" \in Flag[j.r])]

Stored(j, o) ==
  mailbox' = IF o = "failed" THEN mailbox
             ELSE [mailbox EXCEPT ![j.r] = Append(@, Entry(j))]

Storing == work = "store" /\ todo # <<>> /\ Head(todo) # <<>>

Taken ==
  /\ todo' = IF Len(Head(todo)) = 1 THEN Tail(todo)
             ELSE [todo EXCEPT ![1] = Tail(@)]
  /\ UNCHANGED <<session, streams, work, src, restarts, record>>

Strip(j) == whole' = (whole /\ "allver" \in Flag[j.r])

(* Slips, and the code: *)
StatusOfLast ==
  \E o \in Outcome : LET j == Head(Head(todo)) IN
    /\ Storing /\ j.part = "text"
    /\ Stored(j, o) /\ Taken /\ Strip(j)
    /\ parent' = IF o = "done" THEN Len(mailbox[j.r]) + 1 ELSE 0
    /\ status' = (o = "done")

ParentKept ==
  \E o \in Outcome : LET j == Head(Head(todo)) IN
    /\ Storing /\ j.part = "text"
    /\ Stored(j, o) /\ Taken /\ Strip(j)
    /\ parent' = IF o = "done" THEN Len(mailbox[j.r]) + 1 ELSE parent
    /\ status' = (status /\ o = "done")

StoreText ==
  \E o \in Outcome : LET j == Head(Head(todo)) IN
    /\ Storing /\ j.part = "text"
    /\ Stored(j, o) /\ Taken /\ Strip(j)
    /\ parent' = IF o = "done" THEN Len(mailbox[j.r]) + 1 ELSE 0
    /\ status' = (status /\ o = "done")

(* makeExtMsg fails: nothing of this recipient's is stored. *)
NoMessage ==
  /\ Storing /\ Head(Head(todo)).part = "text"
  /\ "failed" \in Outcome
  /\ Strip(Head(Head(todo)))
  /\ todo' = Tail(todo)
  /\ status' = FALSE
  /\ UNCHANGED <<session, streams, work, src, parent, restarts, mailbox, record>>

(* A failure to store the original is ignored. *)
StoreOther ==
  \E o \in Outcome : LET j == Head(Head(todo)) IN
    /\ Storing /\ j.part # "text"
    /\ Stored(j, o) /\ Taken
    /\ status' = (status /\ (j.part = "attachment" => o = "done"))
    /\ UNCHANGED <<parent, whole>>

(* Nothing is stored for a recipient without an account. *)
NextRecipient ==
  /\ work = "store" /\ todo # <<>> /\ Head(todo) = <<>>
  /\ todo' = Tail(todo)
  /\ UNCHANGED <<session, streams, work, src, parent, whole, status, restarts, mailbox, record>>

Delivered ==
  /\ work = "store" /\ todo = <<>>
  /\ result' = [result EXCEPT ![Served] = IF status THEN "ok" ELSE "err"]
  /\ queue' = Tail(queue)
  /\ Idle
  /\ UNCHANGED <<session, meta, items, restarts, mailbox, record>>

DeliverRestart ==
  /\ restarts < MaxRestart
  /\ restarts' = restarts + 1
  /\ queue' = <<>>
  /\ Idle
  /\ UNCHANGED <<session, meta, items, result, mailbox, record>>

-----------------------------------------------------------------------------

Client ==
  \/ Greet \/ Helo \/ StartTls \/ MailFrom \/ Rset \/ Other
  \/ \E r \in Rcpt : RcptTo(r)
  \/ Data \/ DataFails
  \/ ReceivePiece \/ FinalDot \/ SplitDot

Limit == Leave \/ BodyStops

Mta == Finish \/ Answer

Deliver == Receive \/ Closed \/ StoreText \/ NoMessage \/ StoreOther \/ NextRecipient \/ Delivered

Next == Client \/ Limit \/ Mta \/ MtaRestart \/ Deliver \/ DeliverRestart

Spec == Init /\ [][Next]_vars

(* Each socket towards a client has a time limit, and so has each call to  *)
(* AEM-Storage; of the client nothing is assumed.                          *)
FairSpec == Spec /\ WF_vars(Limit) /\ WF_vars(Mta) /\ WF_vars(Deliver)

-----------------------------------------------------------------------------
(* Properties. *)

Has(r, m, part) ==
  \E i \in DOMAIN mailbox[r] : mailbox[r][i].mail = m /\ mailbox[r][i].part = part

(* respondClient, RSET and DATA: mail gets only to those who were named    *)
(* for it, whatever other mail the session had before.                     *)
OnlyForNamed ==
  \A r \in Rcpt, m \in Mail : Has(r, m, "text") => \E c \in Code : <<r, c>> \in asked[m]

(* storeMessage: mail that was answered with 250 is in the mailbox of      *)
(* every recipient who has one, with the attachments if the address wants  *)
(* them.                                                                   *)
SuccessIsStored ==
  \A m \in Mail : reply[m] = "250" =>
    \A r \in Known : <<r, "250">> \in asked[m] =>
      /\ Has(r, m, "text")
      /\ "attach" \in Flag[r] /\ Attach > 0 => Has(r, m, "attachment")

(* storeMessage: an attachment and an original refer to the message they   *)
(* came with, or to none.                                                  *)
ParentIsText ==
  \A r \in Rcpt : \A i \in DOMAIN mailbox[r] :
    LET e == mailbox[r][i]
    IN  e.parent # 0 =>
          /\ e.parent < i
          /\ mailbox[r][e.parent].mail = e.mail
          /\ mailbox[r][e.parent].part = "text"

(* A session comes to an end, whatever the client does and does not do.    *)
SessionEnds == (stage # "idle") ~> (stage = "idle")

(* "Message delivered": all of it. *)
DeliveredWhole ==
  \A m \in Mail : reply[m] = "250" =>
    \A r \in Rcpt : \A i \in DOMAIN mailbox[r] :
      mailbox[r][i].mail = m => mailbox[r][i].body = [k \in 1 .. BodyLen |-> k]

(* "Message too big": mail of which MaxBody was read and more is to come   *)
(* is not accepted.                                                        *)
BigIsRefused ==
  [][at = MaxBody /\ at < BodyLen => reply'[count] # "250"]_vars

(* A recipient who was refused does not get the mail. *)
RefusedGetsNone ==
  \A r \in Rcpt, m \in Mail : Has(r, m, "text") => <<r, "250">> \in asked[m]

(* An address that wants all variants of the body gets them, whoever else  *)
(* the mail is for.                                                        *)
VariantsKept ==
  \A r \in Rcpt : \A i \in DOMAIN mailbox[r] :
    mailbox[r][i].part = "text" /\ "allver" \in Flag[r] => mailbox[r][i].whole
=============================================================================
