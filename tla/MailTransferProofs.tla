------------------------- MODULE MailTransferProofs -------------------------
(***************************************************************************)
(* Who gets what, for every number of mails, recipients and pieces, every  *)
(* order of commands, failing calls and restarts; and that AEM-Deliver     *)
(* takes each part of a mail once.                                         *)
(***************************************************************************)
EXTENDS MailTransfer, Mime, SequenceLemmas, SequenceTheorems, FiniteSetTheorems, TLAPS

Part     == {"text", "attachment", "original"}
Envelope == [mail : Mail, part : Part, body : Seq(Piece), parent : Nat, whole : BOOLEAN]

(* The types of what the properties are about. *)
Types ==
  /\ to \in Seq(Rcpt)
  /\ count \in 0 .. MaxMail
  /\ asked \in [Mail -> SUBSET (Rcpt \X Code)]
  /\ named \in SUBSET (Rcpt \X Code)
  /\ meta \in [Mail -> Seq(Rcpt)]
  /\ queue \in Seq(Mail)
  /\ work \in {"receive", "store"}
  /\ src \in Seq(Piece)
  /\ todo \in Seq(Seq(Job))
  /\ parent \in Nat /\ whole \in BOOLEAN
  /\ mailbox \in [Rcpt -> Seq(Envelope)]

(* What Deliver stores for is what it serves. *)
Busy ==
  /\ work = "store" => queue # <<>>
  /\ work = "receive" => todo = <<>>

Ask(r, m) == \E c \in Code : <<r, c>> \in asked[m]

(* From the command to the mailbox: each place holds only recipients who   *)
(* were named for the mail.                                                *)
Named ==
  /\ \A i \in DOMAIN to : \E c \in Code : <<to[i], c>> \in named
  /\ \A m \in Mail : m <= count => \A i \in DOMAIN meta[m] : Ask(meta[m][i], m)
  /\ \A i \in DOMAIN queue : queue[i] <= count
  /\ \A i \in DOMAIN todo : \A k \in DOMAIN todo[i] : Ask(todo[i][k].r, Head(queue))
  /\ \A r \in Rcpt : \A i \in DOMAIN mailbox[r] :
       mailbox[r][i].mail <= count /\ Ask(r, mailbox[r][i].mail)

(* The jobs of one recipient begin with the message; parentId is that of   *)
(* the message of the recipient at hand.                                   *)
Order ==
  \A i \in DOMAIN todo : \A k \in DOMAIN todo[i] :
    /\ todo[i][k].r = todo[i][1].r
    /\ k > 1 => todo[i][k].part # "text"
    /\ i > 1 /\ k = 1 => todo[i][k].part = "text"

IsText(r, i, m) ==
  i \in DOMAIN mailbox[r] /\ mailbox[r][i].mail = m /\ mailbox[r][i].part = "text"

ParentAtHand ==
  todo # <<>> /\ Head(todo) # <<>> /\ Head(Head(todo)).part # "text" /\ parent # 0
    => IsText(Head(Head(todo)).r, parent, Head(queue))

Inv == Types /\ Busy /\ Named /\ Order /\ ParentAtHand /\ ParentIsText

-----------------------------------------------------------------------------
(* Sequences. *)

LEMMA HeadTail ==
  ASSUME NEW S, NEW s \in Seq(S), s # <<>>
  PROVE  /\ Head(s) = s[1] /\ Head(s) \in S /\ 1 \in DOMAIN s
         /\ Tail(s) \in Seq(S)
         /\ Len(Tail(s)) = Len(s) - 1 /\ Len(s) \in Nat \ {0}
         /\ \A i \in DOMAIN Tail(s) : i \in Nat \ {0} /\ i + 1 \in DOMAIN s /\ Tail(s)[i] = s[i + 1]
  OBVIOUS

LEMMA AppendOne ==
  ASSUME NEW S, NEW s \in Seq(S), NEW e \in S
  PROVE  /\ Append(s, e) \in Seq(S)
         /\ Len(Append(s, e)) = Len(s) + 1 /\ Len(s) \in Nat
         /\ Append(s, e)[Len(s) + 1] = e
         /\ \A i \in DOMAIN s : i \in DOMAIN Append(s, e) /\ Append(s, e)[i] = s[i]
         /\ \A i \in DOMAIN Append(s, e) : i \in DOMAIN s \/ i = Len(s) + 1
         /\ s # <<>> => Head(Append(s, e)) = Head(s)
  OBVIOUS

(* storeMessage: what one recipient gets. *)
LEMMA JobsOf ==
  ASSUME NEW r \in Rcpt
  PROVE  /\ Jobs(r) \in Seq(Job)
         /\ \A k \in DOMAIN Jobs(r) : /\ Jobs(r)[k].r = r
                                      /\ Jobs(r)[k].part = "text" <=> k = 1
<1> DEFINE T == << [r |-> r, part |-> "text"] >>
           A == IF "attach" \in Flag[r]
                  THEN [i \in 1 .. Attach |-> [r |-> r, part |-> "attachment"]] ELSE <<>>
           O == IF "origin" \in Flag[r] THEN << [r |-> r, part |-> "original"] >> ELSE <<>>
<1>1. T \in Seq(Job) /\ Len(T) = 1 /\ T[1] = [r |-> r, part |-> "text"]
  BY DEF Job
<1>2. A \in Seq(Job) /\ \A k \in DOMAIN A : A[k] = [r |-> r, part |-> "attachment"]
  <2>1. [r |-> r, part |-> "attachment"] \in Job
    BY DEF Job
  <2>2. Attach \in Nat
    BY MailTransferAssumption
  <2>3. [i \in 1 .. Attach |-> [r |-> r, part |-> "attachment"]] \in Seq(Job)
    BY <2>1, <2>2, IsASeq
  <2> QED
    BY <2>3
<1>3. O \in Seq(Job) /\ \A k \in DOMAIN O : O[k] = [r |-> r, part |-> "original"]
  <2>1. CASE "origin" \in Flag[r]
    <3>1. O = << [r |-> r, part |-> "original"] >>
      BY <2>1
    <3>2. [r |-> r, part |-> "original"] \in Job
      BY DEF Job
    <3> HIDE DEF O
    <3> QED
      BY <3>1, <3>2
  <2>2. CASE "origin" \notin Flag[r]
    BY <2>2
  <2> QED
    BY <2>1, <2>2
<1> HIDE DEF T, A, O
<1>4. /\ T \o A \in Seq(Job) /\ Len(T \o A) = 1 + Len(A) /\ Len(A) \in Nat
      /\ \A k \in 1 .. 1 + Len(A) : (T \o A)[k] = IF k <= 1 THEN T[k] ELSE A[k - 1]
  <2>1. /\ T \o A \in Seq(Job) /\ Len(T \o A) = Len(T) + Len(A)
        /\ \A k \in 1 .. Len(T) + Len(A) : (T \o A)[k] = IF k <= Len(T) THEN T[k] ELSE A[k - Len(T)]
    BY <1>1, <1>2, ConcatProperties
  <2> QED
    BY <1>1, <1>2, <2>1
<1>5. /\ (T \o A) \o O \in Seq(Job)
      /\ Len((T \o A) \o O) = Len(T \o A) + Len(O) /\ Len(O) \in Nat
      /\ \A k \in 1 .. Len(T \o A) + Len(O) :
           ((T \o A) \o O)[k] = IF k <= Len(T \o A) THEN (T \o A)[k] ELSE O[k - Len(T \o A)]
  <2>1. T \o A \in Seq(Job) /\ O \in Seq(Job)
    BY <1>3, <1>4
  <2>2. Len(O) \in Nat
    BY <1>3
  <2> QED
    BY <2>1, <2>2, ConcatProperties
<1>6. CASE r \notin Known
  BY <1>6 DEF Jobs
<1>7. CASE r \in Known
  <2>1. Jobs(r) = (T \o A) \o O
    BY <1>7 DEF Jobs, T, A, O
  <2>2. ASSUME NEW k \in DOMAIN Jobs(r)
        PROVE  Jobs(r)[k].r = r /\ (Jobs(r)[k].part = "text" <=> k = 1)
    <3>1. CASE k = 1
      BY <1>1, <1>4, <1>5, <2>1, <3>1
    <3>2. CASE k > 1 /\ k <= 1 + Len(A)
      <4>1. k - 1 \in DOMAIN A /\ Jobs(r)[k] = A[k - 1]
        BY <1>2, <1>4, <1>5, <2>1, <3>2
      <4> QED
        BY <1>2, <3>2, <4>1
    <3>3. CASE k > 1 + Len(A)
      <4>1. k - Len(T \o A) \in DOMAIN O /\ Jobs(r)[k] = O[k - Len(T \o A)] /\ k # 1
        BY <1>3, <1>4, <1>5, <2>1, <3>3
      <4> QED
        BY <1>3, <4>1
    <3> QED
      BY <1>5, <2>1, <3>1, <3>2, <3>3, SMTT(30)
  <2> QED
    BY <1>5, <2>1, <2>2
<1> QED
  BY <1>6, <1>7

(* The work for a mail with recipients rs. *)
LEMMA WorkOf ==
  ASSUME NEW rs \in Seq(Rcpt)
  PROVE  /\ Work(rs) \in Seq(Seq(Job))
         /\ \A i \in DOMAIN Work(rs) : /\ i \in DOMAIN rs
                                       /\ Work(rs)[i] = Jobs(rs[i])
<1>1. DOMAIN rs = 1 .. Len(rs) /\ Len(rs) \in Nat /\ \A i \in DOMAIN rs : rs[i] \in Rcpt
  OBVIOUS
<1>2. \A i \in 1 .. Len(rs) : Jobs(rs[i]) \in Seq(Job)
  BY <1>1, JobsOf
<1>3. [i \in 1 .. Len(rs) |-> Jobs(rs[i])] \in Seq(Seq(Job))
  BY <1>1, <1>2, IsASeq
<1> QED
  BY <1>1, <1>3 DEF Work

(* One job done: the next of this recipient's, or the next recipient.      *)
LEMMA TodoTaken ==
  ASSUME todo \in Seq(Seq(Job)), Storing, Taken
  PROVE  /\ todo' \in Seq(Seq(Job))
         /\ \/ todo' = Tail(todo)
            \/ /\ Len(todo') = Len(todo)
               /\ Len(todo'[1]) = Len(todo[1]) - 1
               /\ \A k \in DOMAIN todo'[1] : k + 1 \in DOMAIN todo[1] /\ todo'[1][k] = todo[1][k + 1]
               /\ \A i \in DOMAIN todo' : i # 1 => i \in DOMAIN todo /\ todo'[i] = todo[i]
<1>1. todo # <<>> /\ Head(todo) # <<>>
  BY DEF Storing
<1>2. Head(todo) = todo[1] /\ todo[1] \in Seq(Job) /\ 1 \in DOMAIN todo /\ Tail(todo) \in Seq(Seq(Job))
  BY <1>1, HeadTail
<1>3. /\ Tail(todo[1]) \in Seq(Job) /\ Len(Tail(todo[1])) = Len(todo[1]) - 1
      /\ Len(todo[1]) \in Nat \ {0}
      /\ \A k \in DOMAIN Tail(todo[1]) : k + 1 \in DOMAIN todo[1] /\ Tail(todo[1])[k] = todo[1][k + 1]
  BY <1>1, <1>2, HeadTail
<1>4. CASE Len(Head(todo)) = 1
  BY <1>2, <1>4, SMTT(40) DEF Taken
<1>5. CASE Len(Head(todo)) # 1
  <2>1. todo' = [todo EXCEPT ![1] = Tail(todo[1])]
    BY <1>5 DEF Taken
  <2>2. todo' \in Seq(Seq(Job)) /\ Len(todo') = Len(todo) /\ DOMAIN todo' = DOMAIN todo
    BY <1>2, <1>3, <2>1
  <2>3. todo'[1] = Tail(todo[1]) /\ \A i \in DOMAIN todo : i # 1 => todo'[i] = todo[i]
    BY <1>2, <2>1, <2>2
  <2> QED
    BY <1>3, <2>2, <2>3
<1> QED
  BY <1>4, <1>5

-----------------------------------------------------------------------------
(* The steps, as far as the invariant sees them. *)

(* AEM-MTA, but for DATA. *)
MtaQuiet ==
  /\ UNCHANGED <<count, asked, meta, queue, work, src, todo, parent, whole, mailbox>>
  /\ UNCHANGED <<status, result>>
  /\ \/ UNCHANGED <<to, named>>
     \/ NoEnvelope
     \/ \E r \in Rcpt : RcptTo(r)
  /\ UNCHANGED reply \/ reply' = [reply EXCEPT ![count] = Verdict]

(* AEM-Deliver. *)
DeliverStep == UNCHANGED <<to, named, count, asked, meta>>

LEMMA Steps ==
  ASSUME [Next]_vars
  PROVE  \/ MtaQuiet \/ Data
         \/ Receive \/ Closed \/ StoreText \/ NoMessage \/ StoreOther \/ NextRecipient
         \/ Delivered \/ DeliverRestart
<1> USE DEF MtaQuiet, vars, session, envelope, local, streams, deliver, record, Elsewhere
<1>1. CASE Greet
  BY <1>1, Zenon DEF Greet
<1>2. CASE Helo \/ StartTls \/ Leave \/ DataFails \/ BodyStops \/ MtaRestart
  BY <1>2, Zenon DEF Helo, StartTls, Leave, DataFails, BodyStops, MtaRestart
<1>3. CASE MailFrom \/ Other
  BY <1>3, Zenon DEF MailFrom, Other
<1>4. CASE Rset
  BY <1>4, Zenon DEF Rset
<1>5. ASSUME NEW r \in Rcpt, RcptTo(r)
      PROVE  MtaQuiet
  BY <1>5, Zenon DEF RcptTo, Command
<1>6. CASE ReceivePiece \/ FinalDot \/ SplitDot \/ Finish
  BY <1>6, Zenon DEF ReceivePiece, FinalDot, SplitDot, Finish
<1>7. CASE Answer
  BY <1>7, Zenon DEF Answer
<1>8. CASE UNCHANGED vars
  BY <1>8, Zenon
<1>9. CASE Deliver
  BY <1>9 DEF Deliver
<1> QED
  BY <1>1, <1>2, <1>3, <1>4, <1>5, <1>6, <1>7, <1>8, <1>9 DEF Next, Client, Limit, Mta

LEMMA DeliverSteps ==
  ASSUME Receive \/ Closed \/ StoreText \/ NoMessage \/ StoreOther \/ NextRecipient
         \/ Delivered \/ DeliverRestart
  PROVE  DeliverStep
<1> USE DEF DeliverStep, session, envelope, local, streams, record
<1>1. CASE Receive \/ Closed \/ Delivered \/ DeliverRestart
  BY <1>1, Zenon DEF Receive, Closed, Delivered, DeliverRestart
<1>2. CASE StoreText \/ NoMessage \/ StoreOther \/ NextRecipient
  BY <1>2, Zenon DEF StoreText, NoMessage, StoreOther, NextRecipient, Taken
<1> QED
  BY <1>1, <1>2

(* DATA. *)
LEMMA DataStep ==
  ASSUME Types, Data
  PROVE  /\ count' = count + 1 /\ count' \in Mail /\ count \in Nat
         /\ asked' = [asked EXCEPT ![count + 1] = named]
         /\ meta' = [meta EXCEPT ![count + 1] = to]
         /\ queue' = Append(queue, count + 1)
         /\ UNCHANGED <<to, named, work, src, todo, parent, whole, mailbox, status, result, reply>>
<1>1. count \in Nat /\ count < MaxMail /\ MaxMail \in Nat
  BY MailTransferAssumption DEF Types, Data
<1> QED
  BY <1>1 DEF Data, Mail, envelope, deliver

(* A call to AEM-Storage, and what it may add. *)
LEMMA StoreStep ==
  ASSUME Types, StoreText \/ StoreOther
  PROVE  /\ Storing /\ Taken
         /\ Head(Head(todo)) \in Job /\ Head(Head(todo)) = todo[1][1]
         /\ 1 \in DOMAIN todo /\ 1 \in DOMAIN todo[1]
         /\ \/ mailbox' = mailbox
            \/ mailbox' = [mailbox EXCEPT ![Head(Head(todo)).r] = Append(@, Entry(Head(Head(todo))))]
         /\ UNCHANGED <<queue, work, src>>
<1>1. Storing /\ Taken
  BY DEF StoreText, StoreOther
<1>2. todo \in Seq(Seq(Job)) /\ todo # <<>> /\ Head(todo) # <<>>
  BY <1>1 DEF Types, Storing
<1>3. Head(todo) \in Seq(Job) /\ Head(todo) = todo[1] /\ 1 \in DOMAIN todo
  BY <1>2, HeadTail
<1>4. Head(Head(todo)) \in Job /\ Head(Head(todo)) = Head(todo)[1] /\ 1 \in DOMAIN Head(todo)
  BY <1>2, <1>3, HeadTail
<1>5. \E o \in Outcome : Stored(Head(Head(todo)), o)
  BY DEF StoreText, StoreOther
<1>6. \/ mailbox' = mailbox
      \/ mailbox' = [mailbox EXCEPT ![Head(Head(todo)).r] = Append(@, Entry(Head(Head(todo))))]
  BY <1>5 DEF Stored
<1>7. UNCHANGED <<queue, work, src>>
  BY <1>1 DEF Taken, streams
<1> QED
  BY <1>1, <1>3, <1>4, <1>6, <1>7

LEMMA EntryType ==
  ASSUME Types, queue # <<>>, NEW j \in Job
  PROVE  Entry(j) \in Envelope /\ Entry(j).mail = Head(queue) /\ Entry(j).part = j.part
<1>1. Head(queue) \in Mail
  BY HeadTail DEF Types
<1>2. j.part \in Part
  BY DEF Job, Part
<1>3. src \in Seq(Piece) /\ parent \in Nat /\ whole \in BOOLEAN
  BY DEF Types
<1>4. (whole /\ (j.part = "text" => "allver" \in Flag[j.r])) \in BOOLEAN
  OBVIOUS
<1>5. (IF j.part = "text" THEN 0 ELSE parent) \in Nat
  BY <1>3
<1> QED
  BY <1>1, <1>2, <1>3, <1>4, <1>5 DEF Entry, Envelope, Served

(* A piece, the end of an empty body, the end of another one. *)
LEMMA ReceiveStep ==
  ASSUME Types, Receive \/ Closed
  PROVE  /\ work = "receive" /\ queue # <<>> /\ mailbox' = mailbox
         /\ \/ UNCHANGED <<work, todo, parent, whole, queue>> /\ src' \in Seq(Piece)
            \/ Idle /\ queue' = Tail(queue)
            \/ /\ work' = "store" /\ todo' = Work(meta[Head(queue)])
               /\ UNCHANGED <<queue, src, parent, whole>>
<1>1. ASSUME Received
      PROVE  \/ Idle /\ queue' = Tail(queue)
             \/ /\ work' = "store" /\ todo' = Work(meta[Head(queue)])
                /\ UNCHANGED <<queue, src, parent, whole>>
  BY <1>1 DEF Received, Served
<1>2. CASE Receive
  <2>1. CASE Received
    BY <1>1, <1>2, <2>1 DEF Receive, Serving
  <2>2. CASE ~Received
    <3>1. PICK x \in Piece : src' = Append(src, x)
      BY <1>2, <2>2, Zenon DEF Receive
    <3>2. src' \in Seq(Piece)
      BY <3>1, AppendOne DEF Types
    <3>3. UNCHANGED <<work, todo, parent, whole, queue>>
      BY <1>2, <2>2, Zenon DEF Receive
    <3> QED
      BY <1>2, <3>2, <3>3 DEF Receive, Serving
  <2> QED
    BY <2>1, <2>2
<1>3. CASE Closed
  BY <1>1, <1>3 DEF Closed, Serving
<1> QED
  BY <1>2, <1>3

LEMMA EndStep ==
  ASSUME Delivered \/ DeliverRestart
  PROVE  /\ Idle /\ mailbox' = mailbox
         /\ queue' = <<>> \/ (work = "store" /\ queue' = Tail(queue))
  BY DEF Delivered, DeliverRestart

LEMMA SkipStep ==
  ASSUME Types, NoMessage \/ NextRecipient
  PROVE  /\ todo # <<>> /\ todo' = Tail(todo)
         /\ UNCHANGED <<queue, work, src, parent, mailbox>> /\ whole' \in BOOLEAN
<1>1. CASE NoMessage
  <2>1. whole' \in BOOLEAN
    BY <1>1 DEF NoMessage, Strip, Types
  <2> QED
    BY <1>1, <2>1 DEF NoMessage, Storing, streams
<1>2. CASE NextRecipient
  BY <1>2 DEF NextRecipient, streams, Types
<1> QED
  BY <1>1, <1>2

-----------------------------------------------------------------------------
(* The types. *)

LEMMA TypesInit == Init => Types
<1> SUFFICES ASSUME Init PROVE Types
  OBVIOUS
<1>1. 0 \in 0 .. MaxMail
  BY MailTransferAssumption
<1> QED
  BY <1>1 DEF Init, Types

LEMMA TypesMta ==
  ASSUME Types, MtaQuiet
  PROVE  Types'
<1>1. to' \in Seq(Rcpt) /\ named' \in SUBSET (Rcpt \X Code)
  <2>1. CASE UNCHANGED <<to, named>>
    BY <2>1 DEF Types
  <2>2. CASE NoEnvelope
    BY <2>2 DEF NoEnvelope
  <2>3. ASSUME NEW r \in Rcpt, RcptTo(r)
        PROVE  to' \in Seq(Rcpt) /\ named' \in SUBSET (Rcpt \X Code)
    <3>1. PICK c \in RcptCodes(r) : /\ named' = named \cup {<<r, c>>}
                                    /\ to' = Append(to, r) \/ to' = to
      BY <2>3, Zenon DEF RcptTo
    <3>2. c \in Code
      BY DEF RcptCodes, Code
    <3>3. to' \in Seq(Rcpt)
      <4>1. to \in Seq(Rcpt) /\ Append(to, r) \in Seq(Rcpt)
        BY AppendOne DEF Types
      <4>2. to' = Append(to, r) \/ to' = to
        BY <3>1
      <4> QED
        BY <4>1, <4>2, Zenon
    <3>4. named' \subseteq Rcpt \X Code
      BY <3>1, <3>2 DEF Types
    <3> QED
      BY <3>3, <3>4
  <2> QED
    BY <2>1, <2>2, <2>3 DEF MtaQuiet
<1> QED
  BY <1>1 DEF Types, MtaQuiet

LEMMA TypesData ==
  ASSUME Types, Data
  PROVE  Types'
<1>1. /\ count' = count + 1 /\ count' \in Mail
      /\ asked' = [asked EXCEPT ![count + 1] = named]
      /\ meta' = [meta EXCEPT ![count + 1] = to]
      /\ queue' = Append(queue, count + 1)
      /\ UNCHANGED <<to, named, work, src, todo, parent, whole, mailbox>>
  BY DataStep
<1>2. queue' \in Seq(Mail)
  BY <1>1, AppendOne DEF Types
<1>3. count' \in 0 .. MaxMail
  BY <1>1, MailTransferAssumption DEF Mail
<1>4. asked' \in [Mail -> SUBSET (Rcpt \X Code)] /\ meta' \in [Mail -> Seq(Rcpt)]
  BY <1>1 DEF Types
<1> QED
  BY <1>1, <1>2, <1>3, <1>4 DEF Types

LEMMA TypesDeliver ==
  ASSUME Types, Busy, Receive \/ Closed \/ StoreText \/ NoMessage \/ StoreOther
                      \/ NextRecipient \/ Delivered \/ DeliverRestart
  PROVE  Types'
<1>1. UNCHANGED <<to, named, count, asked, meta>>
  BY DeliverSteps DEF DeliverStep
<1>2. SUFFICES /\ queue' \in Seq(Mail) /\ work' \in {"receive", "store"}
               /\ src' \in Seq(Piece) /\ todo' \in Seq(Seq(Job))
               /\ parent' \in Nat /\ whole' \in BOOLEAN
               /\ mailbox' \in [Rcpt -> Seq(Envelope)]
  BY <1>1 DEF Types
<1>3. queue # <<>> => Tail(queue) \in Seq(Mail)
  BY HeadTail DEF Types
<1>4. ASSUME Idle
      PROVE  /\ work' = "receive" /\ src' \in Seq(Piece) /\ todo' \in Seq(Seq(Job))
             /\ parent' \in Nat /\ whole' \in BOOLEAN
  BY <1>4 DEF Idle
<1>5. CASE Receive \/ Closed
  <2>1. queue # <<>> => Work(meta[Head(queue)]) \in Seq(Seq(Job))
    BY HeadTail, WorkOf DEF Types
  <2> QED
    BY <1>3, <1>4, <1>5, <2>1, ReceiveStep DEF Types
<1>6. CASE StoreText \/ StoreOther
  <2>1. /\ Storing /\ Taken
        /\ Head(Head(todo)) \in Job
        /\ \/ mailbox' = mailbox
           \/ mailbox' = [mailbox EXCEPT ![Head(Head(todo)).r] = Append(@, Entry(Head(Head(todo))))]
        /\ UNCHANGED <<queue, work, src>>
    BY <1>6, StoreStep
  <2>2. todo' \in Seq(Seq(Job))
    BY <2>1, TodoTaken DEF Types
  <2>3. Entry(Head(Head(todo))) \in Envelope
    BY <2>1, EntryType DEF Busy, Storing
  <2>4. mailbox' \in [Rcpt -> Seq(Envelope)]
    <3>1. Head(Head(todo)).r \in Rcpt
      BY <2>1 DEF Job
    <3>2. mailbox[Head(Head(todo)).r] \in Seq(Envelope)
      BY <3>1 DEF Types
    <3>3. Append(mailbox[Head(Head(todo)).r], Entry(Head(Head(todo)))) \in Seq(Envelope)
      BY <2>3, <3>2, AppendOne
    <3> QED
      BY <2>1, <3>3 DEF Types
  <2>5. parent' \in Nat /\ whole' \in BOOLEAN
    <3>1. CASE StoreText
      <4>1. Head(Head(todo)).r \in Rcpt
        BY <2>1 DEF Job
      <4>2. Len(mailbox[Head(Head(todo)).r]) + 1 \in Nat
        BY <4>1 DEF Types
      <4> QED
        BY <3>1, <4>2 DEF StoreText, Strip
    <3>2. CASE StoreOther
      BY <3>2 DEF StoreOther, Types
    <3> QED
      BY <1>6, <3>1, <3>2
  <2> QED
    BY <2>1, <2>2, <2>4, <2>5 DEF Types
<1>7. CASE NoMessage \/ NextRecipient
  <2>1. todo # <<>> /\ todo' = Tail(todo) /\ todo \in Seq(Seq(Job))
    BY <1>7, SkipStep DEF Types
  <2>2. todo' \in Seq(Seq(Job))
    BY <2>1, HeadTail
  <2> QED
    BY <1>7, <2>2, SkipStep DEF Types
<1>8. CASE Delivered \/ DeliverRestart
  <2>1. queue' \in Seq(Mail)
    <3>1. queue' = <<>> \/ (work = "store" /\ queue' = Tail(queue))
      BY <1>8, EndStep
    <3>2. queue' = <<>> \/ queue' \in Seq(Mail)
      BY <1>3, <3>1 DEF Busy
    <3>3. <<>> \in Seq(Mail)
      OBVIOUS
    <3> QED
      BY <3>2, <3>3, Zenon
  <2> QED
    BY <1>4, <1>8, <2>1, EndStep DEF Types
<1> QED
  BY <1>5, <1>6, <1>7, <1>8

-----------------------------------------------------------------------------
(* What Deliver stores for is what it serves. *)

LEMMA BusyStep ==
  ASSUME Types, Busy, [Next]_vars
  PROVE  Busy'
<1>1. CASE MtaQuiet
  BY <1>1 DEF MtaQuiet, Busy
<1>2. CASE Data
  <2>1. queue' = Append(queue, count + 1) /\ UNCHANGED <<work, todo>>
    BY <1>2, DataStep
  <2>2. Append(queue, count + 1) # <<>>
    <3>1. queue \in Seq(Mail) /\ count + 1 \in Mail
      BY <1>2, DataStep DEF Types
    <3> QED
      BY <3>1, AppendProperties
  <2> QED
    BY <2>1, <2>2 DEF Busy
<1>3. CASE Receive \/ Closed
  BY <1>3, ReceiveStep DEF Busy, Idle
<1>4. CASE StoreText \/ StoreOther
  BY <1>4, StoreStep DEF Busy, Storing
<1>5. CASE NoMessage \/ NextRecipient
  BY <1>5, SkipStep DEF Busy, Types
<1>6. CASE Delivered \/ DeliverRestart
  BY <1>6, EndStep DEF Idle, Busy
<1> QED
  BY <1>1, <1>2, <1>3, <1>4, <1>5, <1>6, Steps

-----------------------------------------------------------------------------
(* Recipients. *)

LEMMA NamedMta ==
  ASSUME Types, Named, MtaQuiet
  PROVE  Named'
<1>1. UNCHANGED <<count, asked, meta, queue, todo, mailbox>>
  BY DEF MtaQuiet
<1>2. \A i \in DOMAIN to' : \E c \in Code : <<to'[i], c>> \in named'
  <2>1. CASE UNCHANGED <<to, named>>
    BY <2>1 DEF Named
  <2>2. CASE NoEnvelope
    BY <2>2 DEF NoEnvelope
  <2>3. ASSUME NEW r \in Rcpt, RcptTo(r)
        PROVE  \A i \in DOMAIN to' : \E c \in Code : <<to'[i], c>> \in named'
    <3>1. PICK c \in RcptCodes(r) : /\ named' = named \cup {<<r, c>>}
                                    /\ to' = Append(to, r) \/ to' = to
      BY <2>3, Zenon DEF RcptTo
    <3>2. c \in Code
      BY DEF RcptCodes, Code
    <3>3. \A i \in DOMAIN to : \E d \in Code : <<to[i], d>> \in named'
      BY <3>1 DEF Named
    <3>4. CASE to' = to
      BY <3>3, <3>4
    <3>5. CASE to' = Append(to, r)
      <4>1. \A i \in DOMAIN to' : (i \in DOMAIN to /\ to'[i] = to[i]) \/ to'[i] = r
        BY <3>5, AppendOne DEF Types
      <4> QED
        BY <3>1, <3>2, <3>3, <4>1
    <3> QED
      BY <3>1, <3>4, <3>5
  <2> QED
    BY <2>1, <2>2, <2>3 DEF MtaQuiet
<1> QED
  BY <1>1, <1>2 DEF Named, Ask

LEMMA NamedData ==
  ASSUME Types, Busy, Named, Data
  PROVE  Named'
<1>1. /\ count' = count + 1 /\ count' \in Mail /\ count \in Nat
      /\ asked' = [asked EXCEPT ![count + 1] = named]
      /\ meta' = [meta EXCEPT ![count + 1] = to]
      /\ queue' = Append(queue, count + 1)
      /\ UNCHANGED <<to, named, work, src, todo, parent, whole, mailbox>>
  BY DataStep
<1>2. \A m \in Mail : m <= count => asked'[m] = asked[m] /\ meta'[m] = meta[m]
  BY <1>1 DEF Types, Mail
<1>3. asked'[count + 1] = named /\ meta'[count + 1] = to
  BY <1>1 DEF Types
<1>4. \A m \in Mail : m <= count => \A r \in Rcpt : Ask(r, m) => Ask(r, m)'
  BY <1>2 DEF Ask
<1>5. \A i \in DOMAIN to' : \E c \in Code : <<to'[i], c>> \in named'
  BY <1>1 DEF Named
<1>6. \A m \in Mail : m <= count' => \A i \in DOMAIN meta'[m] : Ask(meta[m][i], m)'
  <2> SUFFICES ASSUME NEW m \in Mail, m <= count', NEW i \in DOMAIN meta'[m]
               PROVE  Ask(meta[m][i], m)'
    OBVIOUS
  <2>1. CASE m <= count
    <3>1. meta'[m] = meta[m] /\ asked'[m] = asked[m] /\ Ask(meta[m][i], m)
      BY <1>2, <2>1 DEF Named
    <3> QED
      BY <3>1 DEF Ask
  <2>2. CASE m = count + 1
    BY <1>1, <1>3, <2>2 DEF Named, Ask
  <2> QED
    BY <1>1, <2>1, <2>2 DEF Mail
<1>7. \A i \in DOMAIN queue' : queue'[i] <= count'
  <2>1. \A i \in DOMAIN queue' : (i \in DOMAIN queue /\ queue'[i] = queue[i]) \/ queue'[i] = count + 1
    BY <1>1, AppendOne DEF Types
  <2>2. \A i \in DOMAIN queue : queue[i] \in Mail /\ queue[i] <= count
    BY DEF Types, Named
  <2> QED
    BY <1>1, <2>1, <2>2 DEF Mail
<1>8. \A i \in DOMAIN todo' : \A k \in DOMAIN todo'[i] : Ask(todo[i][k].r, Head(queue))'
  <2> SUFFICES ASSUME NEW i \in DOMAIN todo, NEW k \in DOMAIN todo[i]
               PROVE  Ask(todo[i][k].r, Head(queue))'
    BY <1>1
  <2>1. queue # <<>>
    BY DEF Busy, Types
  <2>2. Head(queue') = Head(queue) /\ Head(queue) \in Mail /\ Head(queue) <= count
    BY <1>1, <2>1, AppendOne, HeadTail DEF Types, Named
  <2>3. todo[i][k] \in Job
    BY DEF Types
  <2>4. Ask(todo[i][k].r, Head(queue))
    BY DEF Named
  <2>5. asked'[Head(queue)] = asked[Head(queue)]
    BY <1>2, <2>2
  <2> QED
    BY <1>1, <2>2, <2>4, <2>5 DEF Ask
<1>9. \A r \in Rcpt : \A i \in DOMAIN mailbox'[r] :
        mailbox'[r][i].mail <= count' /\ Ask(r, mailbox[r][i].mail)'
  <2> SUFFICES ASSUME NEW r \in Rcpt, NEW i \in DOMAIN mailbox[r]
               PROVE  mailbox[r][i].mail <= count' /\ Ask(r, mailbox[r][i].mail)'
    BY <1>1
  <2>1. mailbox[r] \in Seq(Envelope)
    BY DEF Types
  <2>2. mailbox[r][i].mail \in Mail
    <3>1. mailbox[r][i] \in Envelope
      BY <2>1
    <3> QED
      BY <3>1 DEF Envelope
  <2>3. mailbox[r][i].mail <= count /\ Ask(r, mailbox[r][i].mail)
    BY DEF Named
  <2>4. asked'[mailbox[r][i].mail] = asked[mailbox[r][i].mail]
    BY <1>2, <2>2, <2>3
  <2> QED
    BY <1>1, <2>2, <2>3, <2>4, SMTT(30) DEF Ask, Mail
<1> QED
  BY <1>5, <1>6, <1>7, <1>8, <1>9 DEF Named

LEMMA NamedDeliver ==
  ASSUME Types, Busy, Named, Receive \/ Closed \/ StoreText \/ NoMessage \/ StoreOther
                             \/ NextRecipient \/ Delivered \/ DeliverRestart
  PROVE  Named'
<1>1. UNCHANGED <<to, named, count, asked, meta>>
  BY DeliverSteps DEF DeliverStep
<1>2. SUFFICES /\ \A i \in DOMAIN queue' : queue'[i] <= count
               /\ \A i \in DOMAIN todo' : \A k \in DOMAIN todo'[i] : Ask(todo'[i][k].r, Head(queue'))
               /\ \A r \in Rcpt : \A i \in DOMAIN mailbox'[r] :
                    mailbox'[r][i].mail <= count /\ Ask(r, mailbox'[r][i].mail)
  BY <1>1 DEF Named, Ask
<1>3. queue # <<>> => \A i \in DOMAIN Tail(queue) : Tail(queue)[i] <= count
  BY HeadTail DEF Types, Named
<1>4. CASE Receive \/ Closed
  <2>1. mailbox' = mailbox /\ queue # <<>>
    BY <1>4, ReceiveStep
  <2>2. CASE UNCHANGED <<todo, queue>>
    BY <2>1, <2>2 DEF Named
  <2>3. CASE Idle /\ queue' = Tail(queue)
    BY <1>3, <2>1, <2>3 DEF Named, Idle
  <2>4. CASE todo' = Work(meta[Head(queue)]) /\ queue' = queue
    <3>1. Head(queue) \in Mail /\ Head(queue) <= count /\ meta[Head(queue)] \in Seq(Rcpt)
      BY <2>1, HeadTail DEF Types, Named
    <3>2. ASSUME NEW i \in DOMAIN todo', NEW k \in DOMAIN todo'[i]
          PROVE  Ask(todo'[i][k].r, Head(queue'))
      <4>1. i \in DOMAIN meta[Head(queue)] /\ todo'[i] = Jobs(meta[Head(queue)][i])
        BY <2>4, <3>1, <3>2, WorkOf
      <4>2. meta[Head(queue)][i] \in Rcpt
        BY <3>1, <4>1
      <4>3. todo'[i][k].r = meta[Head(queue)][i]
        BY <3>2, <4>1, <4>2, JobsOf
      <4>4. Ask(meta[Head(queue)][i], Head(queue))
        BY <3>1, <4>1 DEF Named
      <4> QED
        BY <2>4, <4>3, <4>4
    <3> QED
      BY <2>1, <2>4, <3>2 DEF Named
  <2> QED
    BY <1>4, <2>2, <2>3, <2>4, ReceiveStep
<1>5. CASE StoreText \/ StoreOther
  <2> DEFINE j == Head(Head(todo))
  <2>1. /\ Storing /\ Taken
        /\ j \in Job /\ j = todo[1][1] /\ 1 \in DOMAIN todo /\ 1 \in DOMAIN todo[1]
        /\ mailbox' = mailbox \/ mailbox' = [mailbox EXCEPT ![j.r] = Append(@, Entry(j))]
        /\ UNCHANGED <<queue, work, src>>
    BY <1>5, StoreStep
  <2> HIDE DEF j
  <2>2. queue # <<>>
    BY <2>1 DEF Storing, Busy
  <2>3. Head(queue) \in Mail /\ Head(queue) <= count
    BY <2>2, HeadTail DEF Types, Named
  <2>4. Ask(j.r, Head(queue)) /\ j.r \in Rcpt
    BY <2>1 DEF Named, Job
  <2>5. ASSUME NEW i \in DOMAIN todo', NEW k \in DOMAIN todo'[i]
        PROVE  Ask(todo'[i][k].r, Head(queue'))
    <3>1. todo \in Seq(Seq(Job)) /\ todo # <<>>
      BY <2>1 DEF Types, Storing
    <3>2. \E x \in DOMAIN todo : \E y \in DOMAIN todo[x] : todo'[i][k] = todo[x][y]
      <4>1. CASE todo' = Tail(todo)
        BY <2>5, <3>1, <4>1, HeadTail
      <4>2. CASE todo' # Tail(todo)
        BY <2>1, <2>5, <3>1, <4>2, TodoTaken
      <4> QED
        BY <4>1, <4>2
    <3> QED
      BY <2>1, <3>2 DEF Named
  <2>6. \A r \in Rcpt : \A i \in DOMAIN mailbox'[r] :
          mailbox'[r][i].mail <= count /\ Ask(r, mailbox'[r][i].mail)
    <3>1. CASE mailbox' = mailbox
      BY <3>1 DEF Named
    <3>2. CASE mailbox' = [mailbox EXCEPT ![j.r] = Append(@, Entry(j))]
      <4>1. Entry(j) \in Envelope /\ Entry(j).mail = Head(queue)
        BY <2>1, <2>2, EntryType
      <4> SUFFICES ASSUME NEW r \in Rcpt, NEW i \in DOMAIN mailbox'[r]
                   PROVE  mailbox'[r][i].mail <= count /\ Ask(r, mailbox'[r][i].mail)
        OBVIOUS
      <4>2. CASE r # j.r
        <5>1. mailbox'[r] = mailbox[r]
          BY <3>2, <4>2 DEF Types
        <5> QED
          BY <5>1 DEF Named
      <4>3. CASE r = j.r
        <5>1. mailbox'[r] = Append(mailbox[r], Entry(j)) /\ mailbox[r] \in Seq(Envelope)
          BY <3>2, <4>3 DEF Types
        <5>2. (i \in DOMAIN mailbox[r] /\ mailbox'[r][i] = mailbox[r][i]) \/ mailbox'[r][i] = Entry(j)
          BY <4>1, <5>1, AppendOne
        <5> QED
          BY <2>3, <2>4, <4>1, <4>3, <5>2 DEF Named
      <4> QED
        BY <4>2, <4>3
    <3> QED
      BY <2>1, <3>1, <3>2
  <2> QED
    BY <2>1, <2>5, <2>6 DEF Named
<1>6. CASE NoMessage \/ NextRecipient
  <2>1. todo # <<>> /\ todo' = Tail(todo) /\ UNCHANGED <<queue, mailbox>>
    BY <1>6, SkipStep
  <2>2. ASSUME NEW i \in DOMAIN todo', NEW k \in DOMAIN todo'[i]
        PROVE  Ask(todo'[i][k].r, Head(queue'))
    <3>1. i + 1 \in DOMAIN todo /\ todo'[i] = todo[i + 1]
      BY <2>1, <2>2, HeadTail DEF Types
    <3> QED
      BY <2>1, <2>2, <3>1 DEF Named
  <2> QED
    BY <2>1, <2>2 DEF Named
<1>7. CASE Delivered \/ DeliverRestart
  <2>1. Idle /\ mailbox' = mailbox /\ (queue' = <<>> \/ (queue # <<>> /\ queue' = Tail(queue)))
    BY <1>7, EndStep DEF Busy
  <2>2. todo' = <<>>
    BY <2>1 DEF Idle
  <2> QED
    BY <1>3, <2>1, <2>2 DEF Named
<1> QED
  BY <1>4, <1>5, <1>6, <1>7

-----------------------------------------------------------------------------
(* Jobs in their order, and what they refer to.                            *)

LEMMA OrderStep ==
  ASSUME Types, Busy, Order, [Next]_vars
  PROVE  Order'
<1>1. CASE UNCHANGED todo
  BY <1>1 DEF Order
<1>2. CASE todo' = <<>>
  BY <1>2 DEF Order
<1>3. CASE todo # <<>> /\ todo' = Tail(todo)
  <2>1. \A i \in DOMAIN todo' : i \in Nat \ {0} /\ i + 1 \in DOMAIN todo /\ todo'[i] = todo[i + 1]
    BY <1>3, HeadTail DEF Types
  <2>2. ASSUME NEW i \in DOMAIN todo', NEW k \in DOMAIN todo'[i]
        PROVE  /\ todo'[i][k].r = todo'[i][1].r
               /\ k > 1 => todo'[i][k].part # "text"
               /\ i > 1 /\ k = 1 => todo'[i][k].part = "text"
    <3>1. i + 1 \in DOMAIN todo /\ todo'[i] = todo[i + 1] /\ (i > 1 => i + 1 > 1)
      BY <2>1, <2>2
    <3> QED
      BY <2>2, <3>1 DEF Order
  <2> QED
    BY <2>2 DEF Order
<1>4. CASE Receive \/ Closed
  <2>1. CASE todo' = Work(meta[Head(queue)])
    <3>1. meta[Head(queue)] \in Seq(Rcpt)
      BY <1>4, ReceiveStep, HeadTail DEF Types
    <3>2. \A i \in DOMAIN todo' : \E r \in Rcpt : todo'[i] = Jobs(r)
      BY <2>1, <3>1, WorkOf
    <3>3. ASSUME NEW i \in DOMAIN todo', NEW k \in DOMAIN todo'[i]
          PROVE  /\ todo'[i][k].r = todo'[i][1].r
                 /\ k > 1 => todo'[i][k].part # "text"
                 /\ i > 1 /\ k = 1 => todo'[i][k].part = "text"
      <4>1. PICK r \in Rcpt : todo'[i] = Jobs(r)
        BY <3>2, <3>3
      <4>2. 1 \in DOMAIN Jobs(r)
        BY <3>3, <4>1, JobsOf
      <4> QED
        BY <3>3, <4>1, <4>2, JobsOf
    <3> QED
      BY <3>3 DEF Order
  <2> QED
    BY <1>1, <1>2, <1>4, <2>1, ReceiveStep DEF Idle
<1>5. CASE StoreText \/ StoreOther
  <2>1. Storing /\ Taken /\ todo \in Seq(Seq(Job)) /\ todo # <<>>
    BY <1>5, StoreStep DEF Types, Storing
  <2>2. CASE todo' # Tail(todo)
    <3>1. /\ \A k \in DOMAIN todo'[1] : k + 1 \in DOMAIN todo[1] /\ todo'[1][k] = todo[1][k + 1]
          /\ \A i \in DOMAIN todo' : i # 1 => i \in DOMAIN todo /\ todo'[i] = todo[i]
          /\ todo' \in Seq(Seq(Job)) /\ 1 \in DOMAIN todo
      BY <2>1, <2>2, TodoTaken, HeadTail
    <3>2. ASSUME NEW i \in DOMAIN todo', NEW k \in DOMAIN todo'[i]
          PROVE  /\ todo'[i][k].r = todo'[i][1].r
                 /\ k > 1 => todo'[i][k].part # "text"
                 /\ i > 1 /\ k = 1 => todo'[i][k].part = "text"
      <4>1. CASE i # 1
        BY <3>1, <3>2, <4>1 DEF Order
      <4>2. CASE i = 1
        <5>1. todo'[1] \in Seq(Job) /\ k \in Nat \ {0} /\ 1 \in DOMAIN todo'[1]
          BY <3>1, <3>2, <4>2
        <5>2. todo'[1][k] = todo[1][k + 1] /\ todo'[1][1] = todo[1][1 + 1]
              /\ k + 1 \in DOMAIN todo[1] /\ 1 + 1 \in DOMAIN todo[1]
          BY <3>1, <3>2, <4>2, <5>1
        <5>3. todo[1][k + 1].r = todo[1][1].r /\ todo[1][1 + 1].r = todo[1][1].r
          BY <3>1, <5>2 DEF Order
        <5>4. k + 1 > 1 /\ ~(i > 1)
          BY <4>2, <5>1
        <5>5. todo[1][k + 1].part # "text"
          BY <3>1, <5>2, <5>4 DEF Order
        <5> QED
          BY <4>2, <5>2, <5>3, <5>4, <5>5
      <4> QED
        BY <4>1, <4>2
    <3> QED
      BY <3>2 DEF Order
  <2> QED
    BY <1>3, <2>1, <2>2
<1>6. CASE NoMessage \/ NextRecipient
  BY <1>3, <1>6, SkipStep
<1>7. CASE Delivered \/ DeliverRestart
  BY <1>2, <1>7, EndStep DEF Idle
<1>8. CASE MtaQuiet \/ Data
  BY <1>1, <1>8, DataStep DEF MtaQuiet
<1> QED
  BY <1>4, <1>5, <1>6, <1>7, <1>8, Steps

(* After the message itself the jobs of the same recipient refer to it.    *)
LEMMA ParentStep ==
  ASSUME Types, Busy, Order, ParentAtHand, ParentIsText, [Next]_vars
  PROVE  ParentAtHand' /\ ParentIsText'
<1>1. CASE UNCHANGED <<todo, parent, mailbox>> /\ (todo # <<>> => Head(queue') = Head(queue))
  BY <1>1 DEF ParentAtHand, ParentIsText, IsText
<1>2. ASSUME todo # <<>>, todo' = Tail(todo)
      PROVE  ParentAtHand'
  <2>1. SUFFICES ASSUME todo' # <<>>, Head(todo') # <<>> PROVE Head(Head(todo')).part = "text"
    BY DEF ParentAtHand
  <2>2. /\ todo' \in Seq(Seq(Job)) /\ 1 \in DOMAIN todo' /\ Head(todo') = todo'[1]
        /\ todo'[1] = todo[2] /\ 2 \in DOMAIN todo
    BY <1>2, <2>1, HeadTail, SMTT(30) DEF Types
  <2>3. Head(Head(todo')) = todo[2][1] /\ 1 \in DOMAIN todo[2]
    BY <2>1, <2>2, HeadTail
  <2> QED
    BY <2>2, <2>3 DEF Order
<1>3. CASE Receive \/ Closed
  <2>1. mailbox' = mailbox
    BY <1>3, ReceiveStep
  <2>2. CASE todo' = <<>>
    BY <2>1, <2>2 DEF ParentAtHand, ParentIsText
  <2>3. CASE todo' = Work(meta[Head(queue)])
    <3>1. meta[Head(queue)] \in Seq(Rcpt)
      BY <1>3, ReceiveStep, HeadTail DEF Types
    <3>2. todo' \in Seq(Seq(Job)) /\ \A i \in DOMAIN todo' : \E r \in Rcpt : todo'[i] = Jobs(r)
      BY <2>3, <3>1, WorkOf
    <3>3. todo' # <<>> /\ Head(todo') # <<>> => Head(Head(todo')).part = "text"
      <4> SUFFICES ASSUME todo' # <<>>, Head(todo') # <<>> PROVE Head(Head(todo')).part = "text"
        OBVIOUS
      <4>1. PICK r \in Rcpt : Head(todo') = Jobs(r)
        BY <3>2, HeadTail
      <4>2. Head(Jobs(r)) = Jobs(r)[1] /\ 1 \in DOMAIN Jobs(r)
        BY <4>1, JobsOf, HeadTail
      <4> QED
        BY <4>1, <4>2, JobsOf
    <3> QED
      BY <2>1, <3>3 DEF ParentAtHand, ParentIsText
  <2>4. CASE UNCHANGED <<todo, parent, queue>>
    BY <1>1, <2>1, <2>4
  <2> QED
    BY <1>3, <2>2, <2>3, <2>4, ReceiveStep DEF Idle
<1>4. CASE StoreText \/ StoreOther
  <2> DEFINE j == Head(Head(todo))
  <2>1. /\ Storing /\ Taken
        /\ j \in Job /\ j = todo[1][1] /\ 1 \in DOMAIN todo /\ 1 \in DOMAIN todo[1]
        /\ mailbox' = mailbox \/ mailbox' = [mailbox EXCEPT ![j.r] = Append(@, Entry(j))]
        /\ UNCHANGED <<queue, work, src>>
    BY <1>4, StoreStep
  <2>2. todo # <<>> /\ queue # <<>> /\ Head(todo) # <<>> /\ j.r \in Rcpt
    BY <2>1 DEF Storing, Busy, Job
  <2>3. Entry(j) \in Envelope /\ Entry(j).mail = Head(queue) /\ Entry(j).part = j.part
    BY <2>1, <2>2, EntryType
  <2>4. mailbox[j.r] \in Seq(Envelope)
    BY <2>2 DEF Types
  <2>5. Entry(j).parent # 0 => j.part # "text" /\ Entry(j).parent = parent
    BY DEF Entry
  <2>6. /\ StoreText => /\ j.part = "text"
                        /\ \/ parent' = 0
                           \/ /\ parent' = Len(mailbox[j.r]) + 1
                              /\ mailbox' = [mailbox EXCEPT ![j.r] = Append(@, Entry(j))]
        /\ StoreOther => parent' = parent
    BY DEF StoreText, StoreOther, Stored, j
  <2>7. j.part # "text" /\ parent # 0 => IsText(j.r, parent, Head(queue))
    BY <2>2 DEF ParentAtHand, j
  <2> HIDE DEF j
  <2>8. ASSUME NEW r \in Rcpt, NEW i \in DOMAIN mailbox[r]
        PROVE  i \in DOMAIN mailbox'[r] /\ mailbox'[r][i] = mailbox[r][i]
    <3>1. CASE mailbox' = mailbox \/ r # j.r
      BY <2>1, <2>8, <3>1 DEF Types
    <3>2. CASE mailbox' = [mailbox EXCEPT ![j.r] = Append(@, Entry(j))] /\ r = j.r
      <4>1. mailbox'[r] = Append(mailbox[r], Entry(j))
        BY <3>2 DEF Types
      <4> QED
        BY <2>3, <2>4, <2>8, <3>2, <4>1, AppendOne
    <3> QED
      BY <2>1, <3>1, <3>2
  <2>9. ParentIsText'
    <3> SUFFICES ASSUME NEW r \in Rcpt, NEW i \in DOMAIN mailbox'[r], mailbox'[r][i].parent # 0
                 PROVE  /\ mailbox'[r][i].parent < i
                        /\ mailbox'[r][mailbox'[r][i].parent].mail = mailbox'[r][i].mail
                        /\ mailbox'[r][mailbox'[r][i].parent].part = "text"
      BY DEF ParentIsText
    <3>1. CASE i \in DOMAIN mailbox[r] /\ mailbox'[r][i] = mailbox[r][i]
      <4> DEFINE e == mailbox[r][i]
      <4>1. e.parent < i /\ mailbox[r][e.parent].mail = e.mail /\ mailbox[r][e.parent].part = "text"
        BY <3>1 DEF ParentIsText
      <4>2. e.parent \in DOMAIN mailbox[r]
        <5>1. mailbox[r] \in Seq(Envelope)
          BY DEF Types
        <5>2. e \in Envelope
          BY <3>1, <5>1
        <5>3. e.parent \in Nat /\ e.parent # 0
          BY <3>1, <5>2 DEF Envelope
        <5> QED
          BY <3>1, <4>1, <5>1, <5>3
      <4>3. mailbox'[r][e.parent] = mailbox[r][e.parent]
        BY <2>8, <4>2
      <4> QED
        BY <3>1, <4>1, <4>3
    <3>2. CASE r = j.r /\ i = Len(mailbox[r]) + 1 /\ mailbox'[r][i] = Entry(j)
      <4>1. j.part # "text" /\ parent # 0 /\ Entry(j).parent = parent
        BY <2>5, <3>2
      <4>2. IsText(r, parent, Head(queue))
        BY <2>7, <3>2, <4>1
      <4>3. parent \in DOMAIN mailbox[r] /\ mailbox'[r][parent] = mailbox[r][parent]
        BY <2>8, <4>2 DEF IsText
      <4>4. parent < i
        BY <2>4, <3>2, <4>3
      <4> QED
        BY <2>3, <3>2, <4>1, <4>2, <4>3, <4>4 DEF IsText
    <3>3. \/ i \in DOMAIN mailbox[r] /\ mailbox'[r][i] = mailbox[r][i]
          \/ r = j.r /\ i = Len(mailbox[r]) + 1 /\ mailbox'[r][i] = Entry(j)
      <4>1. CASE mailbox' = mailbox
        BY <4>1
      <4>2. CASE mailbox' = [mailbox EXCEPT ![j.r] = Append(@, Entry(j))] /\ r # j.r
        BY <4>2 DEF Types
      <4>3. CASE mailbox' = [mailbox EXCEPT ![j.r] = Append(@, Entry(j))] /\ r = j.r
        <5>1. mailbox'[r] = Append(mailbox[r], Entry(j))
          BY <4>3 DEF Types
        <5> QED
          BY <2>3, <2>4, <4>3, <5>1, AppendOne
      <4> QED
        BY <2>1, <4>1, <4>2, <4>3
    <3> QED
      BY <3>1, <3>2, <3>3
  <2>10. ParentAtHand'
    <3>1. CASE todo' = Tail(todo)
      BY <1>2, <2>2, <3>1
    <3>2. CASE todo' # Tail(todo)
      <4>1. todo \in Seq(Seq(Job))
        BY DEF Types
      <4>2. /\ \A k \in DOMAIN todo'[1] : k + 1 \in DOMAIN todo[1] /\ todo'[1][k] = todo[1][k + 1]
            /\ todo' \in Seq(Seq(Job)) /\ Len(todo') = Len(todo)
        BY <2>1, <3>2, <4>1, TodoTaken
      <4> SUFFICES ASSUME todo' # <<>>, Head(todo') # <<>>, parent' # 0
                   PROVE  IsText(Head(Head(todo)).r, parent, Head(queue))'
        BY DEF ParentAtHand
      <4>3. Head(Head(todo')) = todo'[1][1] /\ 1 \in DOMAIN todo'[1]
        BY <4>2, HeadTail
      <4>4. 1 + 1 \in DOMAIN todo[1] /\ todo'[1][1] = todo[1][1 + 1]
        BY <4>2, <4>3
      <4>5. Head(Head(todo')).r = j.r
        BY <2>1, <4>3, <4>4 DEF Order
      <4>6. CASE StoreText
        <5>1. /\ parent' = Len(mailbox[j.r]) + 1 /\ j.part = "text"
              /\ mailbox' = [mailbox EXCEPT ![j.r] = Append(@, Entry(j))]
          BY <2>6, <4>6
        <5>2. mailbox'[j.r] = Append(mailbox[j.r], Entry(j))
          BY <2>2, <5>1 DEF Types
        <5>3. mailbox'[j.r][parent'] = Entry(j) /\ parent' \in DOMAIN mailbox'[j.r]
          BY <2>3, <2>4, <5>1, <5>2, AppendOne
        <5> QED
          BY <2>1, <2>3, <4>5, <5>1, <5>3 DEF IsText
      <4>7. CASE StoreOther
        <5>1. j.part # "text" /\ parent' = parent
          BY <2>6, <4>7 DEF StoreOther, j
        <5>2. IsText(j.r, parent, Head(queue))
          BY <2>7, <5>1
        <5> QED
          BY <2>1, <2>2, <2>8, <4>5, <5>1, <5>2 DEF IsText
      <4> QED
        BY <1>4, <4>6, <4>7
    <3> QED
      BY <3>1, <3>2
  <2> QED
    BY <2>9, <2>10
<1>5. CASE NoMessage \/ NextRecipient
  <2>1. todo # <<>> /\ todo' = Tail(todo) /\ mailbox' = mailbox
    BY <1>5, SkipStep
  <2> QED
    BY <1>2, <2>1 DEF ParentIsText
<1>6. CASE Delivered \/ DeliverRestart
  BY <1>6, EndStep, ZenonT(60) DEF Idle, ParentAtHand, ParentIsText
<1>7. CASE MtaQuiet
  BY <1>1, <1>7 DEF MtaQuiet
<1>8. CASE Data
  <2>1. UNCHANGED <<todo, parent, mailbox>> /\ queue' = Append(queue, count + 1)
    BY <1>8, DataStep
  <2>2. count + 1 \in Mail
    BY <1>8, DataStep
  <2>3. todo # <<>> => queue # <<>>
    BY DEF Busy, Types
  <2>4. todo # <<>> => Head(queue') = Head(queue)
    BY <2>1, <2>2, <2>3, AppendOne DEF Types
  <2> QED
    BY <1>1, <2>1, <2>4
<1> QED
  BY <1>3, <1>4, <1>5, <1>6, <1>7, <1>8, Steps

-----------------------------------------------------------------------------
(* Theorems. *)

LEMMA InvInit == Init => Inv
<1> SUFFICES ASSUME Init PROVE Inv
  OBVIOUS
<1>1. Types
  BY TypesInit
<1>2. Busy /\ Order /\ ParentAtHand /\ ParentIsText
  BY DEF Init, Busy, Order, ParentAtHand, ParentIsText
<1>3. Named
  BY DEF Init, Named, Mail
<1> QED
  BY <1>1, <1>2, <1>3 DEF Inv

LEMMA InvStep == Inv /\ [Next]_vars => Inv'
<1> SUFFICES ASSUME Inv, [Next]_vars PROVE Inv'
  OBVIOUS
<1>1. Types' /\ Named'
  BY Steps, TypesMta, TypesData, TypesDeliver, NamedMta, NamedData, NamedDeliver DEF Inv
<1>2. Busy' /\ Order' /\ ParentAtHand' /\ ParentIsText'
  BY BusyStep, OrderStep, ParentStep DEF Inv
<1> QED
  BY <1>1, <1>2 DEF Inv

LEMMA InvAlways == Spec => []Inv
  BY InvInit, InvStep, PTL DEF Spec

-----------------------------------------------------------------------------
(* Success. *)

Wanted(r)    == {"text"} \cup (IF "attach" \in Flag[r] /\ Attach > 0 THEN {"attachment"} ELSE {})
Promised(r, m) == r \in Known /\ <<r, "250">> \in asked[m]
Complete(m)  == \A r \in Rcpt : Promised(r, m) => \A part \in Wanted(r) : Has(r, m, part)

Queued(r, part) ==
  \E i \in DOMAIN todo : \E k \in DOMAIN todo[i] : todo[i][k].r = r /\ todo[i][k].part = part

(* Who was accepted is passed on; what Deliver has to store for them is    *)
(* stored or still to be stored, unless it has noted a failure; what it    *)
(* answers with ok, and AEM-MTA with 250, is all there.                    *)
Delivery ==
  /\ \A r \in Rcpt : <<r, "250">> \in named => \E i \in DOMAIN to : to[i] = r
  /\ \A m \in Mail : m <= count =>
       \A r \in Rcpt : <<r, "250">> \in asked[m] => \E i \in DOMAIN meta[m] : meta[m][i] = r
  /\ work = "store" /\ status =>
       \A r \in Rcpt : Promised(r, Head(queue)) =>
         \A part \in Wanted(r) : Has(r, Head(queue), part) \/ Queued(r, part)
  /\ result \in [Mail -> {"none", "ok", "err"}] /\ reply \in [Mail -> {"none", "250", "451"}]
  /\ \A m \in Mail : result[m] = "ok" \/ reply[m] = "250" => m <= count /\ Complete(m)

LEMMA InConcat ==
  ASSUME NEW S, NEW s \in Seq(S), NEW u \in Seq(S)
  PROVE  /\ s \o u \in Seq(S)
         /\ \A k \in DOMAIN s : \E j \in DOMAIN (s \o u) : (s \o u)[j] = s[k]
         /\ \A k \in DOMAIN u : \E j \in DOMAIN (s \o u) : (s \o u)[j] = u[k]
<1>1. /\ Len(s) \in Nat /\ Len(u) \in Nat /\ DOMAIN s = 1 .. Len(s) /\ DOMAIN u = 1 .. Len(u)
      /\ s \o u \in Seq(S) /\ DOMAIN (s \o u) = 1 .. Len(s) + Len(u)
      /\ \A k \in 1 .. Len(s) + Len(u) : (s \o u)[k] = IF k <= Len(s) THEN s[k] ELSE u[k - Len(s)]
  OBVIOUS
<1>2. \A k \in DOMAIN s : k \in DOMAIN (s \o u) /\ (s \o u)[k] = s[k]
  BY <1>1
<1>3. \A k \in DOMAIN u : k + Len(s) \in DOMAIN (s \o u) /\ (s \o u)[k + Len(s)] = u[k]
  BY <1>1
<1> QED
  BY <1>1, <1>2, <1>3

(* storeMessage: what an address wants is among what is stored for it. *)
LEMMA JobsHold ==
  ASSUME NEW r \in Rcpt, r \in Known, NEW part \in Wanted(r)
  PROVE  \E k \in DOMAIN Jobs(r) : Jobs(r)[k].r = r /\ Jobs(r)[k].part = part
<1> DEFINE T == << [r |-> r, part |-> "text"] >>
           A == IF "attach" \in Flag[r]
                  THEN [i \in 1 .. Attach |-> [r |-> r, part |-> "attachment"]] ELSE <<>>
           O == IF "origin" \in Flag[r] THEN << [r |-> r, part |-> "original"] >> ELSE <<>>
<1>1. T \in Seq(Job) /\ 1 \in DOMAIN T /\ T[1] = [r |-> r, part |-> "text"]
  BY DEF Job
<1>2. /\ A \in Seq(Job)
      /\ "attach" \in Flag[r] /\ Attach > 0 => 1 \in DOMAIN A /\ A[1] = [r |-> r, part |-> "attachment"]
  <2>1. [r |-> r, part |-> "attachment"] \in Job /\ Attach \in Nat
    BY MailTransferAssumption DEF Job
  <2>2. [i \in 1 .. Attach |-> [r |-> r, part |-> "attachment"]] \in Seq(Job)
    BY <2>1, IsASeq
  <2> QED
    BY <2>1, <2>2
<1>3. O \in Seq(Job)
  <2>1. [r |-> r, part |-> "original"] \in Job
    BY DEF Job
  <2>2. << [r |-> r, part |-> "original"] >> \in Seq(Job) /\ <<>> \in Seq(Job)
    BY <2>1
  <2> QED
    BY <2>2
<1>4. Jobs(r) = (T \o A) \o O
  BY DEF Jobs
<1> HIDE DEF T, A, O
<1>5. /\ T \o A \in Seq(Job)
      /\ \A k \in DOMAIN T : \E j \in DOMAIN (T \o A) : (T \o A)[j] = T[k]
      /\ \A k \in DOMAIN A : \E j \in DOMAIN (T \o A) : (T \o A)[j] = A[k]
  <2>1. T \in Seq(Job) /\ A \in Seq(Job)
    BY <1>1, <1>2
  <2>2. T \o A \in Seq(Job)
    BY <2>1, InConcat
  <2>3. \A k \in DOMAIN T : \E j \in DOMAIN (T \o A) : (T \o A)[j] = T[k]
    BY <2>1, InConcat
  <2>4. \A k \in DOMAIN A : \E j \in DOMAIN (T \o A) : (T \o A)[j] = A[k]
    BY <2>1, InConcat
  <2> QED
    BY <2>2, <2>3, <2>4
<1>6. \A k \in DOMAIN (T \o A) : \E j \in DOMAIN Jobs(r) : Jobs(r)[j] = (T \o A)[k]
  BY <1>3, <1>4, <1>5, InConcat
<1>7. CASE part = "text"
  <2>1. PICK i \in DOMAIN (T \o A) : (T \o A)[i] = T[1]
    BY <1>1, <1>5
  <2>2. PICK k \in DOMAIN Jobs(r) : Jobs(r)[k] = T[1]
    BY <1>6, <2>1
  <2> QED
    BY <1>1, <1>7, <2>2
<1>8. CASE part = "attachment" /\ "attach" \in Flag[r] /\ Attach > 0
  <2>1. PICK i \in DOMAIN (T \o A) : (T \o A)[i] = A[1]
    BY <1>2, <1>5, <1>8
  <2>2. PICK k \in DOMAIN Jobs(r) : Jobs(r)[k] = A[1]
    BY <1>6, <2>1
  <2> QED
    BY <1>2, <1>8, <2>2
<1> QED
  BY <1>7, <1>8 DEF Wanted

(* AEM-Storage keeps what it has. *)
LEMMA HasKept ==
  ASSUME Types, Busy, [Next]_vars, NEW r \in Rcpt, NEW m, NEW part, Has(r, m, part)
  PROVE  Has(r, m, part)'
<1>1. CASE mailbox' = mailbox
  BY <1>1 DEF Has
<1>2. CASE StoreText \/ StoreOther
  <2> DEFINE j == Head(Head(todo))
  <2>1. /\ j \in Job /\ queue # <<>>
        /\ mailbox' = mailbox \/ mailbox' = [mailbox EXCEPT ![j.r] = Append(@, Entry(j))]
    BY <1>2, StoreStep DEF Busy, Storing
  <2> HIDE DEF j
  <2>2. Entry(j) \in Envelope /\ mailbox[r] \in Seq(Envelope)
    BY <2>1, EntryType DEF Types
  <2>3. CASE mailbox' = [mailbox EXCEPT ![j.r] = Append(@, Entry(j))] /\ r = j.r
    <3>1. mailbox'[r] = Append(mailbox[r], Entry(j))
      BY <2>3 DEF Types
    <3>2. \A i \in DOMAIN mailbox[r] : i \in DOMAIN mailbox'[r] /\ mailbox'[r][i] = mailbox[r][i]
      BY <2>2, <3>1, AppendOne
    <3> QED
      BY <3>2 DEF Has
  <2>4. CASE mailbox' = [mailbox EXCEPT ![j.r] = Append(@, Entry(j))] /\ r # j.r
    <3>1. mailbox'[r] = mailbox[r]
      BY <2>4 DEF Types
    <3> QED
      BY <3>1 DEF Has
  <2> QED
    BY <1>1, <2>1, <2>3, <2>4
<1>3. CASE Receive \/ Closed \/ NoMessage \/ NextRecipient \/ Delivered \/ DeliverRestart
  BY <1>1, <1>3, ReceiveStep, SkipStep, EndStep
<1>4. CASE MtaQuiet \/ Data
  BY <1>1, <1>4, DataStep DEF MtaQuiet
<1> QED
  BY <1>2, <1>3, <1>4, Steps

(* What was asked for a mail does not change after its DATA. *)
LEMMA AskedKept ==
  ASSUME Types, [Next]_vars, NEW m \in Mail, m <= count
  PROVE  asked'[m] = asked[m] /\ meta'[m] = meta[m] /\ m <= count'
<1>1. CASE UNCHANGED <<count, asked, meta>>
  BY <1>1
<1>2. CASE Data
  <2>1. /\ count' = count + 1 /\ count \in Nat
        /\ asked' = [asked EXCEPT ![count + 1] = named]
        /\ meta' = [meta EXCEPT ![count + 1] = to]
    BY <1>2, DataStep
  <2>2. m \in Nat /\ m # count + 1
    BY <2>1 DEF Mail
  <2> QED
    BY <2>1, <2>2 DEF Types
<1> QED
  BY <1>1, <1>2, Steps, DeliverSteps DEF MtaQuiet, DeliverStep

LEMMA CompleteKept ==
  ASSUME Types, Busy, [Next]_vars, NEW m \in Mail, m <= count, Complete(m)
  PROVE  Complete(m)'
<1> SUFFICES ASSUME NEW r \in Rcpt, Promised(r, m)', NEW part \in Wanted(r)
             PROVE  Has(r, m, part)'
  BY DEF Complete, Wanted
<1>1. Promised(r, m)
  BY AskedKept DEF Promised
<1>2. Has(r, m, part)
  BY <1>1 DEF Complete
<1> QED
  BY <1>2, HasKept

(* Who is in "to" for 250. *)
LEMMA AcceptedStep ==
  ASSUME Types, Delivery, [Next]_vars
  PROVE  /\ \A r \in Rcpt : <<r, "250">> \in named' => \E i \in DOMAIN to' : to'[i] = r
         /\ \A m \in Mail : m <= count' =>
              \A r \in Rcpt : <<r, "250">> \in asked'[m] => \E i \in DOMAIN meta'[m] : meta'[m][i] = r
<1>0. /\ \A r \in Rcpt : <<r, "250">> \in named => \E i \in DOMAIN to : to[i] = r
      /\ \A m \in Mail : m <= count =>
           \A r \in Rcpt : <<r, "250">> \in asked[m] => \E i \in DOMAIN meta[m] : meta[m][i] = r
  BY DEF Delivery
<1>1. CASE UNCHANGED <<to, named>>
  <2>1. CASE UNCHANGED <<count, asked, meta>>
    BY <1>0, <1>1, <2>1
  <2>2. CASE Data
    <3>1. /\ count' = count + 1 /\ count' \in Mail /\ count \in Nat
          /\ asked' = [asked EXCEPT ![count + 1] = named]
          /\ meta' = [meta EXCEPT ![count + 1] = to]
      BY <2>2, DataStep
    <3>2. asked'[count + 1] = named /\ meta'[count + 1] = to
      BY <3>1 DEF Types
    <3>3. ASSUME NEW m \in Mail, m <= count', NEW r \in Rcpt, <<r, "250">> \in asked'[m]
          PROVE  \E i \in DOMAIN meta'[m] : meta'[m][i] = r
      <4>1. CASE m = count + 1
        BY <1>0, <3>2, <3>3, <4>1
      <4>2. CASE m # count + 1
        <5>1. m <= count
          BY <3>1, <3>3, <4>2 DEF Mail
        <5> QED
          BY <1>0, <3>3, <5>1, AskedKept
      <4> QED
        BY <4>1, <4>2
    <3> QED
      BY <1>0, <1>1, <3>3
  <2> QED
    BY <1>0, <1>1, <2>1, <2>2, Steps, DeliverSteps DEF MtaQuiet, DeliverStep
<1>2. CASE NoEnvelope /\ UNCHANGED <<count, asked, meta>>
  BY <1>0, <1>2 DEF NoEnvelope
<1>3. ASSUME NEW q \in Rcpt, RcptTo(q), UNCHANGED <<count, asked, meta>>
      PROVE  \A r \in Rcpt : <<r, "250">> \in named' => \E i \in DOMAIN to' : to'[i] = r
  <2>1. PICK c \in RcptCodes(q) :
          /\ to' = IF c \in {"250", "450"} THEN Append(to, q) ELSE to
          /\ named' = named \cup {<<q, c>>}
    BY <1>3, Zenon DEF RcptTo
  <2>2. to \in Seq(Rcpt)
    BY DEF Types
  <2>3. \A i \in DOMAIN to : i \in DOMAIN to' /\ to'[i] = to[i]
    <3>1. CASE to' = to
      BY <3>1
    <3>2. CASE to' = Append(to, q)
      BY <2>2, <3>2, AppendOne
    <3> QED
      BY <2>1, <3>1, <3>2
  <2>4. c = "250" => \E i \in DOMAIN to' : to'[i] = q
    <3> SUFFICES ASSUME c = "250" PROVE \E i \in DOMAIN to' : to'[i] = q
      OBVIOUS
    <3>1. to' = Append(to, q)
      BY <2>1
    <3> QED
      BY <2>2, <3>1
  <2> QED
    BY <1>0, <2>1, <2>3, <2>4
<1> QED
  <2>1. CASE MtaQuiet
    BY <1>0, <1>1, <1>2, <1>3, <2>1 DEF MtaQuiet
  <2>2. CASE ~MtaQuiet
    <3>1. UNCHANGED <<to, named>>
      BY <2>2, Steps, DataStep, DeliverSteps DEF DeliverStep
    <3> QED
      BY <1>1, <3>1
  <2> QED
    BY <2>1, <2>2

(* A job is done, skipped with a failure, or still to be done. *)
LEMMA QueuedOrStored ==
  ASSUME Types, Busy, StoreText \/ StoreOther \/ NoMessage \/ NextRecipient, status',
         NEW r \in Rcpt, NEW part \in Wanted(r), Queued(r, part)
  PROVE  Has(r, Head(queue), part)' \/ Queued(r, part)'
<1>1. todo \in Seq(Seq(Job)) /\ todo # <<>>
  BY SkipStep, StoreStep DEF Types, Storing
<1>2. PICK i \in DOMAIN todo : \E k \in DOMAIN todo[i] : todo[i][k].r = r /\ todo[i][k].part = part
  BY DEF Queued
<1>3. PICK k \in DOMAIN todo[i] : todo[i][k].r = r /\ todo[i][k].part = part
  BY <1>2
<1>4. i \in Nat \ {0} /\ k \in Nat \ {0} /\ todo[i] \in Seq(Job)
  BY <1>1
<1>5. ASSUME todo' = Tail(todo), i # 1
      PROVE  Queued(r, part)'
  <2>1. i - 1 \in DOMAIN todo' /\ todo'[i - 1] = todo[i]
    BY <1>1, <1>4, <1>5
  <2> QED
    BY <1>3, <2>1 DEF Queued
<1>6. CASE NextRecipient
  <2>1. todo' = Tail(todo) /\ Head(todo) = <<>>
    BY <1>6 DEF NextRecipient
  <2>2. i # 1
    BY <1>1, <1>3, <2>1
  <2> QED
    BY <1>5, <2>1, <2>2
<1>7. CASE NoMessage
  BY <1>7 DEF NoMessage
<1>8. CASE StoreText \/ StoreOther
  <2> DEFINE j == Head(Head(todo))
  <2>1. /\ Storing /\ Taken /\ j \in Job /\ j = todo[1][1] /\ UNCHANGED queue
        /\ Head(todo) = todo[1] /\ todo[1] \in Seq(Job) /\ 1 \in DOMAIN todo[1] /\ 1 \in DOMAIN todo
    BY <1>1, <1>8, StoreStep, HeadTail
  <2>2. CASE i = 1 /\ k = 1
    <3>1. j.r = r /\ j.part = part
      BY <1>3, <2>1, <2>2
    <3>2. part # "original"
      BY DEF Wanted
    <3>3. mailbox' = [mailbox EXCEPT ![j.r] = Append(@, Entry(j))]
      <4>1. PICK o \in Outcome : Stored(j, o) /\ o = "done"
        BY <1>8, <3>1, <3>2, <2>1 DEF StoreText, StoreOther, Job
      <4> QED
        BY <4>1 DEF Stored
    <3>4. queue # <<>>
      BY <2>1 DEF Busy, Storing
    <3> HIDE DEF j
    <3>5. Entry(j) \in Envelope /\ Entry(j).mail = Head(queue) /\ Entry(j).part = j.part
      BY <2>1, <3>4, EntryType
    <3>6. mailbox'[r] = Append(mailbox[r], Entry(j)) /\ mailbox[r] \in Seq(Envelope)
      BY <3>1, <3>3 DEF Types
    <3>7. Len(mailbox[r]) + 1 \in DOMAIN mailbox'[r] /\ mailbox'[r][Len(mailbox[r]) + 1] = Entry(j)
      BY <3>5, <3>6
    <3> QED
      BY <2>1, <3>1, <3>5, <3>7 DEF Has
  <2>3. CASE i = 1 /\ k # 1
    <3>1. Len(todo[1]) # 1 /\ Len(todo[1]) \in Nat
      BY <1>3, <1>4, <2>1, <2>3
    <3>2. todo' = [todo EXCEPT ![1] = Tail(todo[1])]
      BY <2>1, <3>1 DEF Taken
    <3>3. 1 \in DOMAIN todo' /\ todo'[1] = Tail(todo[1])
      BY <2>1, <3>2
    <3>4. k - 1 \in DOMAIN Tail(todo[1]) /\ Tail(todo[1])[k - 1] = todo[1][k]
      BY <1>3, <1>4, <2>1, <2>3
    <3> QED
      BY <1>3, <2>3, <3>3, <3>4 DEF Queued
  <2>4. CASE i # 1
    <3>1. CASE todo' = Tail(todo)
      BY <1>5, <2>4, <3>1
    <3>2. CASE todo' # Tail(todo)
      <4>1. todo' = [todo EXCEPT ![1] = Tail(@)]
        BY <2>1, <3>2 DEF Taken
      <4>2. i \in DOMAIN todo' /\ todo'[i] = todo[i]
        BY <1>1, <2>4, <4>1
      <4> QED
        BY <1>3, <4>2 DEF Queued
    <3> QED
      BY <3>1, <3>2
  <2> QED
    BY <2>2, <2>3, <2>4
<1> QED
  BY <1>6, <1>7, <1>8

Settled ==
  work = "store" /\ status =>
    \A r \in Rcpt : Promised(r, Head(queue)) =>
      \A part \in Wanted(r) : Has(r, Head(queue), part) \/ Queued(r, part)

LEMMA SettledStep ==
  ASSUME Types, Busy, Named, Delivery, [Next]_vars
  PROVE  Settled'
<1>0. Settled
  BY DEF Delivery, Settled
<1>1. ASSUME UNCHANGED <<work, todo>>, status' => status,
             work = "store" => Head(queue') = Head(queue)
      PROVE  Settled'
  <2> SUFFICES ASSUME work = "store", status, NEW r \in Rcpt, Promised(r, Head(queue))',
                      NEW part \in Wanted(r)
               PROVE  (Has(r, Head(queue), part) \/ Queued(r, part))'
    BY <1>1 DEF Settled, Wanted
  <2>1. Head(queue') = Head(queue) /\ Head(queue) \in Mail /\ Head(queue) <= count
    BY <1>1, HeadTail DEF Busy, Types, Named
  <2>2. Promised(r, Head(queue))
    BY <2>1, AskedKept DEF Promised
  <2>3. Has(r, Head(queue), part) \/ Queued(r, part)
    BY <1>0, <2>2 DEF Settled
  <2>4. Has(r, Head(queue), part) => Has(r, Head(queue), part)'
    <3> SUFFICES ASSUME Has(r, Head(queue), part) PROVE Has(r, Head(queue), part)'
      OBVIOUS
    <3>1. ASSUME NEW h, h = Head(queue)
          PROVE  Has(r, h, part)'
      BY <3>1, HasKept
    <3> QED
      BY <2>1, <3>1 DEF Has
  <2> QED
    BY <1>1, <2>3, <2>4 DEF Queued
<1>2. CASE MtaQuiet
  BY <1>1, <1>2 DEF MtaQuiet
<1>3. CASE Data
  <2>1. UNCHANGED <<work, todo, status>> /\ queue' = Append(queue, count + 1) /\ count + 1 \in Mail
    BY <1>3, DataStep
  <2>2. work = "store" => Head(queue') = Head(queue)
    BY <2>1, AppendOne DEF Busy, Types
  <2> QED
    BY <1>1, <2>1, <2>2
<1>4. CASE work' = "receive"
  BY <1>4 DEF Settled
<1>5. CASE Receive \/ Closed
  <2>1. CASE work' = "store" /\ todo' = Work(meta[Head(queue)]) /\ queue' = queue
    <3> DEFINE m == Head(queue)
    <3>1. queue # <<>> /\ m \in Mail /\ m <= count /\ meta[m] \in Seq(Rcpt)
      BY <1>5, ReceiveStep, HeadTail DEF Types, Named
    <3> SUFFICES ASSUME NEW r \in Rcpt, Promised(r, Head(queue))', NEW part \in Wanted(r)
                 PROVE  Queued(r, part)'
      BY DEF Settled, Wanted
    <3>2. r \in Known /\ <<r, "250">> \in asked[m]
      BY <2>1, <3>1, AskedKept DEF Promised
    <3>3. PICK i \in DOMAIN meta[m] : meta[m][i] = r
      BY <3>1, <3>2 DEF Delivery
    <3>4. i \in DOMAIN todo' /\ todo'[i] = Jobs(r)
      BY <2>1, <3>3 DEF Work
    <3> QED
      BY <3>2, <3>4, JobsHold DEF Queued
  <2>2. work = "receive"
    BY <1>5, ReceiveStep
  <2> QED
    BY <1>4, <1>5, <2>1, <2>2, ReceiveStep DEF Idle
<1>6. CASE StoreText \/ StoreOther \/ NoMessage \/ NextRecipient
  <2>1. UNCHANGED <<work, queue, asked>> /\ (status' => status)
    <3>1. UNCHANGED <<work, queue, asked>>
      BY <1>6, SkipStep, StoreStep, DeliverSteps DEF DeliverStep
    <3>2. status' => status
      BY <1>6 DEF StoreText, StoreOther, NoMessage, NextRecipient
    <3> QED
      BY <3>1, <3>2
  <2> SUFFICES ASSUME work = "store", status', NEW r \in Rcpt, Promised(r, Head(queue)),
                      NEW part \in Wanted(r)
               PROVE  (Has(r, Head(queue), part) \/ Queued(r, part))'
    BY <2>1 DEF Settled, Promised, Wanted
  <2>2. Has(r, Head(queue), part) \/ Queued(r, part)
    BY <1>0, <2>1 DEF Settled
  <2>3. CASE Has(r, Head(queue), part)
    <3>1. ASSUME NEW h, h = Head(queue)
          PROVE  Has(r, h, part)'
      BY <2>3, <3>1, HasKept
    <3> QED
      BY <2>1, <3>1 DEF Has
  <2>4. CASE Queued(r, part)
    BY <1>6, <2>4, QueuedOrStored
  <2> QED
    BY <2>2, <2>3, <2>4
<1>7. CASE Delivered \/ DeliverRestart
  BY <1>4, <1>7, EndStep DEF Idle
<1> QED
  BY <1>2, <1>3, <1>5, <1>6, <1>7, Steps

(* 250 is answered for what Deliver answered ok, and that when nothing is  *)
(* left to store and nothing has failed.                                   *)
LEMMA ResultStep ==
  ASSUME Types, Busy, Named, Delivery, [Next]_vars
  PROVE  /\ result' \in [Mail -> {"none", "ok", "err"}] /\ reply' \in [Mail -> {"none", "250", "451"}]
         /\ \A m \in Mail : result'[m] = "ok" \/ reply'[m] = "250" => m <= count' /\ Complete(m)'
<1>0. /\ result \in [Mail -> {"none", "ok", "err"}] /\ reply \in [Mail -> {"none", "250", "451"}]
      /\ \A m \in Mail : result[m] = "ok" \/ reply[m] = "250" => m <= count /\ Complete(m)
  BY DEF Delivery
<1>1. ASSUME NEW m \in Mail, m <= count, Complete(m)
      PROVE  m <= count' /\ Complete(m)'
  BY <1>1, AskedKept, CompleteKept
<1>2. CASE UNCHANGED <<result, reply>>
  BY <1>0, <1>1, <1>2
<1>3. CASE MtaQuiet /\ reply' = [reply EXCEPT ![count] = Verdict]
  <2>1. result' = result /\ Verdict \in {"250", "451"} /\ (Verdict = "250" => result[count] = "ok")
    BY <1>3 DEF MtaQuiet, Verdict
  <2>2. reply' \in [Mail -> {"none", "250", "451"}]
    BY <1>0, <1>3, <2>1
  <2>3. \A m \in Mail : reply'[m] = "250" => reply[m] = "250" \/ result[m] = "ok"
    BY <1>0, <1>3, <2>1
  <2> QED
    BY <1>0, <1>1, <2>1, <2>2, <2>3
<1>4. CASE Delivered
  <2> DEFINE h == Head(queue)
  <2>1. /\ work = "store" /\ todo = <<>> /\ queue # <<>>
        /\ result' = [result EXCEPT ![h] = IF status THEN "ok" ELSE "err"]
        /\ UNCHANGED <<mailbox, reply, asked, count>>
    BY <1>4 DEF Delivered, Served, Busy, record, session, local
  <2>2. h \in Mail /\ h <= count
    BY <2>1, HeadTail DEF Types, Named
  <2>3. status => Complete(h)
    BY <2>1 DEF Delivery, Complete, Queued
  <2>4. result' \in [Mail -> {"none", "ok", "err"}]
    BY <1>0, <2>1
  <2>5. \A m \in Mail : result'[m] = "ok" => result[m] = "ok" \/ (m = h /\ status)
    BY <1>0, <2>1, <2>2
  <2> HIDE DEF h
  <2>6. \A m \in Mail : result'[m] = "ok" \/ reply'[m] = "250" => m <= count /\ Complete(m)
    BY <1>0, <2>1, <2>2, <2>3, <2>5
  <2> QED
    BY <1>0, <1>1, <2>1, <2>4, <2>6
<1>5. CASE Receive \/ Closed \/ StoreText \/ NoMessage \/ StoreOther \/ NextRecipient \/ DeliverRestart
  <2>1. UNCHANGED <<result, reply>>
    <3>1. CASE Receive \/ Closed \/ DeliverRestart
      BY <3>1 DEF Receive, Closed, DeliverRestart, record
    <3>2. CASE StoreText \/ NoMessage \/ StoreOther \/ NextRecipient
      BY <3>2 DEF StoreText, NoMessage, StoreOther, NextRecipient, Taken, streams, record
    <3> QED
      BY <1>5, <3>1, <3>2
  <2> QED
    BY <1>2, <2>1
<1> QED
  BY <1>2, <1>3, <1>4, <1>5, Steps, DataStep DEF MtaQuiet

LEMMA DeliveryAlways == Spec => []Delivery
<1>1. Init => Delivery
  BY DEF Init, Delivery, Mail
<1>2. Inv /\ Delivery /\ [Next]_vars => Delivery'
  <2> SUFFICES ASSUME Inv, Delivery, [Next]_vars
               PROVE  Delivery'
    OBVIOUS
  <2>1. Types /\ Busy /\ Named
    BY DEF Inv
  <2> QED
    BY <2>1, AcceptedStep, SettledStep, ResultStep DEF Delivery, Settled
<1> QED
  BY <1>1, <1>2, InvAlways, PTL DEF Spec

(* respondClient, RSET and DATA: mail gets only to those who were named    *)
(* for it, in a session of any number of mails.                            *)
THEOREM MailOnlyForNamed == Spec => []OnlyForNamed
<1>1. Inv => OnlyForNamed
  BY DEF Inv, Named, Ask, OnlyForNamed, Has
<1> QED
  BY <1>1, InvAlways, PTL

(* storeMessage: an attachment and an original refer to the message they   *)
(* came with, whichever calls to AEM-Storage failed.                       *)
THEOREM ParentsAreTexts == Spec => []ParentIsText
<1>1. Inv => ParentIsText
  BY DEF Inv
<1> QED
  BY <1>1, InvAlways, PTL

(* storeMessage: mail that AEM-MTA answered with 250 is in the mailbox of  *)
(* everybody who was accepted for it and has an account, with attachments  *)
(* if the address wants them, however many recipients there are and        *)
(* whatever AEM-Deliver or a call to AEM-Storage failed at meanwhile.      *)
THEOREM SuccessesAreStored == Spec => []SuccessIsStored
<1>1. ASSUME Delivery
      PROVE  SuccessIsStored
  <2> SUFFICES ASSUME NEW m \in Mail, reply[m] = "250", NEW r \in Known, <<r, "250">> \in asked[m]
               PROVE  /\ Has(r, m, "text")
                      /\ "attach" \in Flag[r] /\ Attach > 0 => Has(r, m, "attachment")
    BY DEF SuccessIsStored
  <2>1. r \in Rcpt
    BY MailTransferAssumption
  <2>2. \A part \in Wanted(r) : Has(r, m, part)
    BY <1>1, <2>1 DEF Delivery, Complete, Promised
  <2> QED
    BY <2>2 DEF Wanted
<1> QED
  BY <1>1, DeliveryAlways, PTL

-----------------------------------------------------------------------------
(* decodeMp of AEM-Deliver: the message is gone through once for each       *)
(* boundary, and nothing is taken in more than one of the rounds.          *)

(* The boundary of the delimiter that the part at k stands behind. *)
Owner(k) == message[k - 1][2]

(* The part at k has been come to: behind a delimiter of a boundary that is *)
(* done, or of the one that is looked for as far as it is.                 *)
Met(k) ==
  /\ k \in DOMAIN message /\ IsPart(message[k])
  /\ \E j \in DOMAIN bounds :
       j <= turn /\ bounds[j] = Owner(k) /\ (j = turn => k - 1 < searchBegin)

MetOf(type) == {message[k][2] : k \in {k \in DOMAIN message : Met(k) /\ message[k][1] = type}}

(* The types of what decodeMp works with. *)
MimeTypes ==
  /\ message \in Messages
  /\ turn \in Nat \ {0} /\ turn <= Len(bounds) + 1
  /\ searchBegin \in Nat \ {0}
  /\ bounds \in Seq({Root} \cup NamesOf("multi"))
  /\ out \in Seq(NamesOf("text")) /\ att \in Seq(NamesOf("file"))
  /\ phase \in {"loop", "done"}

(* s has as many elements as there are different ones. *)
Counted(s) == IsFiniteSet(ToSet(s)) /\ Len(s) = Cardinality(ToSet(s))

(* What has been taken are the parts that were come to, each of them once.  *)
Gathered ==
  /\ Counted(bounds) /\ IsInjective(bounds)
  /\ ToSet(bounds) = {Root} \cup MetOf("multi")
  /\ Counted(out) /\ ToSet(out) = MetOf("text")
  /\ Counted(att) /\ ToSet(att) \subseteq MetOf("file")
  /\ Len(att) <= MaxAttach /\ (Len(att) = MaxAttach \/ ToSet(att) = MetOf("file"))

(* The search goes on at a delimiter of the boundary, or at the beginning.  *)
AtDelimiter ==
  searchBegin = 1 \/
    /\ turn <= Len(bounds) /\ searchBegin \in DOMAIN message
    /\ IsDelimiter(message[searchBegin]) /\ message[searchBegin][2] = bounds[turn]

(* There is a part to take, or the next boundary to go on with. *)
GoesOn ==
  /\ turn <= Len(bounds) /\ Begin # 0
  /\ message[Begin][1] = "end" \/ (Header # 0 /\ message[Header][1] # "long" /\ PartEnd # 0)

(* The loop is left only when it is full or cannot go on. *)
Stopped == phase = "done" => Len(bounds) >= MaxBounds \/ ~GoesOn

MimeInv == MimeTypes /\ Gathered /\ AtDelimiter /\ Stopped

(* memmem finds the first of the places. *)
LEMMA FirstFound ==
  ASSUME NEW P, P \subseteq Nat \ {0}
  PROVE  /\ First(P) \in Nat
         /\ First(P) = 0 <=> P = {}
         /\ First(P) # 0 => First(P) \in P /\ \A x \in P : First(P) <= x
<1>1. CASE P = {}
  BY <1>1 DEF First
<1>2. CASE P # {}
  <2>1. PICK x \in P : \A y \in P : x <= y
    BY <1>2, LeastNumber
  <2>2. Min(P) \in P /\ \A y \in P : Min(P) <= y
    BY <2>1 DEF Min
  <2> QED
    BY <1>2, <2>2 DEF First
<1> QED
  BY <1>1, <1>2

(* Messages are sequences. *)
LEMMA MessageTyped ==
  ASSUME message \in Messages
  PROVE  /\ Len(message) \in Nat /\ DOMAIN message = 1 .. Len(message)
         /\ WellFormed(message)
<1>1. WellFormed(message)
  BY MimeAssumption
<1>2. message \in Seq(ToSet(message))
  BY <1>1 DEF WellFormed
<1> QED
  BY <1>1, <1>2

(* What well-formed means, part by part. *)
LEMMA WellPlaced ==
  ASSUME message \in Messages, NEW k \in DOMAIN message
  PROVE  /\ k \in Nat
         /\ ~(IsPart(message[k]) /\ IsDelimiter(message[k]))
         /\ IsPart(message[k]) =>
              /\ k > 1 /\ k - 1 \in DOMAIN message
              /\ message[k - 1][1] = "--" /\ IsDelimiter(message[k - 1])
              /\ message[k][2] # Root
         /\ message[k][1] = "--" /\ k < Len(message) => IsPart(message[k + 1])
         /\ \A j \in DOMAIN message :
              /\ IsPart(message[j]) /\ IsPart(message[k]) /\ message[j][2] = message[k][2] => j = k
              /\ message[j][1] = "end" /\ IsDelimiter(message[k]) /\ message[k][2] = message[j][2] => k <= j
<1>1. /\ Len(message) \in Nat /\ DOMAIN message = 1 .. Len(message)
      /\ WellFormed(message)
  BY MessageTyped
<1>2. /\ IsPart(message[k]) => k > 1 /\ message[k - 1][1] = "--" /\ message[k][2] # Root
      /\ message[k][1] = "--" /\ k < Len(message) => IsPart(message[k + 1])
  BY <1>1 DEF WellFormed
<1>3. \A j \in DOMAIN message :
        /\ IsPart(message[j]) /\ IsPart(message[k]) /\ message[j][2] = message[k][2] => j = k
        /\ message[j][1] = "end" /\ IsDelimiter(message[k]) /\ message[k][2] = message[j][2] => k <= j
  BY <1>1 DEF WellFormed
<1>4. ~(IsPart(message[k]) /\ IsDelimiter(message[k]))
  BY DEF IsPart, IsDelimiter, PartType
<1>5. k \in Nat /\ (k > 1 => k - 1 \in DOMAIN message)
  BY <1>1
<1>6. message[k - 1][1] = "--" => IsDelimiter(message[k - 1])
  BY DEF IsDelimiter
<1> QED
  BY <1>2, <1>3, <1>4, <1>5, <1>6

(* begin: the next delimiter of the boundary that is looked for. *)
LEMMA BeginFound ==
  ASSUME MimeTypes, Begin # 0
  PROVE  /\ Begin \in DOMAIN message /\ Begin \in Nat /\ Begin >= searchBegin
         /\ IsDelimiter(message[Begin]) /\ message[Begin][2] = bounds[turn]
         /\ \A k \in DOMAIN message :
              /\ searchBegin <= k /\ k < Begin
              => ~(IsDelimiter(message[k]) /\ message[k][2] = bounds[turn])
<1> DEFINE b == bounds[turn]
           P == {k \in searchBegin .. Len(message) : IsDelimiter(message[k]) /\ message[k][2] = b}
<1>1. Len(message) \in Nat /\ DOMAIN message = 1 .. Len(message) /\ searchBegin \in Nat \ {0}
  BY MessageTyped DEF MimeTypes
<1>2. P \subseteq Nat \ {0}
  BY <1>1
<1>3. Begin = First(P)
  BY DEF Begin, Delimiter
<1> HIDE DEF P
<1>4. Begin \in P /\ \A x \in P : Begin <= x
  BY <1>2, <1>3, FirstFound
<1> HIDE DEF b
<1> QED
  BY <1>1, <1>4 DEF P, b

(* What is between this delimiter and the next one is one part. *)
LEMMA PartFound ==
  ASSUME MimeTypes, HasPart
  PROVE  /\ Begin \in DOMAIN message /\ Begin \in Nat /\ Begin >= searchBegin
         /\ Header = Begin + 1 /\ Header \in DOMAIN message /\ IsPart(message[Header])
         /\ message[Begin][2] = bounds[turn]
         /\ PartEnd \in DOMAIN message /\ PartEnd \in Nat /\ PartEnd > Header
         /\ IsDelimiter(message[PartEnd]) /\ message[PartEnd][2] = bounds[turn]
         /\ \A k \in DOMAIN message :
              /\ searchBegin <= k /\ k < PartEnd /\ IsDelimiter(message[k]) /\ message[k][2] = bounds[turn]
              => k = Begin
<1>0. /\ phase = "loop" /\ turn <= Len(bounds)
      /\ Begin # 0 /\ message[Begin][1] = "--" /\ Header # 0 /\ PartEnd # 0
  BY DEF HasPart, Searching
<1>1. Len(message) \in Nat /\ DOMAIN message = 1 .. Len(message) /\ searchBegin \in Nat \ {0}
  BY MessageTyped DEF MimeTypes
<1>2. /\ Begin \in DOMAIN message /\ Begin \in Nat /\ Begin >= searchBegin
      /\ message[Begin][2] = bounds[turn]
      /\ \A k \in DOMAIN message :
           /\ searchBegin <= k /\ k < Begin
           => ~(IsDelimiter(message[k]) /\ message[k][2] = bounds[turn])
  BY <1>0, BeginFound
<1>3. Header = Begin + 1 /\ Header \in DOMAIN message /\ IsPart(message[Header])
  <2> DEFINE P == {k \in Begin + 1 .. Len(message) : IsPart(message[k])}
  <2>1. P \subseteq Nat \ {0}
    BY <1>1, <1>2
  <2>2. Header = First(P)
    BY DEF Header
  <2>3. Header \in P /\ \A x \in P : Header <= x
    <3> HIDE DEF P
    <3> QED
      BY <1>0, <2>1, <2>2, FirstFound
  <2>4. Begin < Len(message)
    BY <1>1, <1>2, <2>3
  <2>5. IsPart(message[Begin + 1])
    BY <1>0, <1>2, <2>4, WellPlaced DEF MimeTypes
  <2>6. Begin + 1 \in P
    BY <1>1, <1>2, <2>4, <2>5
  <2>7. Header <= Begin + 1 /\ Header >= Begin + 1 /\ Header \in Nat
    BY <1>1, <1>2, <2>3, <2>6
  <2> QED
    BY <1>1, <1>2, <2>3, <2>7
<1>4. /\ PartEnd \in DOMAIN message /\ PartEnd \in Nat /\ PartEnd > Header
      /\ IsDelimiter(message[PartEnd]) /\ message[PartEnd][2] = bounds[turn]
      /\ \A k \in DOMAIN message :
           /\ Header < k /\ k < PartEnd
           => ~(IsDelimiter(message[k]) /\ message[k][2] = bounds[turn])
  <2> DEFINE b == bounds[turn]
             P == {k \in Header + 1 .. Len(message) : IsDelimiter(message[k]) /\ message[k][2] = b}
  <2>1. P \subseteq Nat \ {0}
    BY <1>1, <1>2, <1>3
  <2>2. PartEnd = First(P)
    BY DEF PartEnd, Delimiter
  <2> HIDE DEF P
  <2>3. PartEnd \in P /\ \A x \in P : PartEnd <= x
    BY <1>0, <2>1, <2>2, FirstFound
  <2> HIDE DEF b
  <2> QED
    BY <1>1, <1>2, <1>3, <2>3 DEF P, b
<1>5. ASSUME NEW k \in DOMAIN message, searchBegin <= k, k < PartEnd,
             IsDelimiter(message[k]), message[k][2] = bounds[turn]
      PROVE  k = Begin
  <2>1. ~(k < Begin) /\ ~(Header < k) /\ k \in Nat
    BY <1>1, <1>2, <1>4, <1>5
  <2>2. k # Header
    BY <1>3, <1>5, WellPlaced DEF MimeTypes
  <2> QED
    BY <1>1, <1>2, <1>3, <2>1, <2>2
<1> QED
  BY <1>2, <1>3, <1>4, <1>5

(* After a part that was behind a delimiter of the boundary that is looked  *)
(* for, that part has been come to, and no other besides.                  *)
LEMMA PartMet ==
  ASSUME MimeTypes, IsInjective(bounds), HasPart,
         message' = message, turn' = turn, searchBegin' = PartEnd,
         bounds' = bounds \/ \E x : bounds' = Append(bounds, x)
  PROVE  /\ ~Met(Header)
         /\ \A k \in DOMAIN message : Met(k)' <=> Met(k) \/ k = Header
<1> DEFINE b == bounds[turn]
<1>1. /\ turn \in DOMAIN bounds /\ DOMAIN bounds = 1 .. Len(bounds) /\ Len(bounds) \in Nat
      /\ turn \in Nat /\ searchBegin \in Nat
  BY DEF MimeTypes, HasPart, Searching
<1>2. /\ DOMAIN bounds \subseteq DOMAIN bounds'
      /\ \A j \in DOMAIN bounds : bounds'[j] = bounds[j]
      /\ \A j \in DOMAIN bounds' : j <= turn => j \in DOMAIN bounds
  <2>1. bounds \in Seq({Root} \cup NamesOf("multi"))
    BY DEF MimeTypes
  <2>2. CASE bounds' = bounds
    BY <2>2
  <2>3. CASE \E x : bounds' = Append(bounds, x)
    <3>1. PICK x : bounds' = Append(bounds, x)
      BY <2>3
    <3>2. DOMAIN Append(bounds, x) = 1 .. Len(bounds) + 1 /\ \A j \in 1 .. Len(bounds) : Append(bounds, x)[j] = bounds[j]
      BY <2>1
    <3>3. DOMAIN bounds' = 1 .. Len(bounds) + 1 /\ \A j \in 1 .. Len(bounds) : bounds'[j] = bounds[j]
      BY <3>1, <3>2, Zenon
    <3>4. 1 .. Len(bounds) \subseteq 1 .. Len(bounds) + 1
      BY <1>1
    <3>5. \A j \in 1 .. Len(bounds) + 1 : j <= turn => j \in 1 .. Len(bounds)
      BY <1>1
    <3> QED
      BY <1>1, <3>3, <3>4, <3>5, Zenon
  <2> QED
    BY <2>2, <2>3
<1>4. /\ Begin \in DOMAIN message /\ Begin \in Nat /\ Begin >= searchBegin
      /\ Header = Begin + 1 /\ Header \in DOMAIN message /\ IsPart(message[Header])
      /\ message[Begin][2] = b
      /\ PartEnd \in Nat /\ PartEnd > Header
      /\ \A k \in DOMAIN message :
           /\ searchBegin <= k /\ k < PartEnd /\ IsDelimiter(message[k]) /\ message[k][2] = b
           => k = Begin
  BY PartFound
<1> HIDE DEF b
<1>5. Owner(Header) = b
  <2>1. Header - 1 = Begin
    BY <1>4
  <2> QED
    BY <1>4, <2>1 DEF Owner
<1>6. ~Met(Header)
  <2> SUFFICES ASSUME Met(Header) PROVE FALSE
    OBVIOUS
  <2>1. PICK j \in DOMAIN bounds : j <= turn /\ bounds[j] = b /\ (j = turn => Header - 1 < searchBegin)
    BY <1>5 DEF Met
  <2>2. j = turn
    BY <1>1, <2>1 DEF IsInjective, b
  <2> QED
    BY <1>1, <1>4, <2>1, <2>2
<1>7. ASSUME NEW k \in DOMAIN message, IsPart(message[k]) PROVE Met(k)' <=> Met(k) \/ k = Header
  <2>1. /\ k \in Nat /\ k > 1 /\ k - 1 \in DOMAIN message /\ k - 1 \in Nat
        /\ IsDelimiter(message[k - 1])
    BY <1>7, WellPlaced DEF MimeTypes
  <2>2. Met(k) <=> \E j \in DOMAIN bounds :
                     j <= turn /\ bounds[j] = Owner(k) /\ (j = turn => k - 1 < searchBegin)
    BY <1>7 DEF Met
  <2>3. Met(k)' <=> \E j \in DOMAIN bounds' :
                     j <= turn /\ bounds'[j] = Owner(k) /\ (j = turn => k - 1 < PartEnd)
    BY <1>7 DEF Met, Owner
  <2>4. Met(k)' <=> \E j \in DOMAIN bounds :
                     j <= turn /\ bounds[j] = Owner(k) /\ (j = turn => k - 1 < PartEnd)
    BY <1>2, <2>3
  <2>5. ASSUME Owner(k) = b, k - 1 < PartEnd, ~(k - 1 < searchBegin) PROVE k = Header
    <3>1. k - 1 = Begin
      BY <1>1, <1>4, <2>1, <2>5 DEF Owner
    <3> QED
      BY <1>4, <2>1, <3>1
  <2>6. Met(k)' => Met(k) \/ k = Header
    <3> SUFFICES ASSUME NEW j \in DOMAIN bounds, j <= turn, bounds[j] = Owner(k), j = turn => k - 1 < PartEnd
                 PROVE  Met(k) \/ k = Header
      BY <2>4
    <3>1. CASE j # turn
      BY <2>2, <3>1
    <3>2. CASE j = turn /\ k - 1 < searchBegin
      BY <2>2, <3>2
    <3>3. CASE j = turn /\ ~(k - 1 < searchBegin)
      BY <2>5, <3>3 DEF b
    <3> QED
      BY <3>1, <3>2, <3>3
  <2>7. Met(k) => Met(k)'
    <3> SUFFICES ASSUME NEW j \in DOMAIN bounds, j <= turn, bounds[j] = Owner(k), j = turn => k - 1 < searchBegin
                 PROVE  Met(k)'
      BY <2>2
    <3>1. j = turn => k - 1 < PartEnd
      BY <1>1, <1>4, <2>1
    <3> QED
      BY <2>4, <3>1
  <2>8. k = Header => Met(k)'
    <3> SUFFICES ASSUME k = Header PROVE Met(k)'
      OBVIOUS
    <3>1. turn <= turn /\ bounds[turn] = Owner(k) /\ k - 1 < PartEnd
      BY <1>1, <1>4, <1>5 DEF b
    <3> QED
      BY <1>1, <2>4, <3>1
  <2> QED
    BY <2>6, <2>7, <2>8
<1>8. ASSUME NEW k \in DOMAIN message, ~IsPart(message[k]) PROVE Met(k)' <=> Met(k) \/ k = Header
  <2>1. ~Met(k) /\ ~Met(k)' /\ k # Header
    BY <1>4, <1>8 DEF Met
  <2> QED
    BY <2>1
<1> QED
  BY <1>6, <1>7, <1>8

(* Behind the last delimiter of a boundary there is no part of it.          *)
LEMMA LastMet ==
  ASSUME MimeTypes, LastDelimiter
  PROVE  \A k \in DOMAIN message : Met(k)' <=> Met(k)
<1> DEFINE b == bounds[turn]
<1>0. /\ message' = message /\ bounds' = bounds /\ turn' = turn + 1 /\ searchBegin' = 1
      /\ turn <= Len(bounds) /\ Begin # 0 /\ message[Begin][1] = "end"
  BY DEF LastDelimiter, Closing, Searching
<1>1. /\ turn \in DOMAIN bounds /\ DOMAIN bounds = 1 .. Len(bounds) /\ Len(bounds) \in Nat
      /\ turn \in Nat /\ searchBegin \in Nat
  BY <1>0 DEF MimeTypes
<1>2. /\ Begin \in DOMAIN message /\ Begin \in Nat /\ message[Begin][2] = b
      /\ \A k \in DOMAIN message :
           /\ searchBegin <= k /\ k < Begin
           => ~(IsDelimiter(message[k]) /\ message[k][2] = b)
  BY <1>0, BeginFound
<1> HIDE DEF b
<1>3. ASSUME NEW k \in DOMAIN message, IsPart(message[k]) PROVE Met(k)' <=> Met(k)
  <2>1. /\ k \in Nat /\ k > 1 /\ k - 1 \in DOMAIN message /\ k - 1 \in Nat
        /\ IsDelimiter(message[k - 1]) /\ message[k - 1][1] = "--"
    BY <1>3, WellPlaced DEF MimeTypes
  <2>2. Met(k) <=> \E j \in DOMAIN bounds :
                     j <= turn /\ bounds[j] = Owner(k) /\ (j = turn => k - 1 < searchBegin)
    BY <1>3 DEF Met
  <2>3. Met(k)' <=> \E j \in DOMAIN bounds :
                     j <= turn + 1 /\ bounds[j] = Owner(k) /\ (j = turn + 1 => k - 1 < 1)
    BY <1>0, <1>3 DEF Met, Owner
  <2>4. Owner(k) = b => k - 1 < searchBegin
    <3> SUFFICES ASSUME Owner(k) = b, ~(k - 1 < searchBegin) PROVE FALSE
      OBVIOUS
    <3>1. k - 1 <= Begin
      <4>1. message[k - 1][2] = message[Begin][2]
        BY <1>2 DEF Owner
      <4> QED
        BY <1>0, <1>2, <2>1, <4>1, WellPlaced DEF MimeTypes
    <3>2. k - 1 # Begin
      BY <1>0, <2>1
    <3>3. searchBegin <= k - 1 /\ k - 1 < Begin
      BY <1>1, <1>2, <2>1, <3>1, <3>2
    <3> QED
      BY <1>2, <2>1, <3>3 DEF Owner
  <2>5. Met(k)' => Met(k)
    <3> SUFFICES ASSUME NEW j \in DOMAIN bounds, j <= turn + 1, bounds[j] = Owner(k), j = turn + 1 => k - 1 < 1
                 PROVE  Met(k)
      BY <2>3
    <3>1. j <= turn
      BY <1>1, <2>1
    <3>2. j = turn => k - 1 < searchBegin
      BY <2>4 DEF b
    <3> QED
      BY <2>2, <3>1, <3>2
  <2>6. Met(k) => Met(k)'
    <3> SUFFICES ASSUME NEW j \in DOMAIN bounds, j <= turn, bounds[j] = Owner(k) PROVE Met(k)'
      BY <2>2
    <3>1. j <= turn + 1 /\ j # turn + 1
      BY <1>1
    <3> QED
      BY <2>3, <3>1
  <2> QED
    BY <2>5, <2>6
<1>4. ASSUME NEW k \in DOMAIN message, ~IsPart(message[k]) PROVE Met(k)' <=> Met(k)
  BY <1>0, <1>4 DEF Met
<1> QED
  BY <1>3, <1>4

(* The name of a part that was not come to is a new one. *)
LEMMA NameIsNew ==
  ASSUME message \in Messages, NEW h \in DOMAIN message, IsPart(message[h]), ~Met(h)
  PROVE  message[h][2] # Root /\ \A type : message[h][2] \notin MetOf(type)
<1>1. message[h][2] # Root
  BY WellPlaced
<1>2. ASSUME NEW type, message[h][2] \in MetOf(type) PROVE FALSE
  <2>1. PICK k \in DOMAIN message : Met(k) /\ message[k][2] = message[h][2]
    BY <1>2 DEF MetOf
  <2>2. IsPart(message[k])
    BY <2>1 DEF Met
  <2>3. k = h
    BY <2>1, <2>2, WellPlaced
  <2> QED
    BY <2>1, <2>3
<1> QED
  BY <1>1, <1>2

(* A new element is counted. *)
LEMMA AppendCounted ==
  ASSUME NEW S, NEW s \in Seq(S), NEW e, e \notin ToSet(s), Counted(s)
  PROVE  Counted(Append(s, e)) /\ Len(Append(s, e)) = Len(s) + 1
<1>1. ToSet(Append(s, e)) = ToSet(s) \cup {e}
  BY AppendToSet
<1>2. Len(Append(s, e)) = Len(s) + 1
  OBVIOUS
<1>3. IsFiniteSet(ToSet(s) \cup {e}) /\ Cardinality(ToSet(s) \cup {e}) = Cardinality(ToSet(s)) + 1
  BY FS_AddElement DEF Counted
<1> QED
  BY <1>1, <1>2, <1>3 DEF Counted

(* What a part that is there adds to those that were come to: its name, a   *)
(* new one.                                                                *)
LEMMA PartTaken ==
  ASSUME MimeTypes, IsInjective(bounds), HasPart,
         message' = message, turn' = turn, searchBegin' = PartEnd,
         bounds' = bounds \/ \E x : bounds' = Append(bounds, x)
  PROVE  /\ Name # Root /\ Name \in NamesOf(Type)
         /\ \A type : Name \notin MetOf(type)
         /\ \A type : type = Type => MetOf(type)' = MetOf(type) \cup {Name}
         /\ \A type : type # Type => MetOf(type)' = MetOf(type)
<1>1. Header \in DOMAIN message /\ IsPart(message[Header])
  BY PartFound
<1>2. /\ ~Met(Header)
      /\ \A k \in DOMAIN message : Met(k)' <=> Met(k) \/ k = Header
  BY PartMet
<1>3. Name # Root /\ \A type : Name \notin MetOf(type)
  BY <1>1, <1>2, NameIsNew DEF Name, MimeTypes
<1>4. \A type : MetOf(type)' = {message[k][2] : k \in {k \in DOMAIN message : Met(k)' /\ message[k][1] = type}}
  BY DEF MetOf
<1>5. ASSUME NEW type, type = Type PROVE MetOf(type)' = MetOf(type) \cup {Name}
  BY <1>1, <1>2, <1>4, <1>5 DEF MetOf, Type, Name
<1>6. ASSUME NEW type, type # Type PROVE MetOf(type)' = MetOf(type)
  BY <1>1, <1>2, <1>4, <1>6 DEF MetOf, Type
<1>7. Name \in NamesOf(Type)
  BY <1>1 DEF Name, Type, NamesOf
<1> QED
  BY <1>3, <1>5, <1>6, <1>7

(* The search goes on behind the part. *)
LEMMA SearchGoesOn ==
  ASSUME MimeTypes, HasPart, message' = message, turn' = turn, searchBegin' = PartEnd,
         turn <= Len(bounds'), bounds'[turn] = bounds[turn]
  PROVE  AtDelimiter' /\ searchBegin' \in Nat \ {0}
<1>1. /\ PartEnd \in DOMAIN message /\ PartEnd \in Nat /\ PartEnd > 0
      /\ IsDelimiter(message[PartEnd]) /\ message[PartEnd][2] = bounds[turn]
  <2>1. /\ PartEnd \in DOMAIN message /\ PartEnd \in Nat
        /\ IsDelimiter(message[PartEnd]) /\ message[PartEnd][2] = bounds[turn]
    BY PartFound
  <2>2. PartEnd > 0
    BY <2>1, MessageTyped DEF MimeTypes
  <2> QED
    BY <2>1, <2>2
<1>2. AtDelimiter' <=> (PartEnd = 1 \/
         /\ turn <= Len(bounds') /\ PartEnd \in DOMAIN message
         /\ IsDelimiter(message[PartEnd]) /\ message[PartEnd][2] = bounds'[turn])
  BY DEF AtDelimiter, IsDelimiter
<1> QED
  BY <1>1, <1>2

(* One round of the loop, in each of the ways it can go. *)
LEMMA TextStep == ASSUME MimeInv, Text PROVE MimeInv'
<1>1. /\ HasPart /\ Type = "text" /\ out' = Append(out, Name) /\ searchBegin' = PartEnd
      /\ message' = message /\ bounds' = bounds /\ turn' = turn /\ att' = att /\ phase' = phase
      /\ MimeTypes /\ Gathered /\ phase = "loop" /\ turn <= Len(bounds)
  BY DEF Text, MimeInv, HasPart, Searching
<1>2. /\ Name \in NamesOf("text") /\ Name \notin MetOf("text")
      /\ MetOf("text")' = MetOf("text") \cup {Name}
      /\ MetOf("multi")' = MetOf("multi") /\ MetOf("file")' = MetOf("file")
  BY <1>1, PartTaken DEF Gathered
<1>3. AtDelimiter' /\ searchBegin' \in Nat \ {0}
  BY <1>1, SearchGoesOn
<1>4. MimeTypes'
  BY <1>1, <1>2, <1>3 DEF MimeTypes, NamesOf
<1>5. Counted(out') /\ ToSet(out') = MetOf("text")'
  <2>1. out \in Seq(NamesOf("text")) /\ Counted(out) /\ ToSet(out) = MetOf("text")
    BY <1>1 DEF MimeTypes, Gathered
  <2>2. Counted(Append(out, Name))
    BY <1>2, <2>1, AppendCounted
  <2>3. ToSet(Append(out, Name)) = ToSet(out) \cup {Name}
    BY <2>1, AppendToSet
  <2> QED
    BY <1>1, <1>2, <2>1, <2>2, <2>3
<1>6. Gathered'
  BY <1>1, <1>2, <1>5 DEF Gathered
<1>7. Stopped'
  BY <1>1 DEF Stopped
<1> QED
  BY <1>3, <1>4, <1>6, <1>7 DEF MimeInv

LEMMA FileStep == ASSUME MimeInv, File PROVE MimeInv'
<1>1. /\ HasPart /\ Type \in {"file", "big"} /\ searchBegin' = PartEnd
      /\ att' = IF Type = "file" /\ Len(att) < MaxAttach THEN Append(att, Name) ELSE att
      /\ message' = message /\ bounds' = bounds /\ turn' = turn /\ out' = out /\ phase' = phase
      /\ MimeTypes /\ Gathered /\ phase = "loop" /\ turn <= Len(bounds)
  BY DEF File, MimeInv, HasPart, Searching
<1>2. /\ Name \in NamesOf(Type) /\ Name \notin MetOf("file")
      /\ Type = "file" => MetOf("file")' = MetOf("file") \cup {Name}
      /\ Type # "file" => MetOf("file")' = MetOf("file")
      /\ MetOf("multi")' = MetOf("multi") /\ MetOf("text")' = MetOf("text")
  BY <1>1, PartTaken DEF Gathered
<1>3. AtDelimiter' /\ searchBegin' \in Nat \ {0}
  BY <1>1, SearchGoesOn
<1>4. /\ att \in Seq(NamesOf("file")) /\ Len(att) \in Nat /\ MaxAttach \in Nat
      /\ Counted(att) /\ ToSet(att) \subseteq MetOf("file")
      /\ Len(att) <= MaxAttach /\ (Len(att) = MaxAttach \/ ToSet(att) = MetOf("file"))
  BY <1>1, MimeAssumption DEF MimeTypes, Gathered
<1>5. /\ att' \in Seq(NamesOf("file"))
      /\ Counted(att') /\ ToSet(att') \subseteq MetOf("file")'
      /\ Len(att') <= MaxAttach /\ (Len(att') = MaxAttach \/ ToSet(att') = MetOf("file")')
  <2>1. CASE Type = "file" /\ Len(att) < MaxAttach
    <3>1. att' = Append(att, Name) /\ Append(att, Name) \in Seq(NamesOf("file"))
      BY <1>1, <1>2, <1>4, <2>1
    <3>2. Name \notin ToSet(att)
      BY <1>2, <1>4
    <3>3. Counted(Append(att, Name)) /\ Len(Append(att, Name)) = Len(att) + 1
      BY <1>4, <3>2, AppendCounted
    <3>4. ToSet(Append(att, Name)) = ToSet(att) \cup {Name}
      BY <1>4, AppendToSet
    <3>5. ToSet(att) = MetOf("file")
      BY <1>4, <2>1
    <3> QED
      BY <1>2, <1>4, <2>1, <3>1, <3>3, <3>4, <3>5
  <2>2. CASE Type = "file" /\ ~(Len(att) < MaxAttach)
    <3>1. att' = att /\ Len(att) = MaxAttach
      BY <1>1, <1>4, <2>2
    <3> QED
      BY <1>2, <1>4, <2>2, <3>1
  <2>3. CASE Type # "file"
    <3>1. att' = att
      BY <1>1, <2>3
    <3> QED
      BY <1>2, <1>4, <2>3, <3>1
  <2> QED
    BY <2>1, <2>2, <2>3
<1>6. MimeTypes'
  BY <1>1, <1>3, <1>5 DEF MimeTypes, NamesOf
<1>7. Gathered'
  BY <1>1, <1>2, <1>5 DEF Gathered
<1>8. Stopped'
  BY <1>1 DEF Stopped
<1> QED
  BY <1>3, <1>6, <1>7, <1>8 DEF MimeInv

LEMMA MultipartStep == ASSUME MimeInv, Multipart PROVE MimeInv'
<1>1. /\ HasPart /\ Type \in {"multi", "loose"} /\ searchBegin' = PartEnd
      /\ bounds' = IF Type = "multi" THEN Append(bounds, Name) ELSE bounds
      /\ phase' = IF Type = "multi" /\ Len(bounds) + 1 >= MaxBounds THEN "done" ELSE "loop"
      /\ message' = message /\ turn' = turn /\ out' = out /\ att' = att
      /\ MimeTypes /\ Gathered /\ turn <= Len(bounds)
  BY DEF Multipart, HasBound, MimeInv, HasPart, Searching
<1>2. /\ Name \in NamesOf(Type) /\ Name \notin MetOf("multi") /\ Name # Root
      /\ Type = "multi" => MetOf("multi")' = MetOf("multi") \cup {Name}
      /\ Type # "multi" => MetOf("multi")' = MetOf("multi")
      /\ MetOf("file")' = MetOf("file") /\ MetOf("text")' = MetOf("text")
  <2>1. bounds' = bounds \/ \E x : bounds' = Append(bounds, x)
    BY <1>1
  <2> QED
    BY <1>1, <2>1, PartTaken DEF Gathered
<1>3. /\ bounds \in Seq({Root} \cup NamesOf("multi")) /\ turn \in DOMAIN bounds
      /\ DOMAIN bounds = 1 .. Len(bounds) /\ Len(bounds) \in Nat
      /\ Counted(bounds) /\ IsInjective(bounds) /\ ToSet(bounds) = {Root} \cup MetOf("multi")
      /\ turn \in Nat \ {0} /\ MaxBounds \in Nat
  BY <1>1, MimeAssumption DEF MimeTypes, Gathered
<1>4. /\ bounds' \in Seq({Root} \cup NamesOf("multi"))
      /\ turn <= Len(bounds') /\ bounds'[turn] = bounds[turn]
      /\ Counted(bounds') /\ IsInjective(bounds') /\ ToSet(bounds') = {Root} \cup MetOf("multi")'
      /\ phase' = "done" => Len(bounds') >= MaxBounds
  <2>1. CASE Type = "multi"
    <3>1. bounds' = Append(bounds, Name) /\ Append(bounds, Name) \in Seq({Root} \cup NamesOf("multi"))
      BY <1>1, <1>2, <1>3, <2>1
    <3>2. Append(bounds, Name)[turn] = bounds[turn]
      BY <1>3
    <3>3. Name \notin ToSet(bounds)
      BY <1>2, <1>3
    <3>4. Counted(Append(bounds, Name)) /\ Len(Append(bounds, Name)) = Len(bounds) + 1
      BY <1>3, <3>3, AppendCounted
    <3>5. ToSet(Append(bounds, Name)) = ToSet(bounds) \cup {Name}
      BY <1>3, AppendToSet
    <3>6. IsInjective(Append(bounds, Name))
      <4>1. Name \in {Root} \cup NamesOf("multi")
        BY <1>2, <2>1
      <4> QED
        BY <1>3, <3>3, <4>1, AppendInjectiveSeq
    <3>7. phase' = "done" => Len(bounds) + 1 >= MaxBounds
      BY <1>1
    <3> QED
      BY <1>1, <1>2, <1>3, <2>1, <3>1, <3>2, <3>4, <3>5, <3>6, <3>7
  <2>2. CASE Type # "multi"
    <3>1. bounds' = bounds /\ phase' = "loop"
      BY <1>1, <2>2
    <3> QED
      BY <1>1, <1>2, <1>3, <2>2, <3>1
  <2> QED
    BY <2>1, <2>2
<1>5. AtDelimiter' /\ searchBegin' \in Nat \ {0}
  BY <1>1, <1>4, SearchGoesOn
<1>6. MimeTypes'
  <2>1. turn' <= Len(bounds') + 1 /\ phase' \in {"loop", "done"}
    <3>1. Len(bounds') \in Nat
      BY <1>4
    <3> QED
      BY <1>1, <1>3, <1>4, <3>1
  <2> QED
    BY <1>1, <1>4, <1>5, <2>1 DEF MimeTypes, NamesOf
<1>7. Gathered'
  BY <1>1, <1>2, <1>4 DEF Gathered
<1>8. Stopped'
  BY <1>4 DEF Stopped
<1> QED
  BY <1>5, <1>6, <1>7, <1>8 DEF MimeInv

LEMMA LastDelimiterStep == ASSUME MimeInv, LastDelimiter PROVE MimeInv'
<1>1. /\ searchBegin' = 1 /\ turn' = turn + 1 /\ message' = message /\ bounds' = bounds
      /\ out' = out /\ att' = att /\ phase' = phase
      /\ MimeTypes /\ Gathered /\ phase = "loop" /\ turn <= Len(bounds)
  BY DEF LastDelimiter, Closing, Searching, MimeInv
<1>2. \A k \in DOMAIN message : Met(k)' <=> Met(k)
  BY <1>1, LastMet
<1>3. \A type : MetOf(type)' = MetOf(type)
  BY <1>1, <1>2 DEF MetOf
<1>4. MimeTypes'
  BY <1>1 DEF MimeTypes, NamesOf
<1>5. Gathered'
  BY <1>1, <1>3 DEF Gathered
<1>6. AtDelimiter' /\ Stopped'
  BY <1>1 DEF AtDelimiter, Stopped
<1> QED
  BY <1>4, <1>5, <1>6 DEF MimeInv

LEMMA StopStep == ASSUME MimeInv, Stop PROVE MimeInv'
<1>1. /\ phase' = "done" /\ message' = message /\ bounds' = bounds /\ turn' = turn
      /\ searchBegin' = searchBegin /\ out' = out /\ att' = att
      /\ MimeTypes /\ Gathered /\ AtDelimiter /\ phase = "loop" /\ ~HasPart /\ ~Closing
  BY DEF Stop, MimeInv
<1>2. \A type : MetOf(type)' = MetOf(type)
  BY <1>1 DEF MetOf, Met, Owner
<1>3. MimeTypes' /\ AtDelimiter'
  BY <1>1 DEF MimeTypes, NamesOf, AtDelimiter
<1>4. Gathered'
  BY <1>1, <1>2 DEF Gathered
<1>5. ~GoesOn
  <2> SUFFICES ASSUME GoesOn PROVE FALSE
    OBVIOUS
  <2>1. Begin # 0 /\ turn <= Len(bounds) /\ (message[Begin][1] = "end" \/ (Header # 0 /\ message[Header][1] # "long" /\ PartEnd # 0))
    BY DEF GoesOn
  <2>2. IsDelimiter(message[Begin])
    BY <1>1, <2>1, BeginFound
  <2> QED
    BY <1>1, <2>1, <2>2 DEF IsDelimiter, HasPart, Closing, Searching
<1>6. GoesOn' = GoesOn
  <2>1. Begin' = Begin
    BY <1>1 DEF Begin, Delimiter, IsDelimiter
  <2>2. Header' = Header
    BY <1>1, <2>1 DEF Header, IsPart
  <2>3. PartEnd' = PartEnd
    BY <1>1, <2>2 DEF PartEnd, Delimiter, IsDelimiter
  <2> QED
    BY <1>1, <2>1, <2>2, <2>3 DEF GoesOn
<1>7. Stopped'
  BY <1>5, <1>6 DEF Stopped
<1> QED
  BY <1>3, <1>4, <1>7 DEF MimeInv

(* Before the first round nothing has been come to. *)
LEMMA MimeBegins == ASSUME MimeInit PROVE MimeInv
<1>1. /\ message \in Messages /\ bounds = <<Root>> /\ turn = 1 /\ searchBegin = 1
      /\ out = <<>> /\ att = <<>> /\ phase = "loop" /\ MaxAttach \in Nat
  BY MimeAssumption DEF MimeInit
<1>2. MimeTypes
  BY <1>1 DEF MimeTypes
<1>3. \A type : MetOf(type) = {}
  <2>1. \A k \in DOMAIN message : ~Met(k)
    <3> SUFFICES ASSUME NEW k \in DOMAIN message, Met(k) PROVE FALSE
      OBVIOUS
    <3>1. IsPart(message[k])
      BY DEF Met
    <3>2. PICK j \in DOMAIN bounds : j <= turn /\ (j = turn => k - 1 < searchBegin)
      BY DEF Met
    <3>3. j = turn
      BY <1>1, <3>2
    <3> QED
      BY <1>1, <3>1, <3>2, <3>3, WellPlaced
  <2> QED
    BY <2>1 DEF MetOf
<1>4. ToSet(<<>>) = {} /\ ToSet(<<Root>>) = {Root}
  <2>1. DOMAIN <<Root>> = {1} /\ DOMAIN <<>> = {}
    OBVIOUS
  <2> QED
    BY <2>1 DEF ToSet
<1>5. Counted(<<>>) /\ Counted(<<Root>>)
  <2>1. Len(<<>>) = 0 /\ Len(<<Root>>) = 1
    OBVIOUS
  <2>2. IsFiniteSet({}) /\ Cardinality({}) = 0 /\ IsFiniteSet({Root}) /\ Cardinality({Root}) = 1
    BY FS_EmptySet, FS_Singleton
  <2>3. Counted(<<>>)
    BY <1>4, <2>1, <2>2 DEF Counted
  <2>4. Counted(<<Root>>)
    BY <1>4, <2>1, <2>2 DEF Counted
  <2> QED
    BY <2>3, <2>4
<1>6. Gathered
  <2>1. Counted(bounds) /\ Counted(out) /\ Counted(att)
    BY <1>1, <1>5
  <2>2. IsInjective(bounds)
    BY <1>1, EmptyInjective
  <2>3. ToSet(bounds) = {Root} \cup MetOf("multi") /\ ToSet(out) = MetOf("text") /\ ToSet(att) = MetOf("file")
    BY <1>1, <1>3, <1>4
  <2>4. Len(att) <= MaxAttach
    BY <1>1
  <2> QED
    BY <2>1, <2>2, <2>3, <2>4 DEF Gathered
<1> QED
  BY <1>1, <1>2, <1>6 DEF MimeInv, AtDelimiter, Stopped

(* The invariant is inductive. *)
LEMMA MimeSteps == ASSUME MimeInv, [MimeNext]_mimeVars PROVE MimeInv'
<1>1. CASE UNCHANGED mimeVars
  <2>1. /\ message' = message /\ bounds' = bounds /\ turn' = turn
        /\ searchBegin' = searchBegin /\ out' = out /\ att' = att /\ phase' = phase
    BY <1>1 DEF mimeVars
  <2>2. \A type : MetOf(type)' = MetOf(type)
    BY <2>1 DEF MetOf, Met, Owner
  <2>3. MimeTypes' /\ AtDelimiter'
    BY <2>1 DEF MimeInv, MimeTypes, NamesOf, AtDelimiter
  <2>4. Gathered'
    BY <2>1, <2>2 DEF MimeInv, Gathered
  <2>5. GoesOn' <=> GoesOn
    <3>1. Begin' = Begin
      BY <2>1 DEF Begin, Delimiter, IsDelimiter
    <3>2. Header' = Header
      BY <2>1, <3>1 DEF Header, IsPart
    <3>3. PartEnd' = PartEnd
      BY <2>1, <3>2 DEF PartEnd, Delimiter, IsDelimiter
    <3> QED
      BY <2>1, <3>1, <3>2, <3>3 DEF GoesOn
  <2>6. Stopped'
    BY <2>1, <2>5 DEF MimeInv, Stopped
  <2> QED
    BY <2>3, <2>4, <2>6 DEF MimeInv
<1> QED
  BY <1>1, LastDelimiterStep, TextStep, MultipartStep, FileStep, StopStep DEF MimeNext

(* When all boundaries are done, every part has been come to: the one it    *)
(* belongs to was, and so on up to the beginning of the message.           *)
LEMMA AllMet ==
  ASSUME MimeTypes, Gathered, turn > Len(bounds)
  PROVE  \A k \in DOMAIN message : IsPart(message[k]) => Met(k)
<1> DEFINE n == Len(message)
           T == {k \in 0 .. n : \A j \in 1 .. k : IsPart(message[j]) => Met(j)}
<1>1. n \in Nat /\ DOMAIN message = 1 .. n
  BY MessageTyped DEF MimeTypes
<1>2. /\ turn \in Nat /\ Len(bounds) \in Nat /\ DOMAIN bounds = 1 .. Len(bounds)
      /\ ToSet(bounds) = {Root} \cup MetOf("multi")
  BY DEF MimeTypes, Gathered
<1> HIDE DEF n
<1>3. 0 \in T
  BY <1>1
<1>4. ASSUME NEW k \in 1 .. n, k - 1 \in T PROVE k \in T
  <2>1. \A j \in 1 .. (k - 1) : IsPart(message[j]) => Met(j)
    BY <1>4
  <2>2. ASSUME IsPart(message[k]) PROVE Met(k)
    <3>1. /\ k \in DOMAIN message /\ k > 1 /\ k - 1 \in DOMAIN message
          /\ message[k - 1][1] = "--"
      BY <1>1, <2>2, WellPlaced DEF MimeTypes
    <3>2. Owner(k) \in ToSet(bounds)
      <4>1. CASE Owner(k) = Root
        BY <1>2, <4>1
      <4>2. CASE Owner(k) # Root
        <5>1. PICK j \in 1 .. (k - 1) - 1 : message[j] = <<"multi", Owner(k)>>
          <6>1. message[k - 1][2] # Root
            BY <4>2 DEF Owner
          <6>2. WellFormed(message)
            BY MessageTyped DEF MimeTypes
          <6> QED
            BY <3>1, <6>1, <6>2 DEF WellFormed, Owner
        <5>2. j \in 1 .. (k - 1) /\ j \in DOMAIN message
          BY <1>1, <5>1
        <5>3. message[j][1] = "multi" /\ message[j][2] = Owner(k)
          BY <5>1
        <5>4. Met(j)
          BY <2>1, <5>2, <5>3 DEF IsPart, PartType
        <5> QED
          BY <1>2, <5>2, <5>3, <5>4 DEF MetOf
      <4> QED
        BY <4>1, <4>2
    <3>3. PICK j \in DOMAIN bounds : bounds[j] = Owner(k)
      BY <3>2 DEF ToSet
    <3>4. j <= turn /\ j # turn
      BY <1>2, <3>3
    <3> QED
      BY <2>2, <3>1, <3>3, <3>4 DEF Met
  <2>3. k \in 0 .. n /\ \A j \in 1 .. k : j \in 1 .. (k - 1) \/ j = k
    BY <1>1
  <2> QED
    BY <2>1, <2>2, <2>3
<1>5. n \in T
  <2> HIDE DEF T
  <2>1. \A k \in 0 .. n : k \in T
    BY <1>1, <1>3, <1>4, NumbersReached
  <2> QED
    BY <1>1, <2>1
<1> QED
  BY <1>1, <1>5

(* In a complete message the search goes on until all boundaries are done.  *)
LEMMA CompleteGoesOn ==
  ASSUME MimeTypes, Gathered, AtDelimiter, turn <= Len(bounds), NamesOf("long") = {},
         \A b \in {Root} \cup NamesOf("multi") : <<"end", b>> \in ToSet(message)
  PROVE  GoesOn
<1> DEFINE b == bounds[turn]
           n == Len(message)
<1>1. /\ n \in Nat /\ DOMAIN message = 1 .. n
      /\ turn \in DOMAIN bounds /\ searchBegin \in Nat \ {0} /\ b \in {Root} \cup NamesOf("multi")
  BY MessageTyped DEF MimeTypes
<1>2. PICK e \in DOMAIN message : message[e] = <<"end", b>>
  BY <1>1 DEF ToSet
<1>3. message[e][1] = "end" /\ message[e][2] = b /\ IsDelimiter(message[e]) /\ e \in Nat
  BY <1>1, <1>2 DEF IsDelimiter
<1>4. searchBegin <= e
  <2>1. CASE searchBegin = 1
    BY <1>1, <1>2, <2>1
  <2>2. CASE searchBegin # 1
    <3>1. searchBegin \in DOMAIN message /\ IsDelimiter(message[searchBegin]) /\ message[searchBegin][2] = b
      BY <2>2 DEF AtDelimiter
    <3> QED
      BY <1>2, <1>3, <3>1, WellPlaced DEF MimeTypes
  <2> QED
    BY <2>1, <2>2
<1>5. Begin # 0
  <2> DEFINE P == {k \in searchBegin .. n : IsDelimiter(message[k]) /\ message[k][2] = b}
  <2>1. P \subseteq Nat \ {0} /\ e \in P
    BY <1>1, <1>2, <1>3, <1>4
  <2>2. Begin = First(P)
    BY DEF Begin, Delimiter
  <2> HIDE DEF P
  <2> QED
    BY <2>1, <2>2, FirstFound
<1>6. /\ Begin \in DOMAIN message /\ Begin \in Nat
      /\ IsDelimiter(message[Begin]) /\ message[Begin][2] = b
  BY <1>5, BeginFound
<1>7. ASSUME message[Begin][1] # "end" PROVE Header # 0 /\ message[Header][1] # "long" /\ PartEnd # 0
  <2>1. message[Begin][1] = "--"
    BY <1>6, <1>7 DEF IsDelimiter
  <2>2. Begin < e
    <3>1. Begin <= e
      BY <1>2, <1>3, <1>6, WellPlaced, SMTT(30) DEF MimeTypes
    <3> QED
      BY <1>3, <1>6, <1>7, <3>1
  <2>3. IsPart(message[Begin + 1]) /\ Begin + 1 \in DOMAIN message /\ Begin + 1 <= e
    <3>1. Begin < n
      BY <1>1, <1>2, <1>6, <2>2
    <3>2. IsPart(message[Begin + 1])
      BY <1>6, <2>1, <3>1, WellPlaced DEF MimeTypes
    <3> QED
      BY <1>1, <1>3, <1>6, <2>2, <3>1, <3>2
  <2>4. Begin + 1 < e
    <3>1. Begin + 1 # e
      BY <1>3, <2>3, WellPlaced DEF MimeTypes
    <3> QED
      BY <1>3, <1>6, <2>3, <3>1
  <2> DEFINE P == {k \in Begin + 1 .. n : IsPart(message[k])}
             Q == {k \in Header + 1 .. n : IsDelimiter(message[k]) /\ message[k][2] = b}
  <2>5. P \subseteq Nat \ {0} /\ Begin + 1 \in P
    BY <1>1, <1>6, <2>3
  <2>6. Header = First(P)
    BY DEF Header
  <2>7. Header # 0 /\ Header <= Begin + 1 /\ Header \in Nat /\ Header \in P
    <3> HIDE DEF P
    <3> QED
      BY <2>5, <2>6, FirstFound
  <2>11. message[Header][1] # "long"
    <3>1. Header \in DOMAIN message
      BY <1>1, <1>6, <2>7
    <3>2. message[Header][1] = "long" => message[Header][2] \in NamesOf("long")
      BY <3>1 DEF NamesOf
    <3> QED
      BY <3>2
  <2>8. Q \subseteq Nat \ {0} /\ e \in Q
    <3>1. e \in Header + 1 .. n
      BY <1>1, <1>2, <1>3, <1>6, <2>4, <2>7
    <3>2. \A k \in Header + 1 .. n : k \in Nat \ {0}
      BY <1>1, <2>7
    <3> HIDE DEF n, b, P
    <3> QED
      BY <1>3, <3>1, <3>2
  <2>9. PartEnd = First(Q)
    BY DEF PartEnd, Delimiter
  <2> HIDE DEF Q
  <2>10. PartEnd # 0
    BY <2>8, <2>9, FirstFound
  <2> QED
    BY <2>7, <2>10, <2>11
<1> QED
  BY <1>5, <1>7 DEF GoesOn

(* Complete messages: everything is taken. *)
LEMMA AllTaken == ASSUME MimeInv PROVE EverythingTaken
<1> SUFFICES ASSUME phase = "done", NamesOf("long") = {},
                    \A b \in {Root} \cup NamesOf("multi") : <<"end", b>> \in ToSet(message),
                    Cardinality(NamesOf("multi")) + 1 < MaxBounds
             PROVE  /\ ToSet(out) = NamesOf("text")
                    /\ ToSet(att) \subseteq NamesOf("file")
                    /\ Len(att) = Min({MaxAttach, Cardinality(NamesOf("file"))})
  BY DEF EverythingTaken
<1>1. MimeTypes /\ Gathered /\ AtDelimiter /\ Stopped
  BY DEF MimeInv
<1>2. /\ Len(bounds) \in Nat /\ Len(att) \in Nat /\ turn \in Nat /\ turn <= Len(bounds) + 1
      /\ MaxBounds \in Nat /\ MaxAttach \in Nat
  BY <1>1, MimeAssumption DEF MimeTypes
<1>3. \A type : MetOf(type) \subseteq NamesOf(type)
  BY DEF MetOf, NamesOf
<1>4. \A type : IsFiniteSet(NamesOf(type)) /\ Cardinality(NamesOf(type)) \in Nat
  <2> SUFFICES ASSUME NEW type PROVE IsFiniteSet(NamesOf(type))
    BY FS_CardinalityType
  <2> DEFINE K == {k \in DOMAIN message : message[k][1] = type}
  <2>1. IsFiniteSet(DOMAIN message)
    <3>1. DOMAIN message = 1 .. Len(message) /\ Len(message) \in Int /\ 1 \in Int
      BY <1>1, MessageTyped DEF MimeTypes
    <3> QED
      BY <3>1, FS_Interval
  <2>2. IsFiniteSet(K)
    BY <2>1, FS_Subset
  <2>3. NamesOf(type) = {message[k][2] : k \in K}
    BY DEF NamesOf
  <2> HIDE DEF K
  <2> DEFINE f == [k \in K |-> message[k][2]]
  <2>4. f \in Surjection(K, NamesOf(type))
    BY <2>3 DEF Surjection
  <2> HIDE DEF f
  <2> QED
    BY <2>2, <2>4, FS_Surjection
<1>5. Len(bounds) < MaxBounds
  <2>1. ToSet(bounds) \subseteq NamesOf("multi") \cup {Root}
    BY <1>1, <1>3 DEF Gathered
  <2>2. /\ IsFiniteSet(NamesOf("multi") \cup {Root})
        /\ Cardinality(NamesOf("multi") \cup {Root}) <= Cardinality(NamesOf("multi")) + 1
        /\ Cardinality(NamesOf("multi") \cup {Root}) \in Nat
    <3>1. /\ IsFiniteSet(NamesOf("multi") \cup {Root})
          /\ Cardinality(NamesOf("multi") \cup {Root}) =
               IF Root \in NamesOf("multi") THEN Cardinality(NamesOf("multi")) ELSE Cardinality(NamesOf("multi")) + 1
      BY <1>4, FS_AddElement
    <3> QED
      BY <1>4, <3>1
  <2>3. Cardinality(ToSet(bounds)) <= Cardinality(NamesOf("multi") \cup {Root})
    BY <2>1, <2>2, FS_Subset
  <2>4. Len(bounds) = Cardinality(ToSet(bounds))
    BY <1>1 DEF Gathered, Counted
  <2> QED
    BY <1>2, <1>4, <2>2, <2>3, <2>4
<1>6. turn > Len(bounds)
  <2>1. ~GoesOn
    BY <1>1, <1>2, <1>5 DEF Stopped
  <2> QED
    BY <1>1, <1>2, <2>1, CompleteGoesOn
<1>7. ASSUME NEW type \in PartType PROVE MetOf(type) = NamesOf(type)
  <2>1. \A k \in DOMAIN message : message[k][1] = type => Met(k)
    BY <1>1, <1>6, AllMet DEF IsPart
  <2> QED
    BY <2>1 DEF MetOf, NamesOf
<1>8. ToSet(out) = NamesOf("text") /\ ToSet(att) \subseteq NamesOf("file")
  BY <1>1, <1>7 DEF Gathered, PartType
<1>9. Len(att) = Min({MaxAttach, Cardinality(NamesOf("file"))})
  <2> DEFINE c == Cardinality(NamesOf("file"))
  <2>1. c \in Nat /\ Len(att) <= c /\ Len(att) <= MaxAttach
        /\ (Len(att) = MaxAttach \/ Len(att) = c)
    <3>1. Len(att) = Cardinality(ToSet(att)) /\ Len(att) <= MaxAttach
          /\ (Len(att) = MaxAttach \/ ToSet(att) = NamesOf("file"))
      BY <1>1, <1>7 DEF Gathered, Counted, PartType
    <3>2. Cardinality(ToSet(att)) <= c
      BY <1>4, <1>8, FS_Subset
    <3> QED
      BY <1>4, <3>1, <3>2
  <2> HIDE DEF c
  <2>2. Min({MaxAttach, c}) = Len(att)
    <3>1. Len(att) \in {MaxAttach, c} /\ \A y \in {MaxAttach, c} : Len(att) <= y
      BY <1>2, <2>1
    <3>2. \A x \in {MaxAttach, c} : (\A y \in {MaxAttach, c} : x <= y) => x = Len(att)
      BY <1>2, <2>1
    <3> QED
      BY <3>1, <3>2 DEF Min
  <2> QED
    BY <2>2 DEF c
<1> QED
  BY <1>8, <1>9

(* decodeMp: of a well-formed mail no text and no attachment is taken twice, *)
(* wherever it breaks off, although it is gone through once for each       *)
(* boundary; and of one that is complete, has fewer multiparts than there  *)
(* is room for and no part with too long headers, all are, as far as       *)
(* attachments are allowed.                                                *)
THEOREM PartsTakenOnce == MimeSpec => []ExactlyOnce
<1>1. MimeInit => MimeInv
  BY MimeBegins
<1>2. MimeInv /\ [MimeNext]_mimeVars => MimeInv'
  BY MimeSteps
<1>3. MimeInv => ExactlyOnce
  <2> SUFFICES ASSUME MimeInv PROVE NothingTwice
    BY AllTaken DEF ExactlyOnce
  <2> QED
    BY DEF MimeInv, Gathered, Counted, NothingTwice
<1> QED
  BY <1>1, <1>2, <1>3, PTL DEF MimeSpec

(* There is room for one more boundary as long as the search goes on. *)
RoomLeft == Len(bounds) \in 1 .. MaxBounds /\ (phase = "loop" => Len(bounds) < MaxBounds)

LEMMA RoomStep == ASSUME MimeInv, RoomLeft, [MimeNext]_mimeVars PROVE RoomLeft'
<1>0. /\ Len(bounds) \in Nat /\ MaxBounds \in Nat /\ phase \in {"loop", "done"}
      /\ bounds \in Seq({Root} \cup NamesOf("multi"))
  BY MimeAssumption DEF MimeInv, MimeTypes
<1>1. CASE Multipart
  <2>1. /\ bounds' = IF HasBound THEN Append(bounds, Name) ELSE bounds
        /\ phase' = IF HasBound /\ Len(bounds) + 1 >= MaxBounds THEN "done" ELSE "loop"
        /\ phase = "loop"
    BY <1>1 DEF Multipart, HasPart, Searching
  <2>2. CASE HasBound
    <3>1. Len(Append(bounds, Name)) = Len(bounds) + 1
      BY <1>0
    <3>2. Len(bounds') = Len(bounds) + 1
      BY <2>1, <2>2, <3>1
    <3> QED
      BY <1>0, <2>1, <2>2, <3>2 DEF RoomLeft
  <2>3. CASE ~HasBound
    BY <1>0, <2>1, <2>3 DEF RoomLeft
  <2> QED
    BY <2>2, <2>3
<1>2. CASE LastDelimiter \/ Text \/ File \/ Stop \/ UNCHANGED mimeVars
  <2>1. bounds' = bounds /\ (phase' = phase \/ phase' = "done")
    BY <1>2 DEF LastDelimiter, Text, File, Stop, mimeVars
  <2> QED
    BY <2>1 DEF RoomLeft
<1> QED
  BY <1>1, <1>2 DEF MimeNext

(* decodeMp: no boundary is written behind the end of the array, and no     *)
(* attachment, and the search never leaves the message.                    *)
THEOREM ArraysSuffice == MimeSpec => []MimeTypeOK
<1>1. MimeInit => MimeInv /\ RoomLeft
  <2> SUFFICES ASSUME MimeInit PROVE RoomLeft
    BY MimeBegins
  <2>1. Len(bounds) = 1 /\ MaxBounds \in Nat \ {0, 1}
    BY MimeAssumption DEF MimeInit
  <2> QED
    BY <2>1 DEF RoomLeft
<1>2. MimeInv /\ RoomLeft /\ [MimeNext]_mimeVars => (MimeInv /\ RoomLeft)'
  BY MimeSteps, RoomStep
<1>3. MimeInv /\ RoomLeft => MimeTypeOK
  <2> SUFFICES ASSUME MimeInv, RoomLeft PROVE MimeTypeOK
    OBVIOUS
  <2>1. /\ turn \in Nat \ {0} /\ turn <= Len(bounds) + 1 /\ Len(bounds) \in Nat
        /\ searchBegin \in Nat \ {0} /\ phase \in {"loop", "done"} /\ Len(att) <= MaxAttach
    BY DEF MimeInv, MimeTypes, Gathered
  <2>2. Len(message) \in Nat /\ DOMAIN message = 1 .. Len(message)
    BY MessageTyped DEF MimeInv, MimeTypes
  <2>3. searchBegin \in 1 .. Len(message) + 1
    BY <2>1, <2>2 DEF MimeInv, AtDelimiter
  <2> QED
    BY <2>1, <2>3 DEF MimeTypeOK, RoomLeft
<1> QED
  BY <1>1, <1>2, <1>3, PTL DEF MimeSpec
=============================================================================
