--------------------------- MODULE SendMailProofs ---------------------------
(***************************************************************************)
(* What sendMail tells AEM-API about an email, for every reply of the      *)
(* other server, in whatever pieces it comes: a reply that is read as the  *)
(* one to a later command is never the one that is taken for success.      *)
(* And about the texts that go from server to server, of any length: the   *)
(* bits of base64, the dots of a body, the bytes of quoted-printable, the  *)
(* five bits of each character of an address, the words of plain text.     *)
(***************************************************************************)
EXTENDS SendMail, Texts, SequenceLemmas, TLAPS

(* What the other server has not replied to, and the codes in the pieces   *)
(* of a reply.                                                             *)
Waiting  == {todo[k] : k \in DOMAIN todo}
Codes(s) == {s[i].code : i \in DOMAIN s}

(* A result is what ends the sending. *)
Undecided == at \in {"enquire", "connect", "send", "receive"}

Progress ==
  /\ at \in {"enquire", "connect"} => n = 1 /\ wire = <<>> /\ todo = <<>>
  /\ Undecided => result = "none"
  /\ at \in {"quit", "bye", "done"} => result # "none"

(* From the handshake on everything is encrypted. *)
Encrypted ==
  /\ n >= 5 => inTls
  /\ at = "receive" => n # 4
  /\ EnvelopeEncrypted

(* The mail itself is sent at last, and what is made of the reply to it is *)
(* success or the error BODY.                                              *)
BodyIsLast ==
  "body" \in Waiting \/ accepted =>
    n = 9 /\ at # "send" /\ result \in {"none", "ok", "BODY"}

(* Codes of the reply to DATA, and of nothing else. *)
GoAhead == {"354", ""}

NothingBefore == "354" \notin Codes(wire) /\ "DATA" \notin Waiting

(* Replies to earlier commands may still be on their way when the next one *)
(* is sent, but only up to DATA: its reply has a code of its own.          *)
DataComes ==
  \/ "354" \notin Codes(wire) /\ \A k \in DOMAIN todo : todo[k] = "DATA" => k = Len(todo)
  \/ /\ todo = <<>> /\ mode = "data"
     /\ \A i, j \in DOMAIN wire : i <= j /\ wire[i].code = "354" => wire[j].code \in GoAhead

BodyMayCome == todo = <<>> /\ mode = "data" /\ Codes(wire) \subseteq GoAhead

BodyComes ==
  \/ todo \in {<<>>, <<"body">>} /\ mode = "data" /\ Codes(wire) \subseteq GoAhead
  \/ todo = <<>> /\ ("250" \in Codes(wire) => accepted)

InStep ==
  /\ Undecided /\ (n < 8 \/ (n = 8 /\ at = "send")) => NothingBefore
  /\ n = 8 /\ at = "receive" => DataComes
  /\ n = 9 /\ at = "send" => BodyMayCome
  /\ n = 9 /\ at = "receive" => BodyComes

Inv == TypeOK /\ Progress /\ Encrypted /\ BodyIsLast /\ InStep /\ OkIsAccepted

-----------------------------------------------------------------------------
(* The protocol and sequences. *)

LEMMA StepNumbers ==
  /\ DOMAIN Script = 1 .. 9 /\ Len(Script) = 9
  /\ DOMAIN Script = {1, 2, 3, 4, 5, 6, 7, 8, 9}
<1>1. DOMAIN Script = 1 .. 9 /\ Len(Script) = 9
  BY DEF Script
<1>2. 1 .. 9 = {1, 2, 3, 4, 5, 6, 7, 8, 9}
  OBVIOUS
<1> QED
  BY <1>1, <1>2

LEMMA CommandAt ==
  /\ Script[1][1] = "greet" /\ Script[2][1] = "EHLO" /\ Script[3][1] = "STARTTLS"
  /\ Script[4][1] = "shake" /\ Script[5][1] = "EHLO" /\ Script[6][1] = "MAIL"
  /\ Script[7][1] = "RCPT" /\ Script[8][1] = "DATA" /\ Script[9][1] = "body"
<1>1. Script[1][1] = "greet" /\ Script[2][1] = "EHLO" /\ Script[3][1] = "STARTTLS"
  BY DEF Script
<1>2. Script[4][1] = "shake" /\ Script[5][1] = "EHLO" /\ Script[6][1] = "MAIL"
  BY DEF Script
<1>3. Script[7][1] = "RCPT" /\ Script[8][1] = "DATA" /\ Script[9][1] = "body"
  BY DEF Script
<1> QED
  BY <1>1, <1>2, <1>3

LEMMA CodeAt ==
  /\ Script[1][2] = "220" /\ Script[2][2] = "250" /\ Script[3][2] = "220"
  /\ Script[4][2] = "" /\ Script[5][2] = "250" /\ Script[6][2] = "250"
  /\ Script[7][2] = "250" /\ Script[8][2] = "354" /\ Script[9][2] = "250"
<1>1. Script[1][2] = "220" /\ Script[2][2] = "250" /\ Script[3][2] = "220"
  BY DEF Script
<1>2. Script[4][2] = "" /\ Script[5][2] = "250" /\ Script[6][2] = "250"
  BY DEF Script
<1>3. Script[7][2] = "250" /\ Script[8][2] = "354" /\ Script[9][2] = "250"
  BY DEF Script
<1> QED
  BY <1>1, <1>2, <1>3

LEMMA ErrorAt ==
  /\ Script[1][3] = "GREET" /\ Script[2][3] = "EHLO" /\ Script[3][3] = "STLS"
  /\ Script[4][3] = "SHAKE" /\ Script[5][3] = "EHLO" /\ Script[6][3] = "MAIL"
  /\ Script[7][3] = "RCPT" /\ Script[8][3] = "DATA" /\ Script[9][3] = "BODY"
<1>1. Script[1][3] = "GREET" /\ Script[2][3] = "EHLO" /\ Script[3][3] = "STLS"
  BY DEF Script
<1>2. Script[4][3] = "SHAKE" /\ Script[5][3] = "EHLO" /\ Script[6][3] = "MAIL"
  BY DEF Script
<1>3. Script[7][3] = "RCPT" /\ Script[8][3] = "DATA" /\ Script[9][3] = "BODY"
  BY DEF Script
<1> QED
  BY <1>1, <1>2, <1>3

LEMMA Commands ==
  /\ Command = {"greet", "EHLO", "STARTTLS", "shake", "MAIL", "RCPT", "DATA", "body", "QUIT"}
  /\ Error = {"GREET", "EHLO", "STLS", "SHAKE", "MAIL", "RCPT", "DATA", "BODY", "NOTLS", "INTERNAL"}
<1>1. {Script[k][1] : k \in DOMAIN Script} =
        {"greet", "EHLO", "STARTTLS", "shake", "MAIL", "RCPT", "DATA", "body"}
  BY StepNumbers, CommandAt
<1>2. {Script[k][3] : k \in DOMAIN Script} =
        {"GREET", "EHLO", "STLS", "SHAKE", "MAIL", "RCPT", "DATA", "BODY"}
  BY StepNumbers, ErrorAt
<1> QED
  BY <1>1, <1>2 DEF Command, Error

(* The code that the reply to a command begins with; only that to DATA is  *)
(* 354.                                                                    *)
LEMMA CodeFor ==
  ASSUME NEW c \in Command
  PROVE  /\ CodeOf(c) \in {"220", "221", "250", "354", ""}
         /\ CodeOf(c) = "354" <=> c = "DATA"
<1>1. CASE c = "QUIT"
  BY <1>1 DEF CodeOf
<1>2. CASE c # "QUIT"
  <2>1. \E k \in DOMAIN Script : Script[k][1] = c
    BY <1>2 DEF Command
  <2> DEFINE j == CHOOSE k \in DOMAIN Script : Script[k][1] = c
  <2>2. j \in DOMAIN Script /\ Script[j][1] = c
    BY <2>1
  <2>3. CodeOf(c) = Script[j][2]
    BY <1>2 DEF CodeOf
  <2> HIDE DEF j
  <2> QED
    BY <2>2, <2>3, StepNumbers, CommandAt, CodeAt, ZenonT(60)
<1> QED
  BY <1>1, <1>2

LEMMA OneOrTwo ==
  ASSUME NEW S, NEW p \in S, NEW q \in S
  PROVE  /\ <<p>> \in Seq(S) /\ \A i \in DOMAIN <<p>> : <<p>>[i] = p
         /\ <<p, q>> \in Seq(S) /\ \A i \in DOMAIN <<p, q>> : <<p, q>>[i] \in {p, q}
  OBVIOUS

(* A reply has no code but its own. *)
LEMMA ReplyIs ==
  ASSUME NEW c \in {"220", "221", "250", "354", "550", ""}, NEW tls \in BOOLEAN,
         NEW r \in Reply(c, tls)
  PROVE  r \in Seq(Piece) /\ Codes(r) \subseteq {c, ""}
<1> DEFINE P(code, more, crlf, t) == [code |-> code, more |-> more, crlf |-> crlf, tls |-> t]
<1>1. \A code \in {c, ""}, more, crlf, t \in BOOLEAN :
        P(code, more, crlf, t) \in Piece /\ P(code, more, crlf, t).code = code
  BY DEF Piece
<1>2. \/ \E m \in BOOLEAN : r = <<P(c, m, TRUE, tls)>>
      \/ r = <<P(c, FALSE, FALSE, FALSE), P("", FALSE, TRUE, tls)>>
      \/ \E t \in {FALSE, tls} : r = <<P(c, TRUE, TRUE, t), P(c, FALSE, TRUE, tls /\ ~t)>>
  BY DEF Reply
<1> HIDE DEF P
<1>3. \/ \E p \in Piece : p.code \in {c, ""} /\ r = <<p>>
      \/ \E p, q \in Piece : p.code \in {c, ""} /\ q.code \in {c, ""} /\ r = <<p, q>>
  <2>1. ASSUME NEW m \in BOOLEAN, r = <<P(c, m, TRUE, tls)>>
        PROVE  \E p \in Piece : p.code \in {c, ""} /\ r = <<p>>
    BY <1>1, <2>1
  <2>2. ASSUME r = <<P(c, FALSE, FALSE, FALSE), P("", FALSE, TRUE, tls)>>
        PROVE  \E p, q \in Piece : p.code \in {c, ""} /\ q.code \in {c, ""} /\ r = <<p, q>>
    BY <1>1, <2>2
  <2>3. ASSUME NEW t \in {FALSE, tls}, r = <<P(c, TRUE, TRUE, t), P(c, FALSE, TRUE, tls /\ ~t)>>
        PROVE  \E p, q \in Piece : p.code \in {c, ""} /\ q.code \in {c, ""} /\ r = <<p, q>>
    <3>1. t \in BOOLEAN /\ (tls /\ ~t) \in BOOLEAN
      OBVIOUS
    <3> QED
      BY <1>1, <2>3, <3>1
  <2> QED
    BY <1>2, <2>1, <2>2, <2>3
<1>4. ASSUME NEW p \in Piece, p.code \in {c, ""}, r = <<p>>
      PROVE  r \in Seq(Piece) /\ Codes(r) \subseteq {c, ""}
  <2>1. r \in Seq(Piece) /\ \A i \in DOMAIN r : r[i] = p
    BY <1>4, OneOrTwo
  <2> QED
    BY <1>4, <2>1 DEF Codes
<1>5. ASSUME NEW p \in Piece, NEW q \in Piece, p.code \in {c, ""}, q.code \in {c, ""}, r = <<p, q>>
      PROVE  r \in Seq(Piece) /\ Codes(r) \subseteq {c, ""}
  <2>1. r \in Seq(Piece) /\ \A i \in DOMAIN r : r[i] \in {p, q}
    BY <1>5, OneOrTwo
  <2> QED
    BY <1>5, <2>1 DEF Codes
<1> QED
  BY <1>3, <1>4, <1>5

LEMMA Concatenated ==
  ASSUME NEW w \in Seq(Piece), NEW r \in Seq(Piece)
  PROVE  /\ w \o r \in Seq(Piece)
         /\ Codes(w \o r) = Codes(w) \cup Codes(r)
         /\ \A i \in DOMAIN (w \o r) :
              \/ i \in DOMAIN w /\ (w \o r)[i] = w[i]
              \/ i > Len(w) /\ i - Len(w) \in DOMAIN r /\ (w \o r)[i] = r[i - Len(w)]
<1>1. /\ Len(w) \in Nat /\ Len(r) \in Nat /\ Len(w \o r) = Len(w) + Len(r)
      /\ DOMAIN w = 1 .. Len(w) /\ DOMAIN r = 1 .. Len(r) /\ DOMAIN (w \o r) = 1 .. Len(w) + Len(r)
      /\ w \o r \in Seq(Piece)
      /\ \A i \in 1 .. Len(w) + Len(r) : (w \o r)[i] = IF i <= Len(w) THEN w[i] ELSE r[i - Len(w)]
  OBVIOUS
<1>2. ASSUME NEW i \in DOMAIN (w \o r)
      PROVE  \/ i \in DOMAIN w /\ (w \o r)[i] = w[i]
             \/ i > Len(w) /\ i - Len(w) \in DOMAIN r /\ (w \o r)[i] = r[i - Len(w)]
  BY <1>1
<1>3. \A i \in DOMAIN w : i \in DOMAIN (w \o r) /\ (w \o r)[i] = w[i]
  BY <1>1
<1>4. \A i \in DOMAIN r : i + Len(w) \in DOMAIN (w \o r) /\ (w \o r)[i + Len(w)] = r[i]
  BY <1>1
<1>5. Codes(w \o r) = Codes(w) \cup Codes(r)
  <2> HIDE DEF Codes
  <2>1. Codes(w \o r) \subseteq Codes(w) \cup Codes(r)
    BY <1>2 DEF Codes
  <2>2. Codes(w) \subseteq Codes(w \o r)
    BY <1>3 DEF Codes
  <2>3. Codes(r) \subseteq Codes(w \o r)
    BY <1>4 DEF Codes
  <2> QED
    BY <2>1, <2>2, <2>3
<1> QED
  BY <1>1, <1>2, <1>5

LEMMA Left ==
  ASSUME NEW w \in Seq(Piece), NEW k \in DOMAIN w
  PROVE  /\ SubSeq(w, k + 1, Len(w)) \in Seq(Piece)
         /\ \A i \in DOMAIN SubSeq(w, k + 1, Len(w)) :
              i + k \in DOMAIN w /\ i + k > 1 /\ SubSeq(w, k + 1, Len(w))[i] = w[i + k]
         /\ Codes(SubSeq(w, k + 1, Len(w))) \subseteq Codes(w)
<1> DEFINE s == SubSeq(w, k + 1, Len(w))
<1>1. /\ k \in 1 .. Len(w) /\ Len(w) \in Nat /\ s \in Seq(Piece)
      /\ DOMAIN s = 1 .. (Len(w) - k) /\ DOMAIN w = 1 .. Len(w)
      /\ \A i \in 1 .. (Len(w) - k) : s[i] = w[k + i]
  OBVIOUS
<1> HIDE DEF s
<1>2. \A i \in DOMAIN s : i + k \in DOMAIN w /\ i + k > 1 /\ s[i] = w[i + k]
  BY <1>1
<1>3. Codes(s) \subseteq Codes(w)
  BY <1>2 DEF Codes
<1> QED
  BY <1>1, <1>2, <1>3 DEF s

LEMMA Appended ==
  ASSUME todo \in Seq(Command), NEW c \in Command, todo' = Append(todo, c)
  PROVE  /\ todo' \in Seq(Command) /\ Waiting' = Waiting \cup {c}
         /\ Len(todo') = Len(todo) + 1 /\ todo'[Len(todo) + 1] = c
         /\ \A k \in DOMAIN todo' : k = Len(todo') \/ (k \in DOMAIN todo /\ todo'[k] = todo[k])
<1>1. /\ Len(todo) \in Nat /\ DOMAIN todo = 1 .. Len(todo)
      /\ Len(todo') = Len(todo) + 1 /\ DOMAIN todo' = 1 .. Len(todo) + 1
      /\ todo'[Len(todo) + 1] = c /\ todo' \in Seq(Command)
      /\ \A k \in 1 .. Len(todo) : todo'[k] = todo[k]
  OBVIOUS
<1>2. \A k \in DOMAIN todo' : k = Len(todo') \/ (k \in DOMAIN todo /\ todo'[k] = todo[k])
  BY <1>1
<1>3. \A k \in DOMAIN todo : k \in DOMAIN todo' /\ todo'[k] = todo[k]
  BY <1>1
<1>4. Waiting' \subseteq Waiting \cup {c}
  BY <1>1, <1>2 DEF Waiting
<1>5. Waiting \subseteq Waiting' /\ c \in Waiting'
  BY <1>1, <1>3 DEF Waiting
<1> QED
  BY <1>1, <1>2, <1>4, <1>5

LEMMA Shifted ==
  ASSUME todo \in Seq(Command), todo # <<>>, todo' = Tail(todo)
  PROVE  /\ Head(todo) \in Command /\ Head(todo) \in Waiting /\ Head(todo) = todo[1]
         /\ 1 \in DOMAIN todo
         /\ todo' \in Seq(Command) /\ Waiting' \subseteq Waiting
         /\ Len(todo') = Len(todo) - 1 /\ Len(todo) \in Nat
         /\ Len(todo) = 1 => todo' = <<>>
         /\ \A k \in DOMAIN todo' : k + 1 \in DOMAIN todo /\ todo'[k] = todo[k + 1] /\ k \in Nat
<1>1. /\ Len(todo) \in Nat /\ Len(todo) > 0 /\ DOMAIN todo = 1 .. Len(todo)
      /\ Len(todo') = Len(todo) - 1 /\ DOMAIN todo' = 1 .. (Len(todo) - 1)
      /\ todo' \in Seq(Command) /\ Head(todo) = todo[1] /\ Head(todo) \in Command
      /\ \A k \in 1 .. (Len(todo) - 1) : todo'[k] = todo[k + 1]
  OBVIOUS
<1>2. Head(todo) \in Waiting
  BY <1>1 DEF Waiting
<1>3. \A k \in DOMAIN todo' : k + 1 \in DOMAIN todo /\ todo'[k] = todo[k + 1] /\ k \in Nat
  BY <1>1
<1>4. Waiting' \subseteq Waiting
  BY <1>3 DEF Waiting
<1>5. Len(todo) = 1 => todo' = <<>>
  BY <1>1
<1> QED
  BY <1>1, <1>2, <1>3, <1>4, <1>5

-----------------------------------------------------------------------------
(* Steps.  What is in TypeOK, as far as the proofs need it. *)

LEMMA Typed ==
  ASSUME Inv
  PROVE  /\ n \in 1 .. 9 /\ todo \in Seq(Command) /\ wire \in Seq(Piece)
         /\ result \in Error \cup {"none", "ok"}
         /\ mode \in {"command", "data"} /\ accepted \in BOOLEAN /\ inTls \in BOOLEAN
BY StepNumbers DEF Inv, TypeOK

(* A step after which nothing more is sent but QUIT. *)
LEMMA Ending ==
  ASSUME Inv, UNCHANGED <<zone, n, inTls, mode, agreed, accepted>>,
         at' \in {"quit", "bye", "done", "crash", "stuck"},
         line' \in {"open", "closed", "reset"},
         wire' \in Seq(Piece), todo' \in Seq(Command), Waiting' \subseteq Waiting \cup {"QUIT"},
         result' \in Error \cup {"none", "ok"}, at' \notin {"crash", "stuck"} => result' # "none",
         "body" \in Waiting \/ accepted => result' \in {"none", "ok", "BODY"},
         result' = "ok" => accepted
  PROVE  Inv'
<1>1. TypeOK'
  BY DEF Inv, TypeOK
<1>2. Progress' /\ InStep'
  BY DEF Progress, InStep, Undecided
<1>3. Encrypted'
  <2>1. \A k \in DOMAIN todo' : todo'[k] \in Waiting'
    BY DEF Waiting
  <2>2. \A k \in DOMAIN todo' : todo'[k] \in Envelope => inTls
    BY <2>1 DEF Inv, Encrypted, EnvelopeEncrypted, Envelope, Waiting
  <2> QED
    BY <2>2 DEF Inv, Encrypted, EnvelopeEncrypted
<1>4. BodyIsLast'
  BY DEF Inv, BodyIsLast
<1> QED
  BY <1>1, <1>2, <1>3, <1>4 DEF Inv, OkIsAccepted

(* The end of sending with an error, before the mail was sent, or after    *)
(* the reply to it.                                                        *)
LEMMA GivesUp ==
  ASSUME Inv, UNCHANGED <<zone, n, line, todo, inTls, mode, agreed, accepted>>,
         Undecided, at' \in {"quit", "done"}, wire' \in Seq(Piece),
         \/ result' = Script[n][3]
         \/ result' \in {"INTERNAL", "SHAKE", "NOTLS"} /\ (n < 9 \/ at = "send")
  PROVE  Inv'
<1>1. n \in 1 .. 9 /\ result = "none"
  BY Typed DEF Inv, Progress
<1>2. result' \in Error
  BY <1>1, StepNumbers, ErrorAt, Commands
<1>3. n = 9 /\ at # "send" => result' = "BODY"
  BY ErrorAt
<1>4. "body" \in Waiting \/ accepted => result' = "BODY"
  BY <1>3 DEF Inv, BodyIsLast
<1>5. result' \notin {"ok", "none"}
  BY <1>2, Commands
<1>6. /\ line' \in {"open", "closed", "reset"} /\ todo' \in Seq(Command) /\ Waiting' = Waiting
  BY Typed DEF Inv, TypeOK, Waiting
<1> QED
  BY <1>2, <1>4, <1>5, <1>6, Ending

LEMMA SendStep ==
  ASSUME Inv, Send
  PROVE  Inv'
<1> DEFINE c == Script[n][1]
<1>1. /\ n \in 1 .. 9 /\ at = "send" /\ at' = "receive" /\ todo \in Seq(Command)
      /\ UNCHANGED <<zone, ip, n, result, wire, inTls, mode, agreed, accepted>>
      /\ c # "shake"
  BY Typed DEF Send, Sending
<1>2. /\ c \in Command /\ (c = "DATA" <=> n = 8) /\ (c = "body" <=> n = 9) /\ n # 4
      /\ (c \in Envelope => n >= 6)
  BY <1>1, StepNumbers, CommandAt, Commands DEF Envelope
<1>3. line' \in {"open", "closed", "reset"}
  BY DEF Send, Sent, Lost, Inv, TypeOK
<1>4. \/ todo' = todo
      \/ todo' = Append(todo, c)
  BY DEF Send, Sent, Lost
<1> HIDE DEF c
<1>5. "body" \notin Waiting /\ ~accepted /\ result = "none"
  BY <1>1 DEF Inv, BodyIsLast, Progress, Undecided
<1>6. CASE todo' = todo
  <2>1. Waiting' = Waiting
    BY <1>6 DEF Waiting
  <2>2. InStep'
    BY <1>1, <1>6, <2>1 DEF Inv, InStep, Undecided, NothingBefore, DataComes, BodyMayCome, BodyComes, Waiting
  <2> QED
    BY <1>1, <1>2, <1>3, <1>5, <1>6, <2>1, <2>2
    DEF Inv, TypeOK, Progress, Undecided, Encrypted, EnvelopeEncrypted, BodyIsLast, OkIsAccepted
<1>7. CASE todo' = Append(todo, c)
  <2>1. /\ todo' \in Seq(Command) /\ Waiting' = Waiting \cup {c}
        /\ \A k \in DOMAIN todo' : k = Len(todo') \/ (k \in DOMAIN todo /\ todo'[k] = todo[k])
    BY <1>1, <1>2, <1>7, Appended
  <2>2. TypeOK' /\ Progress' /\ OkIsAccepted'
    BY <1>1, <1>3, <1>5, <2>1 DEF Inv, TypeOK, Progress, Undecided, OkIsAccepted
  <2>3. Encrypted'
    <3>1. n >= 6 => inTls
      BY <1>1 DEF Inv, Encrypted
    <3>2. \A e \in Waiting' : e \in Envelope => inTls
      BY <1>2, <2>1, <3>1 DEF Inv, Encrypted, EnvelopeEncrypted, Waiting
    <3>3. \A k \in DOMAIN todo' : todo'[k] \in Waiting'
      BY DEF Waiting
    <3> QED
      BY <1>1, <1>2, <3>2, <3>3 DEF Inv, Encrypted, EnvelopeEncrypted
  <2>4. BodyIsLast'
    BY <1>1, <1>2, <1>5, <2>1 DEF BodyIsLast
  <2>5. CASE n < 8
    <3>1. NothingBefore'
      BY <1>1, <1>2, <2>1, <2>5 DEF Inv, InStep, Undecided, NothingBefore
    <3> QED
      BY <1>1, <2>2, <2>3, <2>4, <2>5, <3>1 DEF Inv, InStep
  <2>6. CASE n = 8
    <3>1. "354" \notin Codes(wire) /\ "DATA" \notin Waiting
      BY <1>1, <2>6 DEF Inv, InStep, Undecided, NothingBefore
    <3>2. \A k \in DOMAIN todo' : todo'[k] = "DATA" => k = Len(todo')
      BY <2>1, <3>1 DEF Waiting
    <3>3. DataComes'
      BY <1>1, <3>1, <3>2 DEF DataComes
    <3> QED
      BY <1>1, <2>2, <2>3, <2>4, <2>6, <3>3 DEF Inv, InStep
  <2>7. CASE n = 9
    <3>1. todo = <<>> /\ mode = "data" /\ Codes(wire) \subseteq GoAhead
      BY <1>1, <2>7 DEF Inv, InStep, BodyMayCome
    <3>2. todo' = <<"body">>
      BY <1>2, <1>7, <2>7, <3>1
    <3>3. BodyComes'
      BY <1>1, <3>1, <3>2 DEF BodyComes
    <3> QED
      BY <1>1, <2>2, <2>3, <2>4, <2>7, <3>3 DEF Inv, InStep
  <2> QED
    BY <1>1, <2>5, <2>6, <2>7
<1> QED
  BY <1>4, <1>6, <1>7

LEMMA ReceiveStep ==
  ASSUME Inv, Receive
  PROVE  Inv'
<1>1. PICK k \in DOMAIN wire : After(k) /\ wire' = SubSeq(wire, k + 1, Len(wire))
  BY DEF Receive
<1>2. /\ at = "receive" /\ wire # <<>>
      /\ UNCHANGED <<zone, ip, line, inTls, todo, mode, agreed, accepted>>
  BY DEF Receive, Receiving, server
<1>3. /\ n \in 1 .. 9 /\ n # 4 /\ wire \in Seq(Piece) /\ result = "none"
      /\ todo \in Seq(Command) /\ Waiting' = Waiting /\ 1 \in DOMAIN wire
  BY <1>2, Typed DEF Inv, Encrypted, Progress, Undecided, Waiting
<1>4. /\ wire' \in Seq(Piece) /\ Codes(wire)' \subseteq Codes(wire)
      /\ \A i \in DOMAIN wire' : i + k \in DOMAIN wire /\ i + k > 1 /\ wire'[i] = wire[i + k]
  BY <1>1, <1>3, Left, SMTT(40) DEF Codes
<1>5. line' \in {"open", "closed", "reset"}
  BY <1>2 DEF Inv, TypeOK
<1>6. CASE ~Good(k) \/ (n = 2 /\ ~OffersTls(k))
  <2>1. at' = "quit" /\ n' = n /\ (result' = Script[n][3] \/ (n = 2 /\ result' = "NOTLS"))
    BY <1>1, <1>6 DEF After
  <2> QED
    BY <1>2, <1>4, <2>1, GivesUp DEF Undecided
<1>7. CASE Good(k) /\ n = 9
  <2>1. at' = "quit" /\ result' = "ok" /\ n' = n
    BY <1>1, <1>7, StepNumbers DEF After
  <2>4. wire[1].code = "250"
    BY <1>7, CodeAt DEF Good
  <2>2. "250" \in Codes(wire)
    BY <1>3, <2>4 DEF Codes
  <2>3. accepted
    BY <1>2, <1>7, <2>2 DEF Inv, InStep, BodyComes, GoAhead
  <2> QED
    BY <1>2, <1>3, <1>4, <1>5, <2>1, <2>3, Ending
<1>8. CASE Good(k) /\ n # 9 /\ ~(n = 2 /\ ~OffersTls(k))
  <2>1. at' = "send" /\ n' = n + 1 /\ result' = result /\ wire[1].code = Script[n][2]
    BY <1>1, <1>8, StepNumbers DEF After, Good
  <2>2. TypeOK' /\ Progress' /\ OkIsAccepted'
    BY <1>2, <1>3, <1>4, <1>5, <1>8, <2>1, StepNumbers DEF Inv, TypeOK, Progress, Undecided, OkIsAccepted
  <2>3. Encrypted' /\ BodyIsLast'
    BY <1>2, <1>3, <1>8, <2>1 DEF Inv, Encrypted, EnvelopeEncrypted, BodyIsLast
  <2>4. CASE n < 8
    <3>1. NothingBefore'
      BY <1>2, <1>3, <1>4, <2>4 DEF Inv, InStep, Undecided, NothingBefore
    <3> QED
      BY <1>3, <2>1, <2>2, <2>3, <2>4, <3>1 DEF Inv, InStep
  <2>5. CASE n = 8
    <3>1. wire[1].code = "354"
      BY <2>1, <2>5, CodeAt
    <3>2. "354" \in Codes(wire)
      BY <1>3, <3>1 DEF Codes
    <3>3. /\ todo = <<>> /\ mode = "data"
          /\ \A i, j \in DOMAIN wire : i <= j /\ wire[i].code = "354" => wire[j].code \in GoAhead
      BY <1>2, <2>5, <3>2 DEF Inv, InStep, DataComes
    <3>4. \A i \in DOMAIN wire' : wire'[i].code \in GoAhead
      BY <1>3, <1>4, <3>1, <3>3
    <3>5. BodyMayCome'
      BY <1>2, <3>3, <3>4 DEF BodyMayCome, Codes
    <3> QED
      BY <2>1, <2>2, <2>3, <2>5, <3>5 DEF Inv, InStep
  <2> QED
    BY <1>3, <1>8, <2>4, <2>5
<1> QED
  BY <1>6, <1>7, <1>8

LEMMA ServerCommandStep ==
  ASSUME Inv, ServerCommand
  PROVE  Inv'
<1> DEFINE c == Head(todo)
<1>1. /\ line = "open" /\ mode = "command" /\ todo # <<>> /\ todo' = Tail(todo)
      /\ UNCHANGED <<zone, ip, n, at, result, line, inTls, accepted>>
  BY DEF ServerCommand, client
<1>2. /\ c \in Command /\ c \in Waiting /\ c = todo[1] /\ 1 \in DOMAIN todo
      /\ todo' \in Seq(Command) /\ Waiting' \subseteq Waiting
      /\ Len(todo) = 1 => todo' = <<>>
      /\ Len(todo') = Len(todo) - 1 /\ Len(todo) \in Nat
      /\ \A k \in DOMAIN todo' : k + 1 \in DOMAIN todo /\ todo'[k] = todo[k + 1] /\ k \in Nat
  BY <1>1, Shifted, Typed
<1>3. PICK code \in {CodeOf(c), "550"}, offer \in BOOLEAN :
        /\ \E r \in Reply(code, offer) : wire' = wire \o r
        /\ agreed' = agreed \/ (agreed' = agreed \cup {c} /\ c \in {"MAIL", "RCPT"})
        /\ mode' = IF c = "DATA" /\ code # "550" THEN "data" ELSE mode
  <2>1. CodeOf(c) # "550"
    BY <1>2, CodeFor
  <2>2. CASE \E r \in Reply("550", FALSE) : wire' = wire \o r /\ UNCHANGED <<agreed, mode>>
    BY <2>2
  <2>3. CASE /\ \E offer \in IF c = "EHLO" THEN BOOLEAN ELSE {FALSE} :
                \E r \in Reply(CodeOf(c), offer) : wire' = wire \o r
             /\ agreed' = IF c \in {"MAIL", "RCPT"} THEN agreed \cup {c} ELSE agreed
             /\ mode' = IF c = "DATA" THEN "data" ELSE mode
    <3>1. PICK offer \in BOOLEAN : \E r \in Reply(CodeOf(c), offer) : wire' = wire \o r
      BY <2>3
    <3> QED
      BY <2>1, <2>3, <3>1
  <2> QED
    BY <2>2, <2>3 DEF ServerCommand
<1>4. /\ code \in {"220", "221", "250", "354", "550", ""}
      /\ code = "354" => c = "DATA"
      /\ c = "DATA" => code \in {"354", "550"}
  BY <1>2, <1>3, CodeFor
<1>5. PICK r : r \in Seq(Piece) /\ Codes(r) \subseteq {code, ""} /\ wire' = wire \o r
  BY <1>3, <1>4, ReplyIs
<1>6. /\ wire' \in Seq(Piece) /\ Codes(wire') = Codes(wire) \cup Codes(r)
      /\ \A i \in DOMAIN wire' :
           \/ i \in DOMAIN wire /\ wire'[i] = wire[i]
           \/ i > Len(wire) /\ i - Len(wire) \in DOMAIN r /\ wire'[i] = r[i - Len(wire)]
      /\ DOMAIN wire = 1 .. Len(wire) /\ Len(wire) \in Nat
  <2>1. wire \in Seq(Piece) /\ wire' = wire \o r
    BY <1>5, Typed
  <2>2. DOMAIN wire = 1 .. Len(wire) /\ Len(wire) \in Nat
    BY <2>1
  <2>3. /\ wire \o r \in Seq(Piece) /\ Codes(wire \o r) = Codes(wire) \cup Codes(r)
        /\ \A i \in DOMAIN (wire \o r) :
             \/ i \in DOMAIN wire /\ (wire \o r)[i] = wire[i]
             \/ i > Len(wire) /\ i - Len(wire) \in DOMAIN r /\ (wire \o r)[i] = r[i - Len(wire)]
    BY <1>5, <2>1, Concatenated
  <2> HIDE DEF Codes
  <2> QED
    BY <2>1, <2>2, <2>3
<1>7. TypeOK'
  BY <1>1, <1>2, <1>3, <1>6 DEF Inv, TypeOK
<1>8. Progress' /\ OkIsAccepted'
  BY <1>1, <1>2 DEF Inv, Progress, Undecided, OkIsAccepted
<1>9. Encrypted' /\ BodyIsLast'
  BY <1>1, <1>2 DEF Inv, Encrypted, EnvelopeEncrypted, BodyIsLast, Waiting
<1>10. ASSUME NothingBefore
       PROVE  NothingBefore'
  BY <1>2, <1>4, <1>5, <1>6, <1>10 DEF NothingBefore, Codes
<1>11. ASSUME DataComes
       PROVE  DataComes'
  <2>1. "354" \notin Codes(wire) /\ \A k \in DOMAIN todo : todo[k] = "DATA" => k = Len(todo)
    BY <1>1, <1>11 DEF DataComes
  <2>2. CASE code = "354"
    <3>1. todo' = <<>> /\ mode' = "data"
      BY <1>2, <1>3, <1>4, <2>1, <2>2
    <3>2. \A i \in DOMAIN wire' : wire'[i].code = "354" => i > Len(wire)
      BY <1>6, <2>1 DEF Codes
    <3>3. \A j \in DOMAIN wire' : j > Len(wire) => wire'[j].code \in GoAhead
      <4> SUFFICES ASSUME NEW j \in DOMAIN wire', j > Len(wire)
                   PROVE  wire'[j].code \in GoAhead
        OBVIOUS
      <4>1. j - Len(wire) \in DOMAIN r /\ wire'[j] = r[j - Len(wire)]
        BY <1>6
      <4>2. wire'[j].code \in Codes(r)
        BY <4>1 DEF Codes
      <4> QED
        BY <1>5, <2>2, <4>2 DEF GoAhead
    <3>4. \A i, j \in DOMAIN wire' : i <= j /\ wire'[i].code = "354" => wire'[j].code \in GoAhead
      <4>1. \A i \in DOMAIN wire' : i \in Nat
        BY <1>6
      <4> QED
        BY <1>6, <3>2, <3>3, <4>1
    <3> QED
      BY <3>1, <3>4 DEF DataComes
  <2>3. CASE code # "354"
    <3>1. "354" \notin Codes(wire')
      BY <1>5, <1>6, <2>1, <2>3
    <3>2. \A k \in DOMAIN todo' : todo'[k] = "DATA" => k = Len(todo')
      BY <1>2, <2>1
    <3> QED
      BY <3>1, <3>2 DEF DataComes, Codes
  <2> QED
    BY <2>2, <2>3
<1>12. ~(n = 9 /\ at \in {"send"})
  BY <1>1 DEF Inv, InStep, BodyMayCome
<1>13. ~(n = 9 /\ at = "receive")
  BY <1>1 DEF Inv, InStep, BodyComes
<1>14. InStep'
  BY <1>1, <1>10, <1>11, <1>12, <1>13 DEF Inv, InStep, Undecided
<1> QED
  BY <1>7, <1>8, <1>9, <1>14 DEF Inv

LEMMA ServerTextStep ==
  ASSUME Inv, ServerText
  PROVE  Inv'
<1>1. /\ line = "open" /\ mode = "data" /\ todo # <<>> /\ todo' = Tail(todo)
      /\ UNCHANGED <<zone, ip, n, at, result, line, inTls, agreed>>
  BY DEF ServerText, client
<1>2. /\ Head(todo) \in Command /\ Head(todo) \in Waiting /\ Head(todo) = todo[1]
      /\ todo' \in Seq(Command) /\ Waiting' \subseteq Waiting
      /\ Len(todo') = Len(todo) - 1 /\ Len(todo) \in Nat
      /\ Len(todo) = 1 => todo' = <<>>
      /\ \A k \in DOMAIN todo' : k + 1 \in DOMAIN todo /\ todo'[k] = todo[k + 1] /\ k \in Nat
  BY <1>1, Shifted, Typed
<1>3. CASE Head(todo) # "body"
  <2>1. UNCHANGED <<mode, accepted, wire>>
    BY <1>3 DEF ServerText
  <2>2. TypeOK' /\ Progress' /\ OkIsAccepted'
    BY <1>1, <1>2, <2>1 DEF Inv, TypeOK, Progress, Undecided, OkIsAccepted
  <2>3. Encrypted' /\ BodyIsLast'
    BY <1>1, <1>2, <2>1 DEF Inv, Encrypted, EnvelopeEncrypted, BodyIsLast, Waiting
  <2>4. ASSUME NothingBefore
        PROVE  NothingBefore'
    BY <1>2, <2>1, <2>4 DEF NothingBefore
  <2>5. ASSUME DataComes
        PROVE  DataComes'
    BY <1>1, <1>2, <2>1, <2>5 DEF DataComes
  <2>6. ~(n = 9 /\ at \in {"send", "receive"} /\ todo \in {<<>>, <<"body">>})
    BY <1>1, <1>3
  <2> QED
    BY <1>1, <2>1, <2>2, <2>3, <2>4, <2>5, <2>6 DEF Inv, InStep, Undecided, BodyMayCome, BodyComes
<1>4. CASE Head(todo) = "body"
  <2>1. n = 9 /\ at # "send" /\ result \in {"none", "ok", "BODY"}
    BY <1>2, <1>4 DEF Inv, BodyIsLast
  <2>2. PICK code \in {"250", "550"} :
          /\ \E r \in Reply(code, FALSE) : wire' = wire \o r
          /\ mode' = "command"
          /\ accepted' = (accepted \/ code = "250")
    <3>1. mode' = "command"
      BY <1>4 DEF ServerText
    <3>2. CASE accepted' = TRUE /\ \E r \in Reply("250", FALSE) : wire' = wire \o r
      BY <3>1, <3>2
    <3>3. CASE \E r \in Reply("550", FALSE) : wire' = wire \o r /\ UNCHANGED accepted
      BY <3>1, <3>3, Typed
    <3> QED
      BY <1>4, <3>2, <3>3 DEF ServerText
  <2>3. PICK r : r \in Seq(Piece) /\ Codes(r) \subseteq {code, ""} /\ wire' = wire \o r
    BY <2>2, ReplyIs
  <2>4. wire' \in Seq(Piece) /\ Codes(wire') = Codes(wire) \cup Codes(r)
    BY <2>2, <2>3, Concatenated, Typed
  <2>5. accepted \in BOOLEAN /\ accepted' \in BOOLEAN
    BY <2>2, Typed
  <2>6. TypeOK'
    BY <1>1, <1>2, <2>2, <2>4, <2>5 DEF Inv, TypeOK
  <2>7. OkIsAccepted'
    BY <1>1, <2>2, <2>5 DEF Inv, OkIsAccepted
  <2>8. Progress' /\ Encrypted' /\ BodyIsLast'
    BY <1>1, <1>2, <2>1 DEF Inv, Progress, Undecided, Encrypted, EnvelopeEncrypted, BodyIsLast, Waiting
  <2>9. CASE at = "receive"
    <3>1. todo = <<"body">> /\ Codes(wire) \subseteq GoAhead
      BY <1>1, <2>1, <2>9 DEF Inv, InStep, BodyComes
    <3>2. todo' = <<>>
      BY <1>1, <3>1
    <3>3. "250" \in Codes(wire') => accepted'
      BY <2>2, <2>3, <2>4, <3>1 DEF GoAhead
    <3>4. BodyComes'
      BY <3>2, <3>3 DEF BodyComes, Codes
    <3> QED
      BY <1>1, <2>1, <2>6, <2>7, <2>8, <2>9, <3>4 DEF Inv, InStep
  <2>10. CASE at # "receive"
    BY <1>1, <2>1, <2>6, <2>7, <2>8, <2>10 DEF Inv, InStep
  <2> QED
    BY <2>9, <2>10
<1> QED
  BY <1>3, <1>4

LEMMA ServerClosesStep ==
  ASSUME Inv, ServerCloses
  PROVE  Inv'
<1>1. /\ line' \in {"open", "closed", "reset"} /\ wire' \in {wire, <<>>}
      /\ at \notin {"enquire", "connect"}
      /\ UNCHANGED <<zone, ip, n, at, result, inTls, todo, mode, agreed, accepted>>
  BY DEF ServerCloses, client, server
<1>2. Waiting' = Waiting /\ wire' \in Seq(Piece) /\ DOMAIN wire' \subseteq DOMAIN wire
      /\ \A i \in DOMAIN wire' : wire'[i] = wire[i]
  <2>1. <<>> \in Seq(Piece) /\ DOMAIN <<>> = {}
    OBVIOUS
  <2> QED
    BY <1>1, <2>1, Typed DEF Waiting
<1>3. Codes(wire)' \subseteq Codes(wire)
  BY <1>2 DEF Codes
<1>4. InStep'
  BY <1>1, <1>2, <1>3 DEF Inv, InStep, Undecided, NothingBefore, DataComes, BodyMayCome, BodyComes
<1> QED
  BY <1>1, <1>2, <1>4
  DEF Inv, TypeOK, Progress, Undecided, Encrypted, EnvelopeEncrypted, BodyIsLast, OkIsAccepted

LEMMA BeginStep ==
  ASSUME Inv, Enquire \/ Connect
  PROVE  Inv'
<1>1. n = 1 /\ wire = <<>> /\ todo = <<>> /\ result = "none" /\ Undecided
      /\ ~accepted /\ "body" \notin Waiting
  BY DEF Enquire, Connect, Inv, Progress, Undecided, BodyIsLast
<1>2. CASE at' = "done"
  <2>1. /\ UNCHANGED <<zone, n, line, todo, wire, inTls, mode, agreed, accepted>>
        /\ result' = "INTERNAL"
    BY <1>2 DEF Enquire, Connect, server
  <2>2. wire' \in Seq(Piece)
    BY <2>1, Typed
  <2> QED
    BY <1>1, <1>2, <2>1, <2>2, GivesUp
<1>3. CASE Enquire /\ at' = "connect"
  <2>1. UNCHANGED <<zone, n, line, todo, wire, inTls, mode, agreed, accepted, result>>
    BY <1>1, <1>3 DEF Enquire, server
  <2> QED
    BY <1>1, <1>3, <2>1
    DEF Inv, TypeOK, Progress, Undecided, Encrypted, EnvelopeEncrypted, BodyIsLast, OkIsAccepted,
        InStep, NothingBefore, Waiting
<1>4. CASE Connect /\ at' = "receive"
  <2>1. /\ UNCHANGED <<zone, n, line, wire, inTls, mode, agreed, accepted, result>>
        /\ todo' = <<"greet">>
    BY <1>4 DEF Connect
  <2>2. todo' \in Seq(Command) /\ \A k \in DOMAIN todo' : todo'[k] = "greet"
    <3>1. "greet" \in Command
      BY Commands
    <3> QED
      BY <2>1, <3>1
  <2>3. Waiting' \subseteq {"greet"}
    BY <2>2 DEF Waiting
  <2>4. Codes(wire)' = {}
    BY <1>1, <2>1 DEF Codes
  <2> QED
    BY <1>1, <1>4, <2>1, <2>2, <2>3, <2>4
    DEF Inv, TypeOK, Progress, Undecided, Encrypted, EnvelopeEncrypted, Envelope, BodyIsLast,
        OkIsAccepted, InStep, NothingBefore
<1> QED
  BY <1>2, <1>3, <1>4 DEF Enquire, Connect

LEMMA HandshakeStep ==
  ASSUME Inv, Handshake
  PROVE  Inv'
<1>1. at = "send" /\ Script[n][1] = "shake"
      /\ UNCHANGED <<zone, ip, line, wire, todo, mode, agreed, accepted>>
  BY DEF Handshake, server
<1>2. n = 4
  BY <1>1, Typed, StepNumbers, CommandAt
<1>3. CASE at' = "quit"
  <2>1. UNCHANGED <<inTls, n>> /\ result' = "SHAKE"
    BY <1>1, <1>3 DEF Handshake
  <2> QED
    BY <1>1, <1>2, <1>3, <2>1, GivesUp, Typed DEF Undecided
<1>4. CASE at' # "quit"
  <2>1. inTls' = TRUE /\ n' = 5 /\ at' = "send" /\ result' = result
    BY <1>1, <1>2, <1>4 DEF Handshake
  <2>2. Waiting' = Waiting
    BY <1>1 DEF Waiting
  <2> QED
    BY <1>1, <1>2, <2>1, <2>2, StepNumbers
    DEF Inv, TypeOK, Progress, Undecided, Encrypted, EnvelopeEncrypted, BodyIsLast, OkIsAccepted,
        InStep, NothingBefore
<1> QED
  BY <1>3, <1>4

LEMMA QuitStep ==
  ASSUME Inv, Quit \/ Bye \/ ReceiveReset \/ (SendFails /\ at' = "stuck")
  PROVE  Inv'
<1>1. /\ at' \in {"bye", "done", "crash", "stuck"} /\ line' \in {"open", "closed", "reset"}
      /\ UNCHANGED <<zone, n, inTls, mode, agreed, accepted, wire, result>>
      /\ todo' = todo \/ todo' = Append(todo, "QUIT")
      /\ at' \notin {"crash", "stuck"} => at \in {"quit", "bye"}
  BY DEF Quit, Bye, ReceiveReset, SendFails, Sent, Lost, Stuck, server, Inv, TypeOK
<1>2. todo' \in Seq(Command) /\ Waiting' \subseteq Waiting \cup {"QUIT"}
  <2>1. CASE todo' = todo
    BY <2>1, Typed DEF Waiting
  <2>2. CASE todo' = Append(todo, "QUIT")
    BY <2>2, Appended, Commands, Typed
  <2> QED
    BY <1>1, <2>1, <2>2
<1>3. /\ at' \notin {"crash", "stuck"} => result' # "none"
      /\ "body" \in Waiting \/ accepted => result' \in {"none", "ok", "BODY"}
      /\ result' = "ok" => accepted
  BY <1>1 DEF Inv, Progress, BodyIsLast, OkIsAccepted
<1> QED
  BY <1>1, <1>2, <1>3, Ending, Typed

LEMMA InvInit ==
  Init => Inv
<1> SUFFICES ASSUME Init
             PROVE  Inv
  OBVIOUS
<1>1. wire = <<>> /\ todo = <<>> /\ n = 1 /\ at = "enquire" /\ ~accepted /\ result = "none"
  BY DEF Init
<1>2. TypeOK
  <2>1. n \in DOMAIN Script /\ wire \in Seq(Piece) /\ todo \in Seq(Command)
    BY <1>1, StepNumbers
  <2> QED
    BY <1>1, <2>1 DEF Init, TypeOK
<1>3. Waiting = {} /\ Codes(wire) = {}
  BY <1>1 DEF Waiting, Codes
<1> QED
  BY <1>1, <1>2, <1>3
  DEF Inv, Progress, Undecided, Encrypted, EnvelopeEncrypted, BodyIsLast, OkIsAccepted,
      InStep, NothingBefore

LEMMA InvNext ==
  ASSUME Inv, [Next]_vars
  PROVE  Inv'
<1>1. CASE SendFails /\ at' # "stuck"
  <2>1. /\ at = "send" /\ at' = "done" /\ result' = Script[n][3]
        /\ UNCHANGED <<zone, n, line, todo, wire, inTls, mode, agreed, accepted>>
    BY <1>1 DEF SendFails, Sending, Stuck, server
  <2> QED
    BY <2>1, GivesUp, Typed DEF Undecided
<1>2. CASE NotCreated
  <2>1. /\ at = "send" /\ at' = "quit" /\ result' = "INTERNAL"
        /\ UNCHANGED <<zone, n, line, todo, wire, inTls, mode, agreed, accepted>>
    BY <1>2 DEF NotCreated, Sending, server
  <2> QED
    BY <2>1, GivesUp, Typed DEF Undecided
<1>3. CASE ReceiveEnd
  <2>1. /\ at = "receive" /\ at' = "quit" /\ result' = Script[n][3]
        /\ UNCHANGED <<zone, n, line, todo, wire, inTls, mode, agreed, accepted>>
    BY <1>3 DEF ReceiveEnd, server
  <2> QED
    BY <2>1, GivesUp, Typed DEF Undecided
<1>4. CASE UNCHANGED vars
  BY <1>4
  DEF vars, client, server, Inv, TypeOK, Progress, Undecided, Encrypted, EnvelopeEncrypted,
      BodyIsLast, OkIsAccepted, InStep, NothingBefore, DataComes, BodyMayCome, BodyComes,
      Waiting, Codes
<1> QED
  BY <1>1, <1>2, <1>3, <1>4, BeginStep, SendStep, ReceiveStep, HandshakeStep, QuitStep,
     ServerCommandStep, ServerTextStep, ServerClosesStep
  DEF Next, Client, Server

LEMMA InvAlways ==
  Spec => []Inv
<1>1. Inv /\ [Next]_vars => Inv'
  BY InvNext
<1> QED
  BY InvInit, <1>1, PTL DEF Spec

-----------------------------------------------------------------------------
(* sendMail: the types of its state and of the connection; it returns a    *)
(* result whenever it returns.                                             *)
THEOREM SendMailTyped ==
  Spec => []TypeOK
<1>1. Inv => TypeOK
  BY DEF Inv
<1> QED
  BY InvAlways, <1>1, PTL

(* sendMail, smtpCommand: success means that the other server has taken    *)
(* over the mail.  A reply may be read as that to a later command, since   *)
(* receiving takes what has arrived; but the reply to DATA has a code of   *)
(* its own, and behind it there is none left of the commands before.       *)
THEOREM SuccessIsAccepted ==
  Spec => []OkIsAccepted
<1>1. Inv => OkIsAccepted
  BY DEF Inv
<1> QED
  BY InvAlways, <1>1, PTL

(* sendMail: an error other than AEM_SENDMAIL_ERR_RECV_BODY's means that   *)
(* the other server has not got the mail, so that to send it again does    *)
(* not make two of it.                                                     *)
THEOREM FailureIsNotSent ==
  Spec => []ErrorIsNotSent
<1>1. Inv => ErrorIsNotSent
  BY Commands DEF Inv, BodyIsLast, ErrorIsNotSent
<1> QED
  BY InvAlways, <1>1, PTL

(* sendMail: the addresses and the mail are sent after the handshake only, *)
(* whatever the other server offers, refuses or leaves out.                *)
THEOREM AlwaysEncrypted ==
  Spec => []EnvelopeEncrypted
<1>1. Inv => EnvelopeEncrypted
  BY DEF Inv, Encrypted
<1> QED
  BY InvAlways, <1>1, PTL

-----------------------------------------------------------------------------
(* The server that is asked.  getNameRecord is a fold over the records of  *)
(* an answer: what it has found after k of them follows from k - 1.        *)

(* What has been read of an answer. *)
Unread == [prio |-> MaxPrio, host |-> NoName, stop |-> FALSE]

(* getNameRecord goes through the records in their order. *)
LEMMA ReadInOrder ==
  ASSUME NEW E, NEW mx \in Seq(E)
  PROVE  \E h : /\ h[0] = Unread
                /\ \A k \in 1 .. Len(mx) : h[k] = NextName(h[k - 1], mx[k])
                /\ getNameRecord(mx) = h[Len(mx)]
<1> DEFINE len == Len(mx)
           S == [prio : {MaxPrio} \cup {mx[k].prio : k \in 1 .. len},
                 host : {NoName} \cup {mx[k].host : k \in 1 .. len},
                 stop : {TRUE, FALSE} \cup {mx[k].broken : k \in 1 .. len}]
           F == [p \in S \X (1 .. len) |-> NextName(p[1], mx[p[2]])]
<1>1. len \in Nat /\ DOMAIN mx = 1 .. len
  OBVIOUS
<1>2. \A s \in S, k \in 1 .. len : NextName(s, mx[k]) \in S
  BY DEF NextName
<1>3. Unread \in S
  BY DEF Unread
<1> HIDE DEF S
<1>4. F \in [S \X (1 .. len) -> S]
  BY <1>2
<1>5. \A s \in S, k \in 1 .. len : F[<<s, k>>] = NextName(s, mx[k])
  OBVIOUS
<1> HIDE DEF F
<1>6. PICK g : IsFold(g, S, F, Unread, len)
  BY <1>1, <1>3, <1>4, FoldExists
<1> DEFINE f == CHOOSE f : f = [x \in SUBSET (DOMAIN mx) |->
                  IF x = {} THEN Unread ELSE NextName(f[x \ {Max(x)}], mx[Max(x)])]
<1>7. g = [x \in SUBSET (DOMAIN mx) |->
             IF x = {} THEN Unread ELSE NextName(g[x \ {Max(x)}], mx[Max(x)])]
  <2>1. ASSUME NEW x \in SUBSET (1 .. len), x # {}
        PROVE  g[x] = NextName(g[x \ {Max(x)}], mx[Max(x)])
    <3>1. Max(x) \in 1 .. len /\ x \ {Max(x)} \in SUBSET (1 .. len)
      BY <1>1, <2>1, MaxOfRange
    <3>2. g[x] = F[<<g[x \ {Max(x)}], Max(x)>>] /\ g[x \ {Max(x)}] \in S
      BY <1>6, <2>1, <3>1 DEF IsFold
    <3> QED
      BY <1>5, <3>1, <3>2
  <2>2. g = [x \in SUBSET (1 .. len) |-> g[x]] /\ g[{}] = Unread
    BY <1>6 DEF IsFold
  <2> QED
    BY <1>1, <2>1, <2>2
<1>8. f = [x \in SUBSET (DOMAIN mx) |->
             IF x = {} THEN Unread ELSE NextName(f[x \ {Max(x)}], mx[Max(x)])]
  BY <1>7
<1>9. getNameRecord(mx) = f[DOMAIN mx]
  BY DEF getNameRecord, FoldLeft, MapThenFoldSet, Unread
<1> HIDE DEF f
<1>10. Folds(f, S, F, Unread, len)
  <2>1. f[{}] = Unread
    BY <1>8
  <2>2. ASSUME NEW k \in 1 .. len, f[1 .. (k - 1)] \in S
        PROVE  f[1 .. k] = F[<<f[1 .. (k - 1)], k>>]
    <3>1. k \in Nat \ {0} /\ 1 .. k # {} /\ 1 .. k \in SUBSET (DOMAIN mx)
      <4>1. k \in Nat \ {0} /\ 1 \in 1 .. k
        BY <1>1
      <4>2. \A j \in 1 .. k : j \in 1 .. len
        BY <1>1
      <4> QED
        BY <1>1, <4>1, <4>2
    <3>2. Max(1 .. k) = k /\ (1 .. k) \ {k} = 1 .. (k - 1)
      BY <3>1, InitialNumbers
    <3>3. f[1 .. k] = NextName(f[1 .. (k - 1)], mx[k])
      BY <1>8, <3>1, <3>2
    <3> QED
      BY <1>5, <2>2, <3>3
  <2> QED
    BY <2>1, <2>2 DEF Folds
<1> HIDE DEF len
<1>11. PICK h : Iterates(h, f, S, F, Unread, len)
  BY <1>1, <1>3, <1>4, <1>10, FoldInOrder
<1>12. h[0] = Unread /\ h \in [0 .. len -> S] /\ f[1 .. len] = h[len]
  BY <1>11 DEF Iterates
<1>13. ASSUME NEW k \in 1 .. len PROVE h[k] = NextName(h[k - 1], mx[k])
  <2>1. k - 1 \in 0 .. len
    BY <1>1
  <2>2. h[k - 1] \in S
    BY <1>12, <2>1
  <2>3. h[k] = F[<<h[k - 1], k>>]
    BY <1>11 DEF Iterates
  <2> QED
    BY <1>5, <2>2, <2>3
<1> QED
  BY <1>1, <1>9, <1>12, <1>13 DEF len

(* What getNameRecord has found after k records, none of which stops it:   *)
(* nothing yet, or the name of one that no other is preferred to.          *)
Found(s, mx, k) ==
  /\ ~s.stop /\ s.prio \in Int
  /\ \/ s.host = NoName
     \/ \E i \in 1 .. k : mx[i].type = "MX" /\ s.prio = mx[i].prio /\ s.host = mx[i].host
  /\ \A i \in 1 .. k : mx[i].type = "MX" => s.prio <= mx[i].prio

LEMMA RecordTyped == ASSUME NEW r \in Record PROVE r.prio \in Nat
<1>1. r.prio \in 0 .. MaxPrio
  BY SMTT(40) DEF Record
<1>2. \A p \in 0 .. MaxPrio : p \in Nat
  BY SMTT(40) DEF MaxPrio
<1> QED
  BY <1>1, <1>2

LEMMA BestIsFound ==
  ASSUME NEW S, NEW mx \in Seq(S), mx # <<>>,
         \A k \in DOMAIN mx : /\ mx[k].type \in {"MX", "CNAME"} /\ ~mx[k].broken
                              /\ mx[k].prio \in Nat
  PROVE  Found(getNameRecord(mx), mx, Len(mx))
<1>0. Len(mx) \in Nat /\ DOMAIN mx = 1 .. Len(mx)
  OBVIOUS
<1>1. PICK h : /\ h[0] = Unread
               /\ \A k \in 1 .. Len(mx) : h[k] = NextName(h[k - 1], mx[k])
               /\ getNameRecord(mx) = h[Len(mx)]
  BY ReadInOrder
<1> DEFINE T == {k \in 0 .. Len(mx) : ~Found(h[k], mx, k)}
<1>2. SUFFICES ASSUME T # {} PROVE FALSE
  BY <1>0, <1>1
<1>3. PICK k \in T : \A j \in T : k <= j
  <2>1. T \subseteq Nat
    BY <1>0
  <2> HIDE DEF T
  <2> QED
    BY <1>2, <2>1, LeastNumber
<1>4. k # 0
  <2>1. Found(Unread, mx, 0)
    BY DEF Found, Unread, MaxPrio
  <2> QED
    BY <1>1, <1>3, <2>1
<1>5. k \in 1 .. Len(mx) /\ k - 1 \in 0 .. Len(mx) /\ k - 1 \notin T
  BY <1>0, <1>3, <1>4
<1> DEFINE s == h[k - 1]
           r == mx[k]
<1>6. Found(s, mx, k - 1) /\ r.type \in {"MX", "CNAME"} /\ ~r.broken /\ r.prio \in Nat
  BY <1>0, <1>5
<1>7. h[k] = NextName(s, r)
  BY <1>1, <1>5
<1>8. \A i \in 1 .. k : i = k \/ i \in 1 .. (k - 1)
  BY <1>5
<1> HIDE DEF s, T
<1>9. Found(h[k], mx, k)
  <2>1. CASE r.type = "CNAME" \/ r.prio >= s.prio
    <3>1. h[k] = s
      BY <1>6, <1>7, <2>1 DEF NextName, Found
    <3> QED
      BY <1>5, <1>6, <1>8, <2>1, <3>1 DEF Found
  <2>2. CASE r.type = "MX" /\ ~(r.prio >= s.prio)
    <3>1. h[k] = [prio |-> r.prio, host |-> r.host, stop |-> r.broken]
      BY <1>6, <1>7, <2>2 DEF NextName, Found
    <3>2. \A i \in 1 .. k : mx[i].type = "MX" => mx[i].prio \in Nat
      BY <1>0, <1>5
    <3>3. ~h[k].stop /\ h[k].prio = mx[k].prio /\ h[k].host = mx[k].host /\ h[k].prio \in Int
      BY <1>6, <3>1
    <3>4. ASSUME NEW i \in 1 .. k, mx[i].type = "MX" PROVE h[k].prio <= mx[i].prio
      <4>1. CASE i = k
        BY <3>2, <3>3, <3>4, <4>1
      <4>2. CASE i \in 1 .. (k - 1)
        <5>1. s.prio <= mx[i].prio /\ s.prio \in Int
          BY <1>6, <3>4, <4>2 DEF Found
        <5> QED
          BY <1>6, <2>2, <3>2, <3>3, <3>4, <5>1
      <4> QED
        BY <1>8, <4>1, <4>2
    <3>5. \E i \in 1 .. k : mx[i].type = "MX" /\ h[k].prio = mx[i].prio /\ h[k].host = mx[i].host
      BY <1>5, <2>2, <3>3
    <3> QED
      BY <3>3, <3>4, <3>5 DEF Found
  <2> QED
    BY <1>6, <2>1, <2>2
<1> QED
  BY <1>3, <1>9 DEF T

(* The address is the one that was found for the domain. *)
Enquired == zone \in Zones /\ ip \in {Failed, mailServer(zone.mx, zone.a)}

(* send_email, queryDns_mx: of the answers that can be read to their end,   *)
(* however many records they have and in whatever order, the address is    *)
(* that of a mail server that none is preferred to.                        *)
THEOREM BestServerTried == Spec => []RightServer
<1>1. Init => Enquired
  BY DEF Init, Enquired
<1>2. Enquired /\ [Next]_vars => Enquired'
  <2> SUFFICES ASSUME Enquired, [Next]_vars PROVE Enquired'
    OBVIOUS
  <2>1. CASE Enquire
    BY <2>1 DEF Enquire, Enquired
  <2>2. CASE Connect \/ Send \/ SendFails \/ NotCreated \/ Receive \/ ReceiveEnd
    BY <2>2 DEF Enquired, Connect, Send, SendFails, Stuck, NotCreated, Receive, ReceiveEnd
  <2>3. CASE ReceiveReset \/ Handshake \/ Quit \/ Bye
    BY <2>3 DEF Enquired, ReceiveReset, Handshake, Quit, Stuck, Bye
  <2>4. CASE Server \/ ServerCloses \/ UNCHANGED vars
    BY <2>4 DEF Enquired, Server, ServerCommand, ServerText, ServerCloses, vars, client
  <2> QED
    BY <2>1, <2>2, <2>3, <2>4 DEF Next, Client
<1>3. ASSUME Enquired PROVE RightServer
  <2> SUFFICES ASSUME ip # Failed,
                      \A k \in DOMAIN zone.mx :
                        zone.mx[k].type \in {"MX", "CNAME"} /\ ~zone.mx[k].broken
               PROVE  LET MX == {zone.mx[k] : k \in {k \in DOMAIN zone.mx : zone.mx[k].type = "MX"}}
                      IN  \E r \in MX : (\A q \in MX : r.prio <= q.prio) /\ ip = queryDns_a(zone.a[r.host])
    BY DEF RightServer
  <2> DEFINE mx == zone.mx
             s  == getNameRecord(mx)
             MX == {mx[k] : k \in {k \in DOMAIN mx : mx[k].type = "MX"}}
  <2>1. /\ mx \in Seq(Record)
        /\ ip = mailServer(mx, zone.a)
    BY <1>3, ZonesAssumption DEF Enquired
  <2>2. /\ mx # <<>> /\ s.host # NoName
        /\ ip = queryDns_a(zone.a[s.host])
    BY <2>1 DEF mailServer, queryDns_mx, getAnswerCount
  <2>3. \A k \in DOMAIN mx : /\ mx[k].type \in {"MX", "CNAME"} /\ ~mx[k].broken
                             /\ mx[k].prio \in Nat
    <3> SUFFICES ASSUME NEW k \in DOMAIN mx
                 PROVE  /\ mx[k].type \in {"MX", "CNAME"} /\ ~mx[k].broken
                        /\ mx[k].prio \in Nat
      OBVIOUS
    <3>1. mx[k].type \in {"MX", "CNAME"} /\ ~mx[k].broken
      OBVIOUS
    <3> HIDE DEF mx
    <3>2. mx[k] \in Record
      BY <2>1
    <3>3. mx[k].prio \in Nat
      BY <3>2, RecordTyped
    <3> QED
      BY <3>1, <3>3
  <2>4. Found(s, mx, Len(mx))
    BY <2>1, <2>2, <2>3, BestIsFound
  <2>5. DOMAIN mx = 1 .. Len(mx)
    BY <2>1
  <2> HIDE DEF mx, s
  <2>6. PICK i \in DOMAIN mx : mx[i].type = "MX" /\ s.prio = mx[i].prio /\ s.host = mx[i].host
    BY <2>2, <2>4, <2>5 DEF Found
  <2>7. mx[i] \in MX /\ \A q \in MX : mx[i].prio <= q.prio
    BY <2>4, <2>5, <2>6 DEF Found
  <2>8. ip = queryDns_a(zone.a[mx[i].host])
    BY <2>2, <2>6
  <2> QED
    BY <2>7, <2>8 DEF mx
<1> QED
  BY <1>1, <1>2, <1>3, PTL DEF Spec

-----------------------------------------------------------------------------
(* The texts of the kinds of Encoded are sequences of their items. *)
TextOK == kind \in Encoded => text \in Seq(Items[kind])

LEMMA TextAlwaysOK == TextsSpec => []TextOK
<1>1. TextsInit => TextOK
  BY TextsAssumption DEF TextsInit, TextOK
<1>2. TextOK /\ [TextsNext]_textsVars => TextOK'
  <2> SUFFICES ASSUME TextOK, [TextsNext]_textsVars, kind' \in Encoded
               PROVE  text' \in Seq(Items[kind'])
    BY DEF TextOK
  <2>1. kind' = kind /\ text \in Seq(Items[kind])
    BY DEF TextsNext, textsVars, TextOK
  <2>2. CASE UNCHANGED text
    BY <2>1, <2>2
  <2>3. ASSUME NEW c \in Items[kind], text' = Append(text, c)
        PROVE  text' \in Seq(Items[kind])
    BY <2>1, <2>3
  <2> QED
    BY <2>1, <2>2, <2>3 DEF TextsNext, textsVars
<1> QED
  BY <1>1, <1>2, PTL DEF TextsSpec

(* Base64: the characters that count have values of six bits.              *)
LEMMA CharacterValue ==
  ASSUME NEW c PROVE b64_decodeChar(c) \in (0 .. 63) \cup {255}
<1>1. ASSUME NEW d \in (65 .. 90) \cup (97 .. 122) \cup (48 .. 57) \cup {43, 45, 47, 95}
      PROVE  b64_decodeChar(d) \in (0 .. 63) \cup {255}
  <2>1. d \in Int
    OBVIOUS
  <2> QED
    BY <1>1, <2>1 DEF b64_decodeChar
<1>2. CASE c \notin (65 .. 90) \cup (97 .. 122) \cup (48 .. 57) \cup {43, 45, 47, 95}
  BY <1>2 DEF b64_decodeChar
<1> QED
  BY <1>1, <1>2

(* The values of six bits. *)
Sextet == 0 .. 63

LEMMA SextetsTyped ==
  ASSUME NEW C, NEW s \in Seq(C)
  PROVE  Sextets(s) \in Seq(Sextet)
<1> DEFINE t == [k \in DOMAIN s |-> LET v == b64_decodeChar(s[k]) IN IF v < 64 THEN <<v>> ELSE <<>>]
<1>1. Len(s) \in Nat /\ DOMAIN s = 1 .. Len(s)
  OBVIOUS
<1>2. ASSUME NEW k \in DOMAIN s PROVE t[k] \in Seq(Sextet)
  <2> DEFINE v == b64_decodeChar(s[k])
  <2>1. v \in (0 .. 63) \cup {255}
    BY CharacterValue
  <2>2. t[k] = IF v < 64 THEN <<v>> ELSE <<>>
    OBVIOUS
  <2> HIDE DEF t, v
  <2>3. CASE v = 255
    <3>1. t[k] = <<>>
      BY <2>2, <2>3
    <3> QED
      BY <3>1
  <2>4. CASE v \in Sextet
    <3>1. t[k] = <<v>>
      BY <2>2, <2>4 DEF Sextet
    <3> QED
      BY <2>4, <3>1
  <2> QED
    BY <2>1, <2>3, <2>4 DEF Sextet
<1>3. t = [k \in DOMAIN s |-> t[k]]
  OBVIOUS
<1>4. Sextets(s) = FlattenSeq(t)
  BY DEF Sextets, Flat
<1> HIDE DEF t
<1>5. t \in Seq(Seq(Sextet)) /\ Len(t) \in Nat
  BY <1>1, <1>2, <1>3
<1>6. PICK h : Joins(h, t, Sextet)
  BY <1>5, FlatInOrder
<1>7. Len(t) \in 0 .. Len(t)
  BY <1>5
<1> QED
  BY <1>4, <1>6, <1>7 DEF Joins

(* Each bit of the three bytes that four characters make. *)
LEMMA Powers ==
  2^0 = 1 /\ 2^1 = 2 /\ 2^2 = 4 /\ 2^3 = 8 /\ 2^4 = 16 /\ 2^5 = 32 /\ 2^6 = 64 /\ 2^7 = 128
OBVIOUS

LEMMA FirstByte ==
  ASSUME NEW a \in Sextet, NEW b \in Sextet, NEW v, v = 4 * a + b \div 16
  PROVE  /\ v \in 0 .. 255
         /\ \A j \in 0 .. 7 : Bit(v, 7 - j) <=> IF j < 6 THEN Bit(a, 5 - j) ELSE Bit(b, 11 - j)
<1>1. v \in 0 .. 255 /\ a \in 0 .. 63 /\ b \in 0 .. 63
  BY DEF Sextet
<1>2. ASSUME NEW j \in 0 .. 7
      PROVE  Bit(v, 7 - j) <=> IF j < 6 THEN Bit(a, 5 - j) ELSE Bit(b, 11 - j)
  <2>1. CASE j = 0
    BY <1>1, Powers, <2>1 DEF Bit
  <2>2. CASE j = 1
    BY <1>1, Powers, <2>2 DEF Bit
  <2>3. CASE j = 2
    BY <1>1, Powers, <2>3 DEF Bit
  <2>4. CASE j = 3
    BY <1>1, Powers, <2>4 DEF Bit
  <2>5. CASE j = 4
    BY <1>1, Powers, <2>5 DEF Bit
  <2>6. CASE j = 5
    BY <1>1, Powers, <2>6 DEF Bit
  <2>7. CASE j = 6
    BY <1>1, Powers, <2>7 DEF Bit
  <2>8. CASE j = 7
    BY <1>1, Powers, <2>8 DEF Bit
  <2> QED
    BY <2>1, <2>2, <2>3, <2>4, <2>5, <2>6, <2>7, <2>8
<1> QED
  BY <1>1, <1>2

LEMMA SecondByte ==
  ASSUME NEW b \in Sextet, NEW c \in Sextet, NEW v, v = 16 * (b % 16) + c \div 4
  PROVE  /\ v \in 0 .. 255
         /\ \A j \in 0 .. 7 : Bit(v, 7 - j) <=> IF j < 4 THEN Bit(b, 3 - j) ELSE Bit(c, 9 - j)
<1>1. v \in 0 .. 255 /\ b \in 0 .. 63 /\ c \in 0 .. 63
  BY DEF Sextet
<1>2. ASSUME NEW j \in 0 .. 7
      PROVE  Bit(v, 7 - j) <=> IF j < 4 THEN Bit(b, 3 - j) ELSE Bit(c, 9 - j)
  <2>1. CASE j = 0
    BY <1>1, Powers, <2>1 DEF Bit
  <2>2. CASE j = 1
    BY <1>1, Powers, <2>2 DEF Bit
  <2>3. CASE j = 2
    BY <1>1, Powers, <2>3 DEF Bit
  <2>4. CASE j = 3
    BY <1>1, Powers, <2>4 DEF Bit
  <2>5. CASE j = 4
    BY <1>1, Powers, <2>5 DEF Bit
  <2>6. CASE j = 5
    BY <1>1, Powers, <2>6, SMTT(40) DEF Bit
  <2>7. CASE j = 6
    BY <1>1, Powers, <2>7 DEF Bit
  <2>8. CASE j = 7
    BY <1>1, Powers, <2>8 DEF Bit
  <2> QED
    BY <2>1, <2>2, <2>3, <2>4, <2>5, <2>6, <2>7, <2>8
<1> QED
  BY <1>1, <1>2

LEMMA ThirdByte ==
  ASSUME NEW c \in Sextet, NEW d \in Sextet, NEW v, v = 64 * (c % 4) + d
  PROVE  /\ v \in 0 .. 255
         /\ \A j \in 0 .. 7 : Bit(v, 7 - j) <=> IF j < 2 THEN Bit(c, 1 - j) ELSE Bit(d, 7 - j)
<1>1. v \in 0 .. 255 /\ c \in 0 .. 63 /\ d \in 0 .. 63
  BY DEF Sextet
<1>2. ASSUME NEW j \in 0 .. 7
      PROVE  Bit(v, 7 - j) <=> IF j < 2 THEN Bit(c, 1 - j) ELSE Bit(d, 7 - j)
  <2>1. CASE j = 0
    BY <1>1, Powers, <2>1, SMTT(40) DEF Bit
  <2>2. CASE j = 1
    BY <1>1, Powers, <2>2, SMTT(40) DEF Bit
  <2>3. CASE j = 2
    BY <1>1, Powers, <2>3 DEF Bit
  <2>4. CASE j = 3
    BY <1>1, Powers, <2>4 DEF Bit
  <2>5. CASE j = 4
    BY <1>1, Powers, <2>5 DEF Bit
  <2>6. CASE j = 5
    BY <1>1, Powers, <2>6 DEF Bit
  <2>7. CASE j = 6
    BY <1>1, Powers, <2>7 DEF Bit
  <2>8. CASE j = 7
    BY <1>1, Powers, <2>8 DEF Bit
  <2> QED
    BY <2>1, <2>2, <2>3, <2>4, <2>5, <2>6, <2>7, <2>8
<1> QED
  BY <1>1, <1>2

(* Bytes: a byte needs the characters that its bits are in. *)
LEMMA BytesOf ==
  ASSUME NEW len \in Nat
  PROVE  /\ Bytes(len) \in Nat /\ Bytes(len) = (6 * len) \div 8
         /\ \A k \in 1 .. Bytes(len) :
              /\ (k - 1) \div 3 \in Nat /\ (k - 1) % 3 \in 0 .. 2
              /\ k - 1 = 3 * ((k - 1) \div 3) + ((k - 1) % 3)
              /\ 4 * ((k - 1) \div 3) + ((k - 1) % 3) + 2 <= len
<1>1. Bytes(len) \in Nat /\ Bytes(len) = (6 * len) \div 8
  BY DEF Bytes
<1>2. ASSUME NEW k \in 1 .. Bytes(len)
      PROVE  /\ (k - 1) \div 3 \in Nat /\ (k - 1) % 3 \in 0 .. 2
             /\ k - 1 = 3 * ((k - 1) \div 3) + ((k - 1) % 3)
             /\ 4 * ((k - 1) \div 3) + ((k - 1) % 3) + 2 <= len
  <2>1. k - 1 \in Nat
    BY <1>1
  <2> DEFINE q == (k - 1) \div 3
             r == (k - 1) % 3
             full == len \div 4
             rest == len % 4
  <2>2. q \in Nat /\ r \in 0 .. 2 /\ k - 1 = 3 * q + r
    BY <2>1
  <2>3. full \in Nat /\ rest \in 0 .. 3 /\ len = 4 * full + rest
    OBVIOUS
  <2>4. k <= 3 * full + (IF rest > 1 THEN rest - 1 ELSE 0)
    BY <1>1 DEF Bytes
  <2> HIDE DEF q, r, full, rest
  <2>5. 4 * q + r + 2 <= len
    BY <2>1, <2>2, <2>3, <2>4
  <2> QED
    BY <2>2, <2>5 DEF q, r
<1> QED
  BY <1>1, <1>2

(* aem_base642bin: base64 text is decoded to its bits, six from each        *)
(* character that counts, as far as they fill bytes: for a text of any     *)
(* length, with line breaks and padding anywhere.                          *)
THEOREM Base64AlwaysDecoded == TextsSpec => []Base64Decoded
<1>1. ASSUME TextOK PROVE Base64Decoded
  <2> SUFFICES ASSUME kind = "base64" PROVE Base64Decoded
    BY DEF Base64Decoded
  <2> DEFINE x   == Sextets(text)
             out == aem_base642bin(text)
             At(p) == Bit(x[p \div 6 + 1], 5 - (p % 6))
             Byte(k) ==
               LET i == 4 * (k \div 3) + (k % 3) + 1
               IN  CASE k % 3 = 0 -> 4 * x[i] + x[i + 1] \div 16
                     [] k % 3 = 1 -> 16 * (x[i] % 16) + x[i + 1] \div 4
                     [] k % 3 = 2 -> 64 * (x[i] % 4) + x[i + 1]
  <2>1. x \in Seq(Sextet) /\ Len(x) \in Nat
    <3>1. text \in Seq(Items["base64"])
      BY <1>1 DEF TextOK, Encoded
    <3>2. x \in Seq(Sextet)
      BY <3>1, SextetsTyped
    <3> HIDE DEF x
    <3> QED
      BY <3>2
  <2>2. out = [k \in 1 .. Bytes(Len(x)) |-> Byte(k - 1)]
    BY DEF aem_base642bin
  <2> HIDE DEF x, out
  <2>3. Bytes(Len(x)) \in Nat /\ Bytes(Len(x)) = (6 * Len(x)) \div 8
    BY <2>1, BytesOf
  <2>4. Len(out) = Bytes(Len(x)) /\ DOMAIN out = 1 .. Bytes(Len(x))
    BY <2>2, <2>3
  <2>5. ASSUME NEW k \in 1 .. Bytes(Len(x)), NEW j \in 0 .. 7
        PROVE  out[k] < 256 /\ (Bit(out[k], 7 - j) <=> At(8 * (k - 1) + j))
    <3> DEFINE q == (k - 1) \div 3
               r == (k - 1) % 3
               i == 4 * q + r + 1
    <3>1. /\ q \in Nat /\ r \in 0 .. 2 /\ k - 1 = 3 * q + r
          /\ i \in 1 .. Len(x) /\ i + 1 \in 1 .. Len(x)
      <4>1. /\ q \in Nat /\ r \in 0 .. 2 /\ k - 1 = 3 * q + r
            /\ 4 * q + r + 2 <= Len(x)
        BY <2>1, BytesOf
      <4> HIDE DEF q, r
      <4> QED
        BY <2>1, <4>1
    <3>2. out[k] = CASE r = 0 -> 4 * x[i] + x[i + 1] \div 16
                     [] r = 1 -> 16 * (x[i] % 16) + x[i + 1] \div 4
                     [] r = 2 -> 64 * (x[i] % 4) + x[i + 1]
      BY <2>2
    <3> DEFINE p == 8 * (k - 1) + j
    <3>3. p \in Nat /\ p = 24 * q + 8 * r + j
      BY <3>1
    <3> HIDE DEF q, r, Byte, i, p
    <3>4. x[i] \in Sextet /\ x[i + 1] \in Sextet
      BY <2>1, <3>1
    <3>5. out[k] \in 0 .. 255 /\ (Bit(out[k], 7 - j) <=> Bit(x[p \div 6 + 1], 5 - (p % 6)))
      <4>1. CASE r = 0
        <5>1. i = 4 * q + 1 /\ out[k] = 4 * x[i] + x[i + 1] \div 16
          BY <3>1, <3>2, <4>1 DEF i
        <5>2. /\ out[k] \in 0 .. 255
              /\ Bit(out[k], 7 - j) <=> IF j < 6 THEN Bit(x[i], 5 - j) ELSE Bit(x[i + 1], 11 - j)
          BY <3>4, <5>1, FirstByte
        <5>3. CASE j < 6
          <6>1. p \div 6 + 1 = i /\ 5 - (p % 6) = 5 - j
            BY <3>1, <3>3, <4>1, <5>1, <5>3
          <6> QED
            BY <5>2, <5>3, <6>1
        <5>4. CASE ~(j < 6)
          <6>1. p \div 6 + 1 = i + 1 /\ 5 - (p % 6) = 11 - j
            BY <3>1, <3>3, <4>1, <5>1, <5>4
          <6> QED
            BY <5>2, <5>4, <6>1
        <5> QED
          BY <5>3, <5>4
      <4>2. CASE r = 1
        <5>1. i = 4 * q + 2 /\ out[k] = 16 * (x[i] % 16) + x[i + 1] \div 4
          BY <3>1, <3>2, <4>2 DEF i
        <5>2. /\ out[k] \in 0 .. 255
              /\ Bit(out[k], 7 - j) <=> IF j < 4 THEN Bit(x[i], 3 - j) ELSE Bit(x[i + 1], 9 - j)
          BY <3>4, <5>1, SecondByte, ZenonT(60)
        <5>3. CASE j < 4
          <6>1. p \div 6 + 1 = i /\ 5 - (p % 6) = 3 - j
            BY <3>1, <3>3, <4>2, <5>1, <5>3
          <6> QED
            BY <5>2, <5>3, <6>1
        <5>4. CASE ~(j < 4)
          <6>1. p \div 6 + 1 = i + 1 /\ 5 - (p % 6) = 9 - j
            BY <3>1, <3>3, <4>2, <5>1, <5>4
          <6> QED
            BY <5>2, <5>4, <6>1
        <5> QED
          BY <5>3, <5>4
      <4>3. CASE r = 2
        <5>1. i = 4 * q + 3 /\ out[k] = 64 * (x[i] % 4) + x[i + 1]
          BY <3>1, <3>2, <4>3 DEF i
        <5>2. /\ out[k] \in 0 .. 255
              /\ Bit(out[k], 7 - j) <=> IF j < 2 THEN Bit(x[i], 1 - j) ELSE Bit(x[i + 1], 7 - j)
          <6> DEFINE c == x[i]
                     d == x[i + 1]
          <6>1. c \in Sextet /\ d \in Sextet /\ out[k] = 64 * (c % 4) + d
            BY <3>4, <5>1
          <6> HIDE DEF c, d
          <6>2. /\ out[k] \in 0 .. 255
                /\ Bit(out[k], 7 - j) <=> IF j < 2 THEN Bit(c, 1 - j) ELSE Bit(d, 7 - j)
            BY <6>1, ThirdByte
          <6> QED
            BY <6>2 DEF c, d
        <5>3. CASE j < 2
          <6>1. p \div 6 + 1 = i /\ 5 - (p % 6) = 1 - j
            BY <3>1, <3>3, <4>3, <5>1, <5>3
          <6> QED
            BY <5>2, <5>3, <6>1
        <5>4. CASE ~(j < 2)
          <6>1. p \div 6 + 1 = i + 1 /\ 5 - (p % 6) = 7 - j
            BY <3>1, <3>3, <4>3, <5>1, <5>4
          <6> QED
            BY <5>2, <5>4, <6>1
        <5> QED
          BY <5>3, <5>4
      <4> QED
        BY <3>1, <4>1, <4>2, <4>3
    <3>6. out[k] < 256
      <4> DEFINE v == out[k]
      <4>1. v \in 0 .. 255
        BY <3>5, Zenon
      <4> HIDE DEF v
      <4>2. v < 256
        BY <4>1
      <4> QED
        BY <4>2 DEF v
    <3>7. Bit(out[k], 7 - j) <=> At(p)
      BY <3>5
    <3> HIDE DEF At
    <3> QED
      BY <3>6, <3>7 DEF p
  <2> QED
    BY <2>3, <2>4, <2>5 DEF Base64Decoded, x, out
<1>2. [](TextOK => Base64Decoded)
  BY <1>1, PTL
<1> QED
  BY <1>2, TextAlwaysOK, PTL

-----------------------------------------------------------------------------
(* The dots of a mail: createEmail writes the body one character after the *)
(* other.                                                                  *)
Stuffing(h, base, body, C) ==
  /\ h \in [0 .. Len(body) -> Seq(C)]
  /\ h[0] = base
  /\ \A k \in 1 .. Len(body) : h[k] = Stuff(h[k - 1], body[k])
  /\ FoldLeft(Stuff, base, body) = h[Len(body)]

(* The fold of the model is that loop. *)
LEMMA StuffInOrder ==
  ASSUME NEW C, "." \in C, NEW base \in Seq(C), NEW body \in Seq(C)
  PROVE  \E h : Stuffing(h, base, body, C)
<1> DEFINE len == Len(body)
           S == Seq(C)
           F == [p \in S \X (1 .. len) |-> Stuff(p[1], body[p[2]])]
<1>1. len \in Nat /\ DOMAIN body = 1 .. len /\ \A k \in 1 .. len : body[k] \in C
  OBVIOUS
<1>2. \A s \in S, c \in C : Stuff(s, c) \in S
  BY DEF Stuff
<1> HIDE DEF S, len
<1>3. base \in S
  BY DEF S
<1>4. F \in [S \X (1 .. len) -> S]
  BY <1>1, <1>2
<1>5. \A s \in S, k \in 1 .. len : F[<<s, k>>] = Stuff(s, body[k])
  OBVIOUS
<1> HIDE DEF F
<1>6. PICK g : IsFold(g, S, F, base, len)
  BY <1>1, <1>3, <1>4, FoldExists
<1> DEFINE f == CHOOSE f : f = [x \in SUBSET (DOMAIN body) |->
                  IF x = {} THEN base ELSE Stuff(f[x \ {Max(x)}], body[Max(x)])]
<1>7. g = [x \in SUBSET (DOMAIN body) |->
             IF x = {} THEN base ELSE Stuff(g[x \ {Max(x)}], body[Max(x)])]
  <2>1. ASSUME NEW x \in SUBSET (1 .. len), x # {}
        PROVE  g[x] = Stuff(g[x \ {Max(x)}], body[Max(x)])
    <3>1. Max(x) \in 1 .. len /\ x \ {Max(x)} \in SUBSET (1 .. len)
      BY <1>1, <2>1, MaxOfRange
    <3>2. g[x] = F[<<g[x \ {Max(x)}], Max(x)>>] /\ g[x \ {Max(x)}] \in S
      BY <1>6, <2>1, <3>1 DEF IsFold
    <3> QED
      BY <1>5, <3>1, <3>2
  <2>2. g = [x \in SUBSET (1 .. len) |-> g[x]] /\ g[{}] = base
    BY <1>6 DEF IsFold
  <2> QED
    BY <1>1, <2>1, <2>2
<1>8. f = [x \in SUBSET (DOMAIN body) |->
             IF x = {} THEN base ELSE Stuff(f[x \ {Max(x)}], body[Max(x)])]
  BY <1>7
<1>9. FoldLeft(Stuff, base, body) = f[DOMAIN body]
  BY DEF FoldLeft, MapThenFoldSet
<1> HIDE DEF f
<1>10. Folds(f, S, F, base, len)
  <2>1. f[{}] = base
    BY <1>8
  <2>2. ASSUME NEW k \in 1 .. len, f[1 .. (k - 1)] \in S
        PROVE  f[1 .. k] = F[<<f[1 .. (k - 1)], k>>]
    <3>1. k \in Nat \ {0} /\ 1 .. k # {} /\ 1 .. k \in SUBSET (DOMAIN body)
      <4>1. k \in Nat \ {0} /\ 1 \in 1 .. k
        BY <1>1
      <4>2. \A j \in 1 .. k : j \in 1 .. len
        BY <1>1
      <4> QED
        BY <1>1, <4>1, <4>2
    <3>2. Max(1 .. k) = k /\ (1 .. k) \ {k} = 1 .. (k - 1)
      BY <3>1, InitialNumbers
    <3>3. f[1 .. k] = Stuff(f[1 .. (k - 1)], body[k])
      BY <1>8, <3>1, <3>2
    <3> QED
      BY <1>5, <2>2, <3>3
  <2> QED
    BY <2>1, <2>2 DEF Folds
<1>11. PICK h : Iterates(h, f, S, F, base, len)
  BY <1>1, <1>3, <1>4, <1>10, FoldInOrder
<1>12. h[0] = base /\ h \in [0 .. len -> S] /\ f[1 .. len] = h[len]
  BY <1>11 DEF Iterates
<1>13. ASSUME NEW k \in 1 .. len PROVE h[k] = Stuff(h[k - 1], body[k])
  <2>1. k - 1 \in 0 .. len
    BY <1>1
  <2>2. h[k - 1] \in S
    BY <1>12, <2>1
  <2>3. h[k] = F[<<h[k - 1], k>>]
    BY <1>11 DEF Iterates
  <2> QED
    BY <1>5, <2>2, <2>3
<1>14. Stuffing(h, base, body, C)
  BY <1>1, <1>9, <1>12, <1>13 DEF len, S, Stuffing
<1> QED
  BY <1>14

(* What the last one or two characters are. *)
LEMMA EndsWith ==
  ASSUME NEW C, NEW s \in Seq(C), s # <<>>, NEW x
  PROVE  Ends(s, <<x>>) <=> s[Len(s)] = x
<1>1. Len(s) \in Nat \ {0} /\ Len(Reverse(s)) = Len(s) /\ Reverse(s)[1] = s[Len(s)]
  BY DEF Reverse
<1>2. Len(Reverse(<<x>>)) = 1 /\ Reverse(<<x>>)[1] = x
  BY DEF Reverse
<1> QED
  BY <1>1, <1>2 DEF Ends, IsSuffix, IsPrefix

(* What is followed by what in a text with lines. *)
LinesPaired(s) ==
  \A k \in 1 .. Len(s) : /\ s[k] = "lf" => k > 1 /\ s[k - 1] = "cr"
                         /\ s[k] = "cr" => k < Len(s) /\ s[k + 1] = "lf"

(* In a stuffed text, a dot behind a newline is the first of two. *)
DotsPaired(s) ==
  \A k \in 1 .. (Len(s) - 1) :
    s[k] = "lf" /\ s[k + 1] = "." => k + 2 <= Len(s) /\ s[k + 2] = "."

(* Lines with what is between them make lines. *)
LEMMA PairedJoin ==
  ASSUME NEW C, NEW s \in Seq(C), NEW v \in Seq(C), LinesPaired(s), LinesPaired(v)
  PROVE  s \o v \in Seq(C) /\ LinesPaired(s \o v)
<1> DEFINE w == s \o v
<1>1. /\ w \in Seq(C) /\ Len(w) = Len(s) + Len(v) /\ Len(s) \in Nat /\ Len(v) \in Nat
      /\ \A k \in 1 .. Len(s) + Len(v) : w[k] = IF k <= Len(s) THEN s[k] ELSE v[k - Len(s)]
  BY ConcatProperties
<1> HIDE DEF w
<1>2. ASSUME NEW k \in 1 .. Len(w)
      PROVE  /\ w[k] = "lf" => k > 1 /\ w[k - 1] = "cr"
             /\ w[k] = "cr" => k < Len(w) /\ w[k + 1] = "lf"
  <2>1. CASE k <= Len(s)
    <3>1. k \in 1 .. Len(s) /\ w[k] = s[k]
      BY <1>1, <2>1
    <3>2. \A j \in 1 .. Len(s) : w[j] = s[j]
      BY <1>1
    <3>3. s[k] = "lf" => k > 1 /\ w[k - 1] = "cr"
      <4>1. SUFFICES ASSUME s[k] = "lf" PROVE k > 1 /\ w[k - 1] = "cr"
        OBVIOUS
      <4>2. k > 1 /\ s[k - 1] = "cr"
        BY <3>1, <4>1 DEF LinesPaired
      <4>3. k - 1 \in 1 .. Len(s)
        BY <1>1, <3>1, <4>2
      <4> QED
        BY <3>2, <4>2, <4>3
    <3>4. s[k] = "cr" => k < Len(w) /\ w[k + 1] = "lf"
      <4>1. SUFFICES ASSUME s[k] = "cr" PROVE k < Len(w) /\ w[k + 1] = "lf"
        OBVIOUS
      <4>2. k < Len(s) /\ s[k + 1] = "lf"
        BY <3>1, <4>1 DEF LinesPaired
      <4>3. k + 1 \in 1 .. Len(s) /\ k < Len(w)
        BY <1>1, <3>1, <4>2
      <4> QED
        BY <3>2, <4>2, <4>3
    <3> QED
      BY <3>1, <3>3, <3>4
  <2>2. CASE ~(k <= Len(s))
    <3> DEFINE d == k - Len(s)
    <3>1. d \in 1 .. Len(v) /\ w[k] = v[d]
      BY <1>1, <2>2
    <3>2. ASSUME NEW j \in 1 .. Len(v) PROVE w[j + Len(s)] = v[j]
      <4>1. /\ j + Len(s) \in 1 .. Len(s) + Len(v) /\ ~(j + Len(s) <= Len(s))
            /\ (j + Len(s)) - Len(s) = j
        BY <1>1
      <4> QED
        BY <1>1, <4>1
    <3>3. v[d] = "lf" => d > 1 /\ w[k - 1] = "cr"
      <4>1. SUFFICES ASSUME v[d] = "lf" PROVE d > 1 /\ w[k - 1] = "cr"
        OBVIOUS
      <4>2. d > 1 /\ v[d - 1] = "cr"
        BY <3>1, <4>1 DEF LinesPaired
      <4>3. d - 1 \in 1 .. Len(v) /\ (d - 1) + Len(s) = k - 1
        BY <1>1, <3>1, <4>2
      <4> QED
        BY <3>2, <4>2, <4>3
    <3>4. v[d] = "cr" => k < Len(w) /\ w[k + 1] = "lf"
      <4>1. SUFFICES ASSUME v[d] = "cr" PROVE k < Len(w) /\ w[k + 1] = "lf"
        OBVIOUS
      <4>2. d < Len(v) /\ v[d + 1] = "lf"
        BY <3>1, <4>1 DEF LinesPaired
      <4>3. d + 1 \in 1 .. Len(v) /\ (d + 1) + Len(s) = k + 1 /\ k < Len(w)
        BY <1>1, <3>1, <4>2
      <4> QED
        BY <3>2, <4>2, <4>3
    <3> QED
      BY <1>1, <3>1, <3>3, <3>4
  <2> QED
    BY <2>1, <2>2
<1> QED
  BY <1>1, <1>2 DEF LinesPaired, w

(* The characters on the way from server to server. *)
OnWire(D) == D \cup {".", "cr", "lf", "h"}

(* The body that is sent ends in a newline, and has no part of one. *)
LEMMA BodyPaired ==
  ASSUME NEW D, "cr" \notin D, "lf" \notin D, NEW t \in Seq(D)
  PROVE  LET b == OutBody(t)
         IN  /\ b \in Seq(OnWire(D)) /\ LinesPaired(b) /\ Len(b) >= 2
             /\ b[Len(b) - 1] = "cr" /\ b[Len(b)] = "lf"
<1> DEFINE C == OnWire(D)
           u == [i \in DOMAIN t |-> IF t[i] = "nl" THEN <<"cr", "lf">> ELSE <<t[i]>>]
           G == FlattenSeq(u)
           body == Trimmed(G)
           crlf == <<"cr", "lf">>
<1>1. Len(t) \in Nat /\ DOMAIN t = 1 .. Len(t) /\ \A i \in 1 .. Len(t) : t[i] \in D
  OBVIOUS
<1>2. crlf \in Seq(C) /\ LinesPaired(crlf) /\ Len(crlf) = 2 /\ crlf[1] = "cr" /\ crlf[2] = "lf"
  BY DEF LinesPaired, OnWire
<1>3. ASSUME NEW c \in D PROVE <<c>> \in Seq(C) /\ LinesPaired(<<c>>)
  <2>1. c # "cr" /\ c # "lf"
    OBVIOUS
  <2> QED
    BY <2>1 DEF LinesPaired, OnWire
<1>4. OutBody(t) = body \o crlf
  BY DEF OutBody, Flat
<1>5. /\ u \in Seq(Seq(C)) /\ Len(u) = Len(t)
      /\ \A k \in 1 .. Len(u) : LinesPaired(u[k])
  <2>1. \A k \in DOMAIN t : u[k] \in Seq(C) /\ LinesPaired(u[k])
    <3> HIDE DEF C
    <3> QED
      BY <1>1, <1>2, <1>3
  <2>2. u = [k \in DOMAIN t |-> u[k]]
    OBVIOUS
  <2> HIDE DEF u, C
  <2> QED
    BY <1>1, <2>1, <2>2
<1> HIDE DEF u, C, crlf
<1>6. PICK h : Joins(h, u, C)
  BY <1>5, FlatInOrder
<1> DEFINE T == {k \in 0 .. Len(u) : h[k] \in Seq(C) /\ LinesPaired(h[k])}
<1>7. 0 \in T
  <2>1. h[0] = <<>> /\ 0 \in 0 .. Len(u)
    BY <1>1, <1>5, <1>6 DEF Joins
  <2>2. LinesPaired(<<>>) /\ <<>> \in Seq(C)
    BY DEF LinesPaired
  <2>3. LinesPaired(h[0]) /\ h[0] \in Seq(C)
    BY <2>1, <2>2
  <2> QED
    BY <2>1, <2>3
<1>8. ASSUME NEW k \in 1 .. Len(u), k - 1 \in T PROVE k \in T
  <2>1. h[k] = h[k - 1] \o u[k] /\ k \in 0 .. Len(u)
    <3>1. \A j \in 1 .. Len(u) : h[j] = h[j - 1] \o u[j]
      BY <1>6 DEF Joins
    <3>2. k \in 0 .. Len(u)
      BY <1>1, <1>5
    <3> QED
      BY <3>1, <3>2
  <2>2. h[k - 1] \in Seq(C) /\ LinesPaired(h[k - 1])
    BY <1>8
  <2>3. u[k] \in Seq(C) /\ LinesPaired(u[k])
    BY <1>5
  <2>4. h[k] \in Seq(C) /\ LinesPaired(h[k])
    BY <2>1, <2>2, <2>3, PairedJoin
  <2> QED
    BY <2>1, <2>4
<1>9. G \in Seq(C) /\ LinesPaired(G)
  <2>1. Len(u) \in Nat /\ G = h[Len(u)]
    BY <1>5, <1>6 DEF Joins
  <2>2. Len(u) \in T
    <3> HIDE DEF T
    <3>1. \A k \in 0 .. Len(u) : k \in T
      BY <1>7, <1>8, <2>1, NumbersReached
    <3> QED
      BY <2>1, <3>1
  <2> QED
    BY <2>1, <2>2
<1> HIDE DEF G, T
<1>10. body \in Seq(C) /\ LinesPaired(body)
  <2> DEFINE full == {i \in DOMAIN G : G[i] \notin {"sp", "nl", "cr", "lf"}}
             e == IF full = {} THEN 0 ELSE CHOOSE i \in full : \A j \in full : j <= i
  <2>1. Len(G) \in Nat /\ DOMAIN G = 1 .. Len(G)
    BY <1>9
  <2>2. e = 0 \/ e \in full
    <3>1. SUFFICES ASSUME full # {} PROVE e \in full
      OBVIOUS
    <3>2. full \subseteq 1 .. Len(G)
      BY <2>1
    <3>3. Max(full) \in full /\ \A j \in full : j <= Max(full)
      <4> HIDE DEF full
      <4> QED
        BY <2>1, <3>1, <3>2, MaxOfRange
    <3> HIDE DEF full
    <3> QED
      BY <3>1, <3>3
  <2>3. body = SubSeq(G, 1, e)
    BY DEF Trimmed
  <2> HIDE DEF e, body
  <2>4. e \in 0 .. Len(G) /\ (e > 0 => G[e] # "cr")
    BY <2>1, <2>2
  <2>5. body \in Seq(C) /\ Len(body) = e /\ \A k \in 1 .. e : body[k] = G[k]
    <3>1. \A k \in 1 .. e : G[k] \in C
      BY <1>9, <2>1, <2>4
    <3> QED
      BY <2>3, <2>4, <3>1, SubSeqProperties
  <2>6. ASSUME NEW k \in 1 .. Len(body)
        PROVE  /\ body[k] = "lf" => k > 1 /\ body[k - 1] = "cr"
               /\ body[k] = "cr" => k < Len(body) /\ body[k + 1] = "lf"
    <3>1. k \in 1 .. Len(G) /\ k \in 1 .. e /\ body[k] = G[k]
      BY <2>1, <2>4, <2>5
    <3>2. G[k] = "lf" => k > 1 /\ G[k - 1] = "cr"
      BY <1>9, <3>1 DEF LinesPaired
    <3>3. G[k] = "cr" => k < e /\ G[k + 1] = "lf"
      BY <1>9, <2>4, <3>1 DEF LinesPaired
    <3> QED
      BY <2>4, <2>5, <3>1, <3>2, <3>3
  <2> QED
    BY <2>5, <2>6 DEF LinesPaired
<1> HIDE DEF body
<1>11. /\ body \o crlf \in Seq(C) /\ LinesPaired(body \o crlf)
       /\ Len(body \o crlf) = Len(body) + 2
       /\ (body \o crlf)[Len(body) + 1] = "cr" /\ (body \o crlf)[Len(body) + 2] = "lf"
  <2> DEFINE b == body \o crlf
  <2>1. Len(body) \in Nat
    BY <1>10
  <2>2. b \in Seq(C) /\ LinesPaired(b)
    BY <1>2, <1>10, PairedJoin
  <2>3. /\ Len(b) = Len(body) + 2
        /\ \A k \in 1 .. Len(body) + 2 : b[k] = IF k <= Len(body) THEN body[k] ELSE crlf[k - Len(body)]
    <3>1. /\ Len(b) = Len(body) + Len(crlf)
          /\ \A k \in 1 .. Len(body) + Len(crlf) : b[k] = IF k <= Len(body) THEN body[k] ELSE crlf[k - Len(body)]
      BY <1>2, <1>10, ConcatProperties
    <3> QED
      BY <1>2, <3>1
  <2> HIDE DEF b
  <2>4. b[Len(body) + 1] = crlf[1] /\ b[Len(body) + 2] = crlf[2]
    BY <2>1, <2>3
  <2> QED
    BY <1>2, <2>2, <2>3, <2>4 DEF b
<1>12. Len(body) \in Nat
  BY <1>10
<1> QED
  BY <1>4, <1>11, <1>12 DEF C

(* convertLineDots, one character more: it is left out if it is the second *)
(* of two dots behind a newline.                                           *)
SecondDot(s, c) ==
  /\ c = "." /\ Len(s) >= 3
  /\ s[Len(s)] = "." /\ s[Len(s) - 1] = "lf" /\ s[Len(s) - 2] = "cr"

LEMMA ConvertAppend ==
  ASSUME NEW C, NEW s \in Seq(C), NEW c \in C
  PROVE  /\ convertLineDots(s) \in Seq(C)
         /\ convertLineDots(Append(s, c)) =
              IF SecondDot(s, c) THEN convertLineDots(s) ELSE Append(convertLineDots(s), c)
<1> DEFINE w == Append(s, c)
           len == Len(s)
           two(x) == {i \in 1 .. Len(x) - 3 : SubSeq(x, i, i + 3) = <<"cr", "lf", ".", ".">>}
           t == [i \in DOMAIN s |-> IF i - 3 \in two(s) THEN <<>> ELSE <<s[i]>>]
           u == [i \in DOMAIN w |-> IF i - 3 \in two(w) THEN <<>> ELSE <<w[i]>>]
           e == IF SecondDot(s, c) THEN <<>> ELSE <<c>>
<1>1. /\ len \in Nat /\ DOMAIN s = 1 .. len /\ w \in Seq(C)
      /\ Len(w) = len + 1 /\ DOMAIN w = 1 .. (len + 1)
      /\ w[len + 1] = c /\ \A k \in 1 .. len : w[k] = s[k] /\ s[k] \in C
  OBVIOUS
<1>2. ASSUME NEW x \in Seq(C), NEW i \in 1 .. Len(x) - 3
      PROVE  i \in two(x) <=> x[i] = "cr" /\ x[i + 1] = "lf" /\ x[i + 2] = "." /\ x[i + 3] = "."
  <2>1. Len(x) \in Nat
    OBVIOUS
  <2>2. i \in Nat /\ i > 0 /\ i + 3 <= Len(x)
    BY <2>1
  <2>3. \A k \in i .. i + 3 : x[k] \in C
    BY <2>1, <2>2
  <2> DEFINE q == SubSeq(x, i, i + 3)
  <2>4. q \in Seq(C) /\ Len(q) = 4 /\ \A k \in 1 .. 4 : q[k] = x[i + k - 1]
    BY <2>2, <2>3, SubSeqProperties
  <2>5. q = <<"cr", "lf", ".", ".">> <=> q[1] = "cr" /\ q[2] = "lf" /\ q[3] = "." /\ q[4] = "."
    <3> HIDE DEF q
    <3> QED
      BY <2>4
  <2>6. q[1] = x[i] /\ q[2] = x[i + 1] /\ q[3] = x[i + 2] /\ q[4] = x[i + 3]
    <3> HIDE DEF q
    <3> QED
      BY <2>2, <2>4
  <2>7. i \in two(x) <=> q = <<"cr", "lf", ".", ".">>
    OBVIOUS
  <2> QED
    BY <2>5, <2>6, <2>7
<1>3. \A x : two(x) \subseteq 1 .. Len(x) - 3
  OBVIOUS
<1> HIDE DEF two, w, len
<1>4. ASSUME NEW k \in 1 .. len PROVE k - 3 \in two(w) <=> k - 3 \in two(s)
  <2>1. CASE k - 3 >= 1
    <3>1. k - 3 \in 1 .. Len(w) - 3 /\ k - 3 \in 1 .. Len(s) - 3
      BY <1>1, <2>1 DEF len
    <3>2. /\ w[k - 3] = s[k - 3] /\ w[(k - 3) + 1] = s[(k - 3) + 1]
          /\ w[(k - 3) + 2] = s[(k - 3) + 2] /\ w[(k - 3) + 3] = s[(k - 3) + 3]
      BY <1>1, <2>1
    <3> QED
      BY <1>1, <1>2, <3>1, <3>2
  <2>2. CASE ~(k - 3 >= 1)
    <3>1. k - 3 \notin 1 .. Len(w) - 3 /\ k - 3 \notin 1 .. Len(s) - 3
      BY <1>1, <2>2
    <3> QED
      BY <1>3, <3>1
  <2> QED
    BY <2>1, <2>2
<1>5. (len + 1) - 3 \in two(w) <=> SecondDot(s, c)
  <2>1. CASE len >= 3
    <3> DEFINE i == len - 2
    <3>1. i \in 1 .. Len(w) - 3 /\ i = (len + 1) - 3 /\ i + 1 = len - 1 /\ i + 2 = len /\ i + 3 = len + 1
      BY <1>1, <2>1
    <3>2. i \in two(w) <=> w[i] = "cr" /\ w[i + 1] = "lf" /\ w[i + 2] = "." /\ w[i + 3] = "."
      BY <1>1, <1>2, <3>1
    <3>3. w[i] = s[len - 2] /\ w[i + 1] = s[len - 1] /\ w[i + 2] = s[len] /\ w[i + 3] = c
      BY <1>1, <2>1, <3>1
    <3> QED
      BY <2>1, <3>1, <3>2, <3>3 DEF SecondDot, len
  <2>2. CASE ~(len >= 3)
    <3>1. (len + 1) - 3 \notin 1 .. Len(w) - 3
      BY <1>1, <2>2
    <3> QED
      BY <1>3, <2>2, <3>1 DEF SecondDot, len
  <2> QED
    BY <1>1, <2>1, <2>2
<1>6. t \in Seq(Seq(C)) /\ e \in Seq(C)
  <2>1. \A k \in DOMAIN s : t[k] \in Seq(C)
    BY <1>1
  <2>2. t = [k \in DOMAIN s |-> t[k]]
    OBVIOUS
  <2>3. e \in Seq(C)
    OBVIOUS
  <2> HIDE DEF t
  <2>4. t \in Seq(Seq(C))
    <3>1. len \in Nat /\ t = [k \in 1 .. len |-> t[k]] /\ \A k \in 1 .. len : t[k] \in Seq(C)
      BY <1>1, <2>1, <2>2
    <3> QED
      BY <3>1
  <2> QED
    BY <2>3, <2>4
<1>7. u = Append(t, e)
  <2>1. Len(t) = len /\ \A k \in 1 .. len : t[k] = IF k - 3 \in two(s) THEN <<>> ELSE <<s[k]>>
    BY <1>1
  <2>2. ASSUME NEW k \in 1 .. (len + 1) PROVE u[k] = IF k = len + 1 THEN e ELSE t[k]
    <3>1. CASE k = len + 1
      BY <1>1, <1>5, <3>1
    <3>2. CASE k # len + 1
      <4>1. k \in 1 .. len
        BY <1>1, <3>2
      <4> QED
        BY <1>1, <1>4, <3>2, <4>1
    <3> QED
      BY <3>1, <3>2
  <2>3. u = [k \in 1 .. (len + 1) |-> u[k]]
    BY <1>1
  <2> HIDE DEF u, t, e
  <2>4. \A k \in 1 .. (len + 1) : u[k] \in Seq(C)
    <3>1. \A k \in 1 .. (len + 1) : k = len + 1 \/ k \in 1 .. len
      BY <1>1
    <3>2. \A k \in 1 .. len : t[k] \in Seq(C)
      BY <1>6, <2>1
    <3> QED
      BY <1>6, <2>2, <3>1, <3>2
  <2>5. u \in Seq(Seq(C)) /\ Len(u) = len + 1
    BY <1>1, <2>3, <2>4, SMTT(40)
  <2> DEFINE a == Append(t, e)
  <2>6. /\ a \in Seq(Seq(C)) /\ Len(a) = len + 1
        /\ \A k \in 1 .. (len + 1) : a[k] = IF k = len + 1 THEN e ELSE t[k]
    BY <1>1, <1>6, <2>1, AppendProperties
  <2> HIDE DEF a
  <2>7. u = a
    BY <2>2, <2>5, <2>6, SeqEqual
  <2> QED
    BY <2>7 DEF a
<1>8. convertLineDots(s) = FlattenSeq(t)
  BY DEF convertLineDots, Flat, two
<1>9. convertLineDots(w) = FlattenSeq(u)
  BY DEF convertLineDots, Flat, two
<1> HIDE DEF t, u, e
<1>10. FlattenSeq(t) \in Seq(C) /\ FlattenSeq(u) = FlattenSeq(t) \o e
  BY <1>6, <1>7, FlatAppend
<1>11. convertLineDots(s) \in Seq(C) /\ convertLineDots(w) = convertLineDots(s) \o e
  BY <1>8, <1>9, <1>10
<1>12. convertLineDots(s) \o e = IF SecondDot(s, c) THEN convertLineDots(s) ELSE Append(convertLineDots(s), c)
  <2> DEFINE r == convertLineDots(s)
  <2>1. r \in Seq(C)
    BY <1>11
  <2> HIDE DEF r
  <2>2. r \o <<>> = r /\ r \o <<c>> = Append(r, c)
    BY <2>1
  <2> QED
    BY <2>2 DEF r, e
<1> QED
  BY <1>11, <1>12 DEF w

(* One character more: the sender doubles a dot that begins a line, and the *)
(* receiver takes one of the two away.                                     *)
LEMMA StuffStep ==
  ASSUME NEW C, "." \in C, NEW s \in Seq(C), NEW c \in C, Len(s) >= 3, DotsPaired(s),
         s[Len(s)] = "lf" => s[Len(s) - 1] = "cr"
  PROVE  LET w == Stuff(s, c)
         IN  /\ w \in Seq(C) /\ Len(w) > Len(s) /\ DotsPaired(w) /\ w[Len(w)] = c
             /\ c # "." => w = Append(s, c)
             /\ convertLineDots(w) = Append(convertLineDots(s), c)
<1> DEFINE len == Len(s)
           v == Append(s, c)
<1>1. /\ len \in Nat /\ len >= 3 /\ s # <<>> /\ v \in Seq(C) /\ Len(v) = len + 1
      /\ v[len + 1] = c /\ \A k \in 1 .. len : v[k] = s[k]
  OBVIOUS
<1>2. Ends(s, <<"lf">>) <=> s[len] = "lf"
  BY <1>1, EndsWith
<1>3. \A k \in 1 .. (len - 1) : s[k] = "lf" /\ s[k + 1] = "." => k + 2 <= len /\ s[k + 2] = "."
  BY DEF DotsPaired
<1> HIDE DEF len, v
<1>4. CASE c = "." /\ s[len] = "lf"
  <2> DEFINE w == Append(v, c)
  <2>1. Stuff(s, c) = w
    <3>1. Stuff(s, c) = s \o <<".", ".">>
      BY <1>2, <1>4 DEF Stuff
    <3>2. s \o <<".", ".">> = Append(Append(s, "."), ".")
      OBVIOUS
    <3> QED
      BY <1>4, <3>1, <3>2 DEF v
  <2>2. /\ w \in Seq(C) /\ Len(w) = len + 2 /\ w[len + 2] = c /\ w[len + 1] = c
        /\ \A k \in 1 .. len : w[k] = s[k]
    BY <1>1
  <2> HIDE DEF w
  <2>3. ASSUME NEW k \in 1 .. (Len(w) - 1), w[k] = "lf", w[k + 1] = "."
        PROVE  k + 2 <= Len(w) /\ w[k + 2] = "."
    <3>1. CASE k \in 1 .. (len - 1)
      <4>1. w[k] = s[k] /\ w[k + 1] = s[k + 1] /\ k + 2 <= len
        BY <1>1, <1>3, <2>2, <2>3, <3>1
      <4>2. w[k + 2] = s[k + 2]
        BY <1>1, <2>2, <3>1, <4>1
      <4> QED
        BY <1>1, <1>3, <2>2, <2>3, <3>1, <4>1, <4>2
    <3>2. CASE k = len
      BY <1>4, <2>2, <3>2
    <3>3. CASE k = len + 1
      BY <1>4, <2>2, <2>3, <3>3
    <3> QED
      BY <1>1, <2>2, <3>1, <3>2, <3>3
  <2>4. ~SecondDot(s, c)
    BY <1>4 DEF SecondDot, len
  <2>5. SecondDot(v, c)
    <3>1. v[Len(v)] = "." /\ v[Len(v) - 1] = "lf" /\ v[Len(v) - 2] = "cr"
      BY <1>1, <1>4 DEF len
    <3> QED
      BY <1>1, <1>4, <3>1 DEF SecondDot
  <2>6. convertLineDots(v) = Append(convertLineDots(s), c)
    BY <2>4, ConvertAppend DEF v
  <2>7. convertLineDots(w) = convertLineDots(v)
    BY <1>1, <2>5, ConvertAppend DEF w
  <2>8. DotsPaired(w)
    BY <2>3 DEF DotsPaired
  <2> QED
    BY <1>1, <1>4, <2>1, <2>2, <2>6, <2>7, <2>8 DEF len
<1>5. CASE ~(c = "." /\ s[len] = "lf")
  <2>1. Stuff(s, c) = v
    BY <1>2, <1>5 DEF Stuff, v
  <2>2. ASSUME NEW k \in 1 .. (Len(v) - 1), v[k] = "lf", v[k + 1] = "."
        PROVE  k + 2 <= Len(v) /\ v[k + 2] = "."
    <3>1. CASE k \in 1 .. (len - 1)
      <4>1. v[k] = s[k] /\ v[k + 1] = s[k + 1] /\ k + 2 <= len
        BY <1>1, <1>3, <2>2, <3>1
      <4>2. v[k + 2] = s[k + 2]
        BY <1>1, <3>1, <4>1
      <4> QED
        BY <1>1, <1>3, <2>2, <3>1, <4>1, <4>2
    <3>2. CASE k = len
      BY <1>1, <1>5, <2>2, <3>2
    <3> QED
      BY <1>1, <3>1, <3>2
  <2>3. ~SecondDot(s, c)
    <3>1. SUFFICES ASSUME SecondDot(s, c) PROVE FALSE
      OBVIOUS
    <3>2. s[len] = "." /\ s[len - 1] = "lf"
      BY <3>1 DEF SecondDot, len
    <3>3. len - 1 \in 1 .. (len - 1) /\ (len - 1) + 1 = len /\ ~((len - 1) + 2 <= len)
      BY <1>1
    <3> QED
      BY <1>3, <3>2, <3>3
  <2>4. convertLineDots(v) = Append(convertLineDots(s), c)
    BY <2>3, ConvertAppend DEF v
  <2>5. DotsPaired(v)
    BY <2>2 DEF DotsPaired
  <2> QED
    BY <1>1, <2>1, <2>4, <2>5 DEF len, v
<1> QED
  BY <1>4, <1>5

(* A text that has no dots stays as it is: what is before the body. *)
LEMMA BeforeBody ==
  ASSUME NEW C, {"h", "cr", "lf"} \subseteq C
  PROVE  LET p == <<"h", "cr", "lf">> \o <<"cr", "lf">>
         IN  /\ p = <<"h", "cr", "lf", "cr", "lf">> /\ p \in Seq(C)
             /\ convertLineDots(p) = p /\ DotsPaired(p)
<1> DEFINE a == <<"h">>
           b == <<"h", "cr">>
           c == <<"h", "cr", "lf">>
           d == <<"h", "cr", "lf", "cr">>
           p == <<"h", "cr", "lf", "cr", "lf">>
<1>1. /\ <<>> \in Seq(C) /\ a \in Seq(C) /\ b \in Seq(C) /\ c \in Seq(C) /\ d \in Seq(C) /\ p \in Seq(C)
      /\ a = Append(<<>>, "h") /\ b = Append(a, "cr") /\ c = Append(b, "lf")
      /\ d = Append(c, "cr") /\ p = Append(d, "lf")
  OBVIOUS
<1>2. convertLineDots(<<>>) = <<>>
  <2> DEFINE two == {i \in 1 .. Len(<<>>) - 3 : SubSeq(<<>>, i, i + 3) = <<"cr", "lf", ".", ".">>}
             t == [i \in DOMAIN <<>> |-> IF i - 3 \in two THEN <<>> ELSE <<(<<>>)[i]>>]
  <2>1. convertLineDots(<<>>) = FlattenSeq(t)
    BY DEF convertLineDots, Flat
  <2>2. t = <<>>
    OBVIOUS
  <2> HIDE DEF t
  <2>3. FlattenSeq(<<>>) = <<>>
    BY DEF FlattenSeq
  <2> QED
    BY <2>1, <2>2, <2>3
<1>3. \A s : ~SecondDot(s, "h") /\ ~SecondDot(s, "cr") /\ ~SecondDot(s, "lf")
  BY DEF SecondDot
<1>4. <<"h", "cr", "lf">> \o <<"cr", "lf">> = p
  <2> DEFINE q == <<"cr", "lf">>
             r == c \o q
  <2>1. /\ q \in Seq(C) /\ Len(q) = 2 /\ q[1] = "cr" /\ q[2] = "lf"
        /\ c \in Seq(C) /\ Len(c) = 3 /\ c[1] = "h" /\ c[2] = "cr" /\ c[3] = "lf"
    OBVIOUS
  <2>2. r \in Seq(C) /\ Len(r) = 5 /\ \A k \in 1 .. 5 : r[k] = IF k <= 3 THEN c[k] ELSE q[k - 3]
    <3> HIDE DEF q, c
    <3>1. /\ r \in Seq(C) /\ Len(r) = Len(c) + Len(q)
          /\ \A k \in 1 .. Len(c) + Len(q) : r[k] = IF k <= Len(c) THEN c[k] ELSE q[k - Len(c)]
      BY <2>1, ConcatProperties
    <3> QED
      BY <2>1, <3>1
  <2> HIDE DEF q, r, c
  <2>3. r[1] = "h" /\ r[2] = "cr" /\ r[3] = "lf" /\ r[4] = "cr" /\ r[5] = "lf"
    BY <2>1, <2>2
  <2>4. r = p
    BY <2>2, <2>3
  <2> QED
    BY <2>4 DEF r, c, q
<1>5. DotsPaired(p)
  BY DEF DotsPaired
<1>6. "h" \in C /\ "cr" \in C /\ "lf" \in C
  OBVIOUS
<1> HIDE DEF a, b, c, d, p
<1>7. ASSUME NEW s \in Seq(C), NEW x \in {"h", "cr", "lf"}, convertLineDots(s) = s
      PROVE  convertLineDots(Append(s, x)) = Append(s, x)
  <2>1. x \in C /\ ~SecondDot(s, x)
    BY <1>3
  <2> QED
    BY <1>7, <2>1, ConvertAppend
<1>8. convertLineDots(a) = a /\ convertLineDots(b) = b
  BY <1>1, <1>2, <1>7
<1>9. convertLineDots(c) = c
  <2>1. convertLineDots(Append(b, "lf")) = Append(b, "lf")
    BY <1>1, <1>7, <1>8
  <2> QED
    BY <1>1, <2>1
<1>10. convertLineDots(d) = d
  <2>1. convertLineDots(Append(c, "cr")) = Append(c, "cr")
    BY <1>1, <1>7, <1>9
  <2> QED
    BY <1>1, <2>1
<1>11. convertLineDots(p) = p
  <2>1. convertLineDots(Append(d, "lf")) = Append(d, "lf")
    BY <1>1, <1>7, <1>10
  <2> QED
    BY <1>1, <2>1
<1> QED
  BY <1>1, <1>4, <1>5, <1>11 DEF p

(* What has been sent of a body, and what is made of it on arrival. *)
Underway(w, p, b, k, C) ==
  /\ w \in Seq(C) /\ Len(w) >= 5 /\ DotsPaired(w)
  /\ w[Len(w)] = IF k = 0 THEN "lf" ELSE b[k]
  /\ w[Len(w)] = "lf" => w[Len(w) - 1] = "cr"
  /\ convertLineDots(w) = p \o SubSeq(b, 1, k)

(* It stays so with every character of the body. *)
LEMMA UnderwayStep ==
  ASSUME NEW C, "." \in C, NEW p \in Seq(C), NEW b \in Seq(C), LinesPaired(b),
         NEW k \in 1 .. Len(b), NEW s, Underway(s, p, b, k - 1, C)
  PROVE  /\ Underway(Stuff(s, b[k]), p, b, k, C)
         /\ b[k] # "." => Stuff(s, b[k]) = Append(s, b[k])
<1> DEFINE c == b[k]
           w == Stuff(s, c)
<1>1. /\ c \in C /\ k \in Nat \ {0} /\ Len(b) \in Nat /\ k - 1 \in 0 .. Len(b)
      /\ s \in Seq(C) /\ Len(s) \in Nat /\ Len(s) >= 5 /\ DotsPaired(s)
      /\ s[Len(s)] = "lf" => s[Len(s) - 1] = "cr"
  BY DEF Underway
<1>2. /\ w \in Seq(C) /\ Len(w) > Len(s) /\ DotsPaired(w) /\ w[Len(w)] = c
      /\ c # "." => w = Append(s, c)
      /\ convertLineDots(w) = Append(convertLineDots(s), c)
  <2>1. Len(s) >= 3
    BY <1>1
  <2> HIDE DEF c
  <2> QED
    BY <1>1, <2>1, StuffStep, ZenonT(60)
<1>3. convertLineDots(w) = p \o SubSeq(b, 1, k)
  <2> DEFINE q == SubSeq(b, 1, k - 1)
  <2>1. convertLineDots(w) = Append(p \o q, c)
    BY <1>2 DEF Underway
  <2>2. \A j \in 1 .. k - 1 : b[j] \in C
    BY <1>1
  <2>3. q \in Seq(C)
    BY <1>1, <2>2, SubSeqProperties
  <2>4. SubSeq(b, 1, k) = q \o <<c>>
    <3>1. 1 \in 1 .. Len(b) /\ k \in 1 .. Len(b)
      BY <1>1
    <3> QED
      BY <3>1, SubSeqRecursiveSecond
  <2> HIDE DEF q, c
  <2>5. Append(p \o q, c) = (p \o q) \o <<c>>
    <3>1. p \o q \in Seq(C)
      BY <2>3, ConcatProperties
    <3> QED
      BY <1>1, <3>1, AppendIsConcat
  <2>6. <<c>> \in Seq(C)
    BY <1>1
  <2>7. (p \o q) \o <<c>> = p \o (q \o <<c>>)
    <3> DEFINE d == <<c>>
    <3> HIDE DEF d
    <3>1. d \in Seq(C)
      BY <2>6 DEF d
    <3>2. (p \o q) \o d = p \o (q \o d)
      BY p \in Seq(C), <2>3, <3>1, ConcatAssociative, SMTT(40)
    <3> QED
      BY <3>2 DEF d
  <2> QED
    BY <2>1, <2>4, <2>5, <2>7
<1>4. ASSUME c = "lf" PROVE w[Len(w) - 1] = "cr"
  <2>1. k > 1 /\ b[k - 1] = "cr"
    BY <1>4 DEF LinesPaired
  <2>2. s[Len(s)] = "cr"
    BY <1>1, <2>1 DEF Underway
  <2>3. w = Append(s, c)
    BY <1>2, <1>4
  <2> HIDE DEF w
  <2>4. Len(w) - 1 = Len(s) /\ w[Len(s)] = s[Len(s)]
    BY <1>1, <2>3
  <2> QED
    BY <2>2, <2>4
<1>5. Len(w) >= 5
  BY <1>1, <1>2
<1> HIDE DEF w
<1>6. Underway(w, p, b, k, C)
  BY <1>1, <1>2, <1>3, <1>4, <1>5 DEF Underway
<1> QED
  BY <1>2, <1>6 DEF w

(* respondClient: the first "\r\n.\r\n" is the one that createEmail adds.    *)
LEMMA EndFound ==
  ASSUME NEW C, {"cr", "lf", "."} \subseteq C, NEW s \in Seq(C),
         DotsPaired(Append(Append(s, "cr"), "lf"))
  PROVE  UpToDot(Append(Append(s, "cr"), "lf") \o <<".", "cr", "lf">>) = s
<1> DEFINE f == Append(Append(s, "cr"), "lf")
           e == <<".", "cr", "lf">>
           w == f \o e
           len == Len(s)
           end == {i \in 1 .. Len(w) - 4 : SubSeq(w, i, i + 4) = <<"cr", "lf", ".", "cr", "lf">>}
<1>1. /\ len \in Nat /\ f \in Seq(C) /\ Len(f) = len + 2 /\ \A k \in 1 .. len : f[k] = s[k] /\ s[k] \in C
      /\ f[len + 1] = "cr" /\ f[len + 2] = "lf"
  OBVIOUS
<1>2. e \in Seq(C) /\ Len(e) = 3 /\ e[1] = "." /\ e[2] = "cr" /\ e[3] = "lf"
  OBVIOUS
<1>3. /\ w \in Seq(C) /\ Len(w) = len + 5
      /\ \A k \in 1 .. len + 5 : w[k] = IF k <= len + 2 THEN f[k] ELSE e[k - (len + 2)]
  <2> HIDE DEF f, e, len
  <2>1. /\ w \in Seq(C) /\ Len(w) = Len(f) + Len(e)
        /\ \A k \in 1 .. Len(f) + Len(e) : w[k] = IF k <= Len(f) THEN f[k] ELSE e[k - Len(f)]
    BY <1>1, <1>2, ConcatProperties, ZenonT(60)
  <2> QED
    BY <1>1, <1>2, <2>1
<1> HIDE DEF f, e, w, len
<1>4. ASSUME NEW i \in 1 .. Len(w) - 4
      PROVE  SubSeq(w, i, i + 4) = <<"cr", "lf", ".", "cr", "lf">>
               <=> /\ w[i] = "cr" /\ w[i + 1] = "lf" /\ w[i + 2] = "." /\ w[i + 3] = "cr"
                   /\ w[i + 4] = "lf"
  <2> DEFINE q == SubSeq(w, i, i + 4)
  <2>1. i \in Nat /\ i > 0 /\ i + 4 <= Len(w) /\ Len(w) \in Nat
    BY <1>1, <1>3
  <2>2. \A k \in i .. i + 4 : w[k] \in C
    BY <1>3, <2>1
  <2>3. q \in Seq(C) /\ Len(q) = 5 /\ \A k \in 1 .. 5 : q[k] = w[i + k - 1]
    BY <2>1, <2>2, SubSeqProperties
  <2> HIDE DEF q
  <2>4. /\ q[1] = w[i] /\ q[2] = w[i + 1] /\ q[3] = w[i + 2] /\ q[4] = w[i + 3]
        /\ q[5] = w[i + 4]
    BY <2>1, <2>3
  <2>5. q = <<"cr", "lf", ".", "cr", "lf">>
          <=> q[1] = "cr" /\ q[2] = "lf" /\ q[3] = "." /\ q[4] = "cr" /\ q[5] = "lf"
    BY <2>3
  <2> QED
    BY <2>4, <2>5 DEF q
<1>5. len + 1 \in end
  <2>1. len + 1 \in 1 .. Len(w) - 4
    BY <1>1, <1>3
  <2>2. /\ w[len + 1] = "cr" /\ w[(len + 1) + 1] = "lf" /\ w[(len + 1) + 2] = "."
        /\ w[(len + 1) + 3] = "cr" /\ w[(len + 1) + 4] = "lf"
    BY <1>1, <1>2, <1>3
  <2> QED
    BY <1>4, <2>1, <2>2
<1>6. ASSUME NEW i \in end PROVE i = len + 1
  <2>1. i \in 1 .. (len + 1)
    BY <1>1, <1>3
  <2>2. w[i + 1] = "lf" /\ w[i + 2] = "." /\ w[i + 3] = "cr"
    BY <1>4
  <2>3. SUFFICES ASSUME i \in 1 .. len PROVE FALSE
    BY <1>1, <2>1
  <2>4. f[i + 1] = "lf" /\ f[i + 2] = "."
    BY <1>1, <1>3, <2>2, <2>3
  <2>5. i + 1 \in 1 .. (Len(f) - 1) /\ (i + 1) + 1 = i + 2 /\ (i + 1) + 2 = i + 3
    BY <1>1, <2>3
  <2>6. i + 3 <= Len(f) /\ f[i + 3] = "."
    <3>1. DotsPaired(f)
      BY DEF f
    <3> QED
      BY <2>4, <2>5, <3>1 DEF DotsPaired
  <2>7. w[i + 3] = "."
    BY <1>1, <1>3, <2>3, <2>6
  <2> QED
    BY <2>2, <2>7
<1>7. (CHOOSE i \in end : \A j \in end : i <= j) = len + 1
  <2> HIDE DEF end
  <2>1. \A j \in end : len + 1 <= j
    BY <1>1, <1>6
  <2> QED
    BY <1>5, <1>6, <2>1
<1>8. UpToDot(w) = SubSeq(w, 1, (len + 1) - 1)
  BY <1>7 DEF UpToDot
<1>9. SubSeq(w, 1, len) \in Seq(C) /\ Len(SubSeq(w, 1, len)) = len
      /\ \A k \in 1 .. len : SubSeq(w, 1, len)[k] = w[k]
  <2>1. \A k \in 1 .. len : w[k] \in C
    BY <1>1, <1>3
  <2> QED
    BY <1>1, <2>1, SubSeqProperties
<1>10. \A k \in 1 .. len : w[k] = s[k]
  BY <1>1, <1>3
<1>11. SubSeq(w, 1, len) = s
  <2>1. len = Len(s)
    BY DEF len
  <2> QED
    BY <1>9, <1>10, <2>1, SeqEqual
<1>12. (len + 1) - 1 = len
  BY <1>1
<1> QED
  BY <1>8, <1>11, <1>12 DEF w, f, e

(* createEmail, respondClient and convertLineDots: a body of any length     *)
(* arrives as it was written, whatever dots begin its lines or stand in    *)
(* lines of their own, and none of them ends the mail.                     *)
THEOREM DotsAlwaysKept == TextsSpec => []DotsKept
<1>1. ASSUME TextOK PROVE DotsKept
  <2> SUFFICES ASSUME kind = "mail"
               PROVE  Arrived(<<"h", "cr", "lf">>, text) = <<"h", "cr", "lf", "cr", "lf">> \o OutBody(text)
    BY DEF DotsKept
  <2> DEFINE D == Items["mail"]
             C == OnWire(D)
             b == OutBody(text)
             p == <<"h", "cr", "lf">> \o <<"cr", "lf">>
             len == Len(b)
             newline == <<"cr", "lf">>
  <2>1. text \in Seq(D) /\ "cr" \notin D /\ "lf" \notin D
    BY <1>1, TextsAssumption DEF TextOK, Encoded
  <2>2. {"h", "cr", "lf", "."} \subseteq C
    BY DEF OnWire
  <2> HIDE DEF D
  <2>3. /\ b \in Seq(C) /\ LinesPaired(b) /\ len \in Nat /\ len >= 2
        /\ b[len - 1] = "cr" /\ b[len] = "lf"
    <3>1. /\ b \in Seq(C) /\ LinesPaired(b) /\ Len(b) >= 2
          /\ b[Len(b) - 1] = "cr" /\ b[Len(b)] = "lf"
      BY <2>1, BodyPaired
    <3> HIDE DEF b, C
    <3> QED
      BY <3>1
  <2> HIDE DEF C, b
  <2>4. /\ p = <<"h", "cr", "lf", "cr", "lf">> /\ p \in Seq(C)
        /\ convertLineDots(p) = p /\ DotsPaired(p)
    BY <2>2, BeforeBody
  <2>0. PICK h : Stuffing(h, p, b, C)
    <3> HIDE DEF p
    <3>1. "." \in C
      BY <2>2
    <3> QED
      BY <2>3, <2>4, <3>1, StuffInOrder
  <2>5. /\ h \in [0 .. len -> Seq(C)]
        /\ h[0] = p
        /\ \A k \in 1 .. len : h[k] = Stuff(h[k - 1], b[k])
        /\ FoldLeft(Stuff, p, b) = h[len]
    BY <2>0 DEF Stuffing
  <2>6. Underway(h[0], p, b, 0, C)
    <3>1. SubSeq(b, 1, 0) = <<>> /\ p \o <<>> = p
      <4> HIDE DEF p
      <4> QED
        BY <2>4, SubSeqEmpty, ConcatEmptySeq
    <3>2. convertLineDots(h[0]) = p \o SubSeq(b, 1, 0)
      BY <2>4, <2>5, <3>1
    <3>3. h[0] = <<"h", "cr", "lf", "cr", "lf">>
      BY <2>4, <2>5
    <3>4. Len(h[0]) = 5 /\ h[0][5] = "lf" /\ h[0][5 - 1] = "cr"
      BY <3>3
    <3> HIDE DEF p
    <3> QED
      BY <2>4, <2>5, <3>2, <3>4 DEF Underway
  <2> HIDE DEF p, len
  <2> DEFINE T == {k \in 0 .. len : Underway(h[k], p, b, k, C)}
  <2>7. ASSUME NEW k \in 1 .. len, k - 1 \in T
        PROVE  /\ k \in T
               /\ b[k] # "." => h[k] = Append(h[k - 1], b[k])
    <3>1. k \in 1 .. Len(b) /\ h[k] = Stuff(h[k - 1], b[k])
      BY <2>5 DEF len
    <3>2. Underway(h[k - 1], p, b, k - 1, C)
      BY <2>7
    <3>3. "." \in C
      BY <2>2
    <3>4. /\ Underway(h[k], p, b, k, C)
          /\ b[k] # "." => h[k] = Append(h[k - 1], b[k])
      <4> DEFINE s == h[k - 1]
      <4> HIDE DEF s, T
      <4>1. Underway(s, p, b, k - 1, C)
        BY <3>2 DEF s
      <4>2. /\ Underway(Stuff(s, b[k]), p, b, k, C)
            /\ b[k] # "." => Stuff(s, b[k]) = Append(s, b[k])
        BY <2>3, <2>4, <3>1, <3>3, <4>1, UnderwayStep, ZenonT(60)
      <4> QED
        BY <3>1, <4>2 DEF s
    <3>5. k \in 0 .. len
      BY <2>3
    <3> QED
      BY <3>4, <3>5
  <2>8. \A k \in 0 .. len : k \in T
    <3>1. 0 \in T
      BY <2>3, <2>6
    <3> HIDE DEF T
    <3> QED
      BY <2>3, <2>7, <3>1, NumbersReached
  <2> DEFINE s == h[len - 2]
  <2>9. h[len] = Append(Append(s, "cr"), "lf")
    <3>1. len - 1 \in 1 .. len /\ len \in 1 .. len /\ (len - 1) - 1 = len - 2
      BY <2>3
    <3>2. len - 1 \in T /\ len - 2 \in T
      <4> HIDE DEF T
      <4>1. len - 2 \in 0 .. len /\ len - 1 \in 0 .. len
        BY <2>3
      <4> QED
        BY <2>8, <4>1
    <3> HIDE DEF T
    <3>3. h[len - 1] = Append(h[(len - 1) - 1], "cr")
      BY <2>3, <2>7, <3>1, <3>2
    <3>4. h[len] = Append(h[len - 1], "lf")
      BY <2>3, <2>7, <3>1, <3>2
    <3> QED
      BY <3>1, <3>3, <3>4
  <2>10. Underway(s, p, b, len - 2, C) /\ Underway(h[len], p, b, len, C)
    <3>1. len - 2 \in 0 .. len /\ len \in 0 .. len
      BY <2>3
    <3> QED
      BY <2>8, <3>1
  <2> HIDE DEF s, T
  <2>11. s \in Seq(C) /\ DotsPaired(h[len]) /\ convertLineDots(s) = p \o SubSeq(b, 1, len - 2)
    BY <2>10 DEF Underway
  <2>12. UpToDot(h[len] \o <<".", "cr", "lf">>) = s
    <3>1. {"cr", "lf", "."} \subseteq C
      BY <2>2
    <3> QED
      BY <2>9, <2>11, <3>1, EndFound
  <2>13. Stuffed(<<"h", "cr", "lf">>, b) = h[len] \o <<".", "cr", "lf">>
    BY <2>5 DEF Stuffed, p
  <2>14. Arrived(<<"h", "cr", "lf">>, text) = (p \o SubSeq(b, 1, len - 2)) \o newline
    BY <2>11, <2>12, <2>13 DEF Arrived, b
  <2>15. newline \in Seq(C) /\ Len(newline) = 2 /\ newline[1] = "cr" /\ newline[2] = "lf"
    BY <2>2
  <2> HIDE DEF newline
  <2> DEFINE q == SubSeq(b, 1, len - 2)
  <2>16. q \in Seq(C) /\ Len(q) = len - 2 /\ \A k \in 1 .. len - 2 : q[k] = b[k]
    <3>1. \A k \in 1 .. len - 2 : b[k] \in C
      BY <2>3 DEF len
    <3>2. Len(q) = IF 1 <= len - 2 THEN (len - 2) - 1 + 1 ELSE 0
      BY <2>3, <3>1, SubSeqProperties
    <3> QED
      BY <2>3, <3>1, <3>2, SubSeqProperties
  <2> HIDE DEF q
  <2>17. q \o newline = b
    <3> DEFINE r == q \o newline
    <3>1. /\ r \in Seq(C) /\ Len(r) = Len(q) + Len(newline)
          /\ \A k \in 1 .. Len(q) + Len(newline) : r[k] = IF k <= Len(q) THEN q[k] ELSE newline[k - Len(q)]
      BY <2>15, <2>16, ConcatProperties
    <3> HIDE DEF r
    <3>2. Len(r) = len
      BY <2>3, <2>15, <2>16, <3>1
    <3>3. ASSUME NEW k \in 1 .. len PROVE r[k] = b[k]
      <4>1. CASE k <= len - 2
        <5>1. k \in 1 .. len - 2 /\ k \in 1 .. Len(q) + Len(newline) /\ k <= Len(q)
          BY <2>3, <2>15, <2>16, <4>1
        <5> QED
          BY <2>16, <3>1, <5>1
      <4>2. CASE k = len - 1
        BY <2>3, <2>15, <2>16, <3>1, <4>2
      <4>3. CASE k = len
        BY <2>3, <2>15, <2>16, <3>1, <4>3
      <4> QED
        BY <2>3, <4>1, <4>2, <4>3
    <3>4. Len(r) = Len(b)
      BY <3>2 DEF len
    <3> QED
      BY <2>3, <3>1, <3>2, <3>3, <3>4, SeqEqual DEF r
  <2>18. (p \o q) \o newline = p \o (q \o newline)
    BY <2>4, <2>15, <2>16, ConcatAssociative
  <2> QED
    BY <2>4, <2>14, <2>17, <2>18 DEF q, b
<1>2. [](TextOK => DotsKept)
  BY <1>1, PTL
<1> QED
  BY <1>2, TextAlwaysOK, PTL

-----------------------------------------------------------------------------
(* Quoted-printable: decodeQuotedPrintable, one byte after the other. *)
QpState == [out : Seq(Int), skip : 0 .. 2]
QpBegin == [out |-> <<>>, skip |-> 0]

(* The states of the loop over s. *)
Decoding(h, s) ==
  /\ h \in [0 .. Len(s) -> QpState]
  /\ h[0] = QpBegin
  /\ \A k \in 1 .. Len(s) : h[k] = QpStep(s, h[k - 1], k)
  /\ decodeQuotedPrintable(s) = h[Len(s)].out

(* A step writes bytes, and leaves out at most two. *)
LEMMA QpStepTyped ==
  ASSUME NEW s \in Seq(Int), NEW a \in QpState, NEW i \in 1 .. Len(s)
  PROVE  QpStep(s, a, i) \in QpState
<1>0. Len(s) \in Nat /\ i \in Nat /\ \A k \in 1 .. Len(s) : s[k] \in Int
  OBVIOUS
<1>1. a.out \in Seq(Int) /\ a.skip \in 0 .. 2 /\ a = [out |-> a.out, skip |-> a.skip]
  BY DEF QpState
<1>2. CASE a.skip > 0
  <2>1. QpStep(s, a, i) = [out |-> a.out, skip |-> a.skip - 1]
    BY <1>0, <1>1, <1>2 DEF QpStep
  <2>2. a.skip - 1 \in 0 .. 2
    BY <1>1, <1>2
  <2> QED
    BY <1>1, <2>1, <2>2 DEF QpState
<1>3. CASE ~(a.skip > 0) /\ s[i] # Equals
  <2>1. QpStep(s, a, i) = [out |-> Append(a.out, s[i]), skip |-> 0]
    BY <1>0, <1>1, <1>3 DEF QpStep
  <2>2. Append(a.out, s[i]) \in Seq(Int)
    BY <1>0, <1>1
  <2> QED
    BY <1>1, <2>1, <2>2 DEF QpState
<1>4. CASE ~(a.skip > 0) /\ s[i] = Equals /\ (NoMore(s, i) \/ s[i + 1] = LF)
  <2>1. QpStep(s, a, i) = [out |-> a.out, skip |-> 1]
    BY <1>0, <1>1, <1>4 DEF QpStep
  <2> QED
    BY <1>1, <2>1 DEF QpState
<1>5. CASE ~(a.skip > 0) /\ s[i] = Equals /\ ~NoMore(s, i) /\ s[i + 1] # LF
  <2>1. i + 2 <= Len(s)
    BY <1>0, <1>5 DEF NoMore
  <2> DEFINE x == 16 * Hex(s[i + 1]) + Hex(s[i + 2])
             c == IF x = TAB THEN Space ELSE x
  <2>2. CASE {s[i + 1], s[i + 2]} \subseteq HexDigit
    <3>1. QpStep(s, a, i) =
            [out  |-> IF c = LF \/ (c >= 32 /\ c # 127) THEN Append(a.out, c) ELSE a.out,
             skip |-> 2]
      BY <1>0, <1>1, <1>5, <2>2 DEF QpStep
    <3>2. c \in Int
      <4>1. s[i + 1] \in Int /\ s[i + 2] \in Int
        BY <1>0, <2>1
      <4>2. \A z \in Int : Hex(z) \in Int
        BY DEF Hex
      <4>3. Hex(s[i + 1]) \in Int /\ Hex(s[i + 2]) \in Int
        BY <4>1, <4>2
      <4>4. x \in Int
        BY <4>3
      <4> HIDE DEF x
      <4> QED
        BY <4>4 DEF Space
    <3> HIDE DEF c
    <3>3. (IF c = LF \/ (c >= 32 /\ c # 127) THEN Append(a.out, c) ELSE a.out) \in Seq(Int)
      BY <1>1, <3>2
    <3> QED
      BY <3>1, <3>3 DEF QpState
  <2>3. CASE ~({s[i + 1], s[i + 2]} \subseteq HexDigit)
    <3> DEFINE d == SubSeq(s, i, i + 2)
    <3>1. QpStep(s, a, i) = [out |-> a.out \o d, skip |-> 2]
      BY <1>0, <1>1, <1>5, <2>3 DEF QpStep
    <3>2. d \in Seq(Int)
      <4>1. \A k \in i .. i + 2 : s[k] \in Int
        BY <1>0, <2>1
      <4> QED
        BY <1>0, <4>1, SubSeqProperties
    <3> HIDE DEF d
    <3>3. a.out \o d \in Seq(Int)
      BY <1>1, <3>2
    <3> QED
      BY <3>1, <3>3 DEF QpState
  <2> QED
    BY <2>2, <2>3
<1> QED
  BY <1>2, <1>3, <1>4, <1>5

(* The fold of the model is that loop. *)
LEMMA DecodeInOrder ==
  ASSUME NEW s \in Seq(Int)
  PROVE  \E h : Decoding(h, s)
<1> DEFINE len == Len(s)
           S == QpState
           F == [p \in S \X (1 .. len) |-> QpStep(s, p[1], p[2])]
           index == [i \in DOMAIN s |-> i]
<1>1. /\ len \in Nat /\ DOMAIN s = 1 .. len
      /\ DOMAIN index = 1 .. len /\ \A i \in 1 .. len : index[i] = i
  OBVIOUS
<1>2. \A a \in S, k \in 1 .. len : QpStep(s, a, k) \in S
  BY QpStepTyped
<1>3. QpBegin \in S
  BY DEF QpState, QpBegin
<1> HIDE DEF S, len
<1>4. F \in [S \X (1 .. len) -> S]
  BY <1>2
<1>5. \A a \in S, k \in 1 .. len : F[<<a, k>>] = QpStep(s, a, k)
  OBVIOUS
<1> HIDE DEF F
<1>6. PICK g : IsFold(g, S, F, QpBegin, len)
  BY <1>1, <1>3, <1>4, FoldExists
<1> DEFINE f == CHOOSE f : f = [x \in SUBSET (DOMAIN index) |->
                  IF x = {} THEN QpBegin ELSE QpStep(s, f[x \ {Max(x)}], index[Max(x)])]
<1>7. g = [x \in SUBSET (DOMAIN index) |->
             IF x = {} THEN QpBegin ELSE QpStep(s, g[x \ {Max(x)}], index[Max(x)])]
  <2> HIDE DEF index
  <2>1. ASSUME NEW x \in SUBSET (1 .. len), x # {}
        PROVE  g[x] = QpStep(s, g[x \ {Max(x)}], index[Max(x)])
    <3>1. Max(x) \in 1 .. len /\ x \ {Max(x)} \in SUBSET (1 .. len)
      BY <1>1, <2>1, MaxOfRange
    <3>2. g[x] = F[<<g[x \ {Max(x)}], Max(x)>>] /\ g[x \ {Max(x)}] \in S
      BY <1>6, <2>1, <3>1 DEF IsFold
    <3> QED
      BY <1>1, <1>5, <3>1, <3>2
  <2>2. g = [x \in SUBSET (1 .. len) |-> g[x]] /\ g[{}] = QpBegin
    BY <1>6 DEF IsFold
  <2> QED
    BY <1>1, <2>1, <2>2
<1>8. f = [x \in SUBSET (DOMAIN index) |->
             IF x = {} THEN QpBegin ELSE QpStep(s, f[x \ {Max(x)}], index[Max(x)])]
  <2> HIDE DEF index
  <2> QED
    BY <1>7
<1>9. decodeQuotedPrintable(s) = f[DOMAIN index].out
  BY DEF decodeQuotedPrintable, FoldLeft, MapThenFoldSet, QpBegin
<1> HIDE DEF f, index
<1>10. Folds(f, S, F, QpBegin, len)
  <2>1. f[{}] = QpBegin
    BY <1>8
  <2>2. ASSUME NEW k \in 1 .. len, f[1 .. (k - 1)] \in S
        PROVE  f[1 .. k] = F[<<f[1 .. (k - 1)], k>>]
    <3>1. k \in Nat \ {0} /\ 1 .. k # {} /\ 1 .. k \in SUBSET (DOMAIN index)
      <4>1. k \in Nat \ {0} /\ 1 \in 1 .. k
        BY <1>1
      <4>2. \A j \in 1 .. k : j \in 1 .. len
        BY <1>1
      <4> QED
        BY <1>1, <4>1, <4>2
    <3>2. Max(1 .. k) = k /\ (1 .. k) \ {k} = 1 .. (k - 1)
      BY <3>1, InitialNumbers
    <3>3. f[1 .. k] = QpStep(s, f[1 .. (k - 1)], index[k])
      BY <1>8, <3>1, <3>2
    <3> QED
      BY <1>1, <1>5, <2>2, <3>3
  <2> QED
    BY <2>1, <2>2 DEF Folds
<1>11. PICK h : Iterates(h, f, S, F, QpBegin, len)
  BY <1>1, <1>3, <1>4, <1>10, FoldInOrder
<1>12. h[0] = QpBegin /\ h \in [0 .. len -> S] /\ f[1 .. len] = h[len]
  BY <1>11 DEF Iterates
<1>13. ASSUME NEW k \in 1 .. len PROVE h[k] = QpStep(s, h[k - 1], k)
  <2>1. k - 1 \in 0 .. len
    BY <1>1
  <2>2. h[k - 1] \in S
    BY <1>12, <2>1
  <2>3. h[k] = F[<<h[k - 1], k>>]
    BY <1>11 DEF Iterates
  <2> QED
    BY <1>5, <2>2, <2>3
<1>14. Decoding(h, s)
  BY <1>1, <1>9, <1>12, <1>13 DEF len, S, Decoding
<1> QED
  BY <1>14

(* A piece stands behind the first i bytes; after k bytes, out is written    *)
(* and nothing is left out of those that follow.                           *)
Follows(q, s, i) ==
  i + Len(q) <= Len(s) /\ \A k \in 1 .. Len(q) : s[i + k] = q[k]

Written(h, k, out) == h[k] = [out |-> out, skip |-> 0]

(* After a piece, what it stands for has been written, and no byte of the   *)
(* next one has been looked at.                                            *)
LEMMA PieceDecoded ==
  ASSUME NEW s \in Seq(Int), NEW h, Decoding(h, s), NEW q \in Seq(Int), QuotedPiece(q),
         NEW i \in 0 .. Len(s), Follows(q, s, i),
         NEW out \in Seq(Int), Written(h, i, out)
  PROVE  Written(h, i + Len(q), out \o Stands(q))
<1> USE DEF Written
<1>1. /\ Len(s) \in Nat /\ i \in Nat /\ i + Len(q) <= Len(s)
      /\ \A k \in 1 .. Len(q) : s[i + k] = q[k]
      /\ \A k \in 1 .. Len(s) : h[k] = QpStep(s, h[k - 1], k)
  BY SMTT(40) DEF Decoding, Follows
<1>2. ASSUME NEW c \in (0 .. 255) \ {Equals}, q = <<c>>
      PROVE  Written(h, i + Len(q), out \o Stands(q))
  <2>1. Len(q) = 1 /\ i + 1 \in 1 .. Len(s) /\ (i + 1) - 1 = i /\ s[i + 1] = c
    BY <1>1, <1>2
  <2>2. h[i + 1] = QpStep(s, [out |-> out, skip |-> 0], i + 1)
    BY <1>1, <2>1
  <2>3. h[i + 1] = [out |-> Append(out, c), skip |-> 0]
    BY <2>1, <2>2 DEF QpStep
  <2>4. Stands(q) = <<c>> /\ out \o <<c>> = Append(out, c) /\ <<c>> \in Seq(Int)
    BY <1>2, <2>1 DEF Stands
  <2> QED
    BY <2>1, <2>3, <2>4
<1>3. ASSUME q = <<Equals, LF>>
      PROVE  Written(h, i + Len(q), out \o Stands(q))
  <2>1. /\ Len(q) = 2 /\ i + 1 \in 1 .. Len(s) /\ i + 2 \in 1 .. Len(s)
        /\ (i + 1) - 1 = i /\ (i + 2) - 1 = i + 1 /\ (i + 1) + 1 = i + 2
        /\ s[i + 1] = Equals /\ s[i + 2] = LF
    <3>1. Len(q) = 2 /\ q[1] = Equals /\ q[2] = LF
      BY <1>3
    <3> QED
      BY <1>1, <3>1
  <2>2. h[i + 1] = QpStep(s, [out |-> out, skip |-> 0], i + 1)
    BY <1>1, <2>1
  <2>3. h[i + 1] = [out |-> out, skip |-> 1]
    BY <2>1, <2>2, SMTT(40) DEF QpStep
  <2>4. h[i + 2] = QpStep(s, [out |-> out, skip |-> 1], i + 2)
    BY <1>1, <2>1, <2>3
  <2>5. h[i + 2] = [out |-> out, skip |-> 0]
    BY <2>1, <2>4 DEF QpStep
  <2>6. Stands(q) = <<>> /\ out \o <<>> = out
    BY <1>3, <2>1 DEF Stands
  <2> QED
    BY <2>1, <2>5, <2>6
<1>4. ASSUME NEW a \in HexDigit, NEW b \in HexDigit, q = <<Equals, a, b>>,
             16 * Hex(a) + Hex(b) \in {LF} \cup ((32 .. 255) \ {127})
      PROVE  Written(h, i + Len(q), out \o Stands(q))
  <2> DEFINE x == 16 * Hex(a) + Hex(b)
             c == IF x = TAB THEN Space ELSE x
  <2>1. /\ Len(q) = 3 /\ i + 1 \in 1 .. Len(s) /\ i + 2 \in 1 .. Len(s) /\ i + 3 \in 1 .. Len(s)
        /\ (i + 1) - 1 = i /\ (i + 2) - 1 = i + 1 /\ (i + 1) + 1 = i + 2
        /\ (i + 3) - 1 = i + 2 /\ (i + 1) + 2 = i + 3
        /\ s[i + 1] = Equals /\ s[i + 2] = a /\ s[i + 3] = b
    <3>1. Len(q) = 3 /\ q[1] = Equals /\ q[2] = a /\ q[3] = b
      BY <1>4
    <3>2. 1 \in 1 .. Len(q) /\ 2 \in 1 .. Len(q) /\ 3 \in 1 .. Len(q)
      BY <3>1
    <3>3. s[i + 1] = q[1] /\ s[i + 2] = q[2] /\ s[i + 3] = q[3]
      BY <1>1, <3>2
    <3>4. i \in Nat /\ Len(s) \in Nat /\ i + 3 <= Len(s)
      BY <1>1, <3>1
    <3>5. /\ i + 1 \in 1 .. Len(s) /\ i + 2 \in 1 .. Len(s) /\ i + 3 \in 1 .. Len(s)
          /\ (i + 1) - 1 = i /\ (i + 2) - 1 = i + 1 /\ (i + 1) + 1 = i + 2
          /\ (i + 3) - 1 = i + 2 /\ (i + 1) + 2 = i + 3
      <4> DEFINE m == Len(s)
      <4>1. i \in Nat /\ m \in Nat /\ i + 3 <= m
        BY <3>4
      <4> HIDE DEF m
      <4>2. i + 1 \in 1 .. m /\ i + 2 \in 1 .. m /\ i + 3 \in 1 .. m
        BY <4>1
      <4>3. /\ (i + 1) - 1 = i /\ (i + 2) - 1 = i + 1 /\ (i + 1) + 1 = i + 2
            /\ (i + 3) - 1 = i + 2 /\ (i + 1) + 2 = i + 3
        BY <4>1
      <4> QED
        BY <4>2, <4>3 DEF m
    <3> QED
      BY <3>1, <3>3, <3>5
  <2>2. c = x /\ (c = LF \/ (c >= 32 /\ c # 127)) /\ c \in Int
    <3>1. x \in {LF} \cup ((32 .. 255) \ {127})
      BY <1>4
    <3> HIDE DEF x
    <3>2. x \in Int /\ x # TAB /\ (x = LF \/ (x >= 32 /\ x # 127))
      BY <3>1 DEF LF, TAB
    <3>3. c = x
      BY <3>2
    <3> HIDE DEF c
    <3> QED
      BY <3>2, <3>3
  <2>3. ~NoMore(s, i + 1) /\ s[(i + 1) + 1] # LF /\ {s[(i + 1) + 1], s[(i + 1) + 2]} \subseteq HexDigit
    <3>1. a # LF
      BY DEF HexDigit, LF
    <3>2. ~NoMore(s, i + 1)
      BY <1>1, <2>1 DEF NoMore
    <3>3. (i + 1) + 1 = i + 2 /\ (i + 1) + 2 = i + 3
      BY <1>1
    <3> QED
      BY <2>1, <3>1, <3>2, <3>3
  <2>4. h[i + 1] = QpStep(s, [out |-> out, skip |-> 0], i + 1)
    BY <1>1, <2>1
  <2>5. h[i + 1] = [out |-> Append(out, c), skip |-> 2]
    <3> DEFINE y == 16 * Hex(s[(i + 1) + 1]) + Hex(s[(i + 1) + 2])
               e == IF y = TAB THEN Space ELSE y
    <3>1. y = x
      BY <2>1
    <3>2. QpStep(s, [out |-> out, skip |-> 0], i + 1) =
            [out |-> IF e = LF \/ (e >= 32 /\ e # 127) THEN Append(out, e) ELSE out, skip |-> 2]
      <4> DEFINE r == [out |-> out, skip |-> 0]
      <4>1. r.out = out /\ ~(r.skip > 0)
        OBVIOUS
      <4> HIDE DEF r
      <4>2. QpStep(s, r, i + 1) =
              [out |-> IF e = LF \/ (e >= 32 /\ e # 127) THEN Append(r.out, e) ELSE r.out, skip |-> 2]
        BY <2>1, <2>3, <4>1 DEF QpStep
      <4> QED
        BY <4>1, <4>2 DEF r
    <3> HIDE DEF x, y
    <3>3. e = c
      BY <3>1
    <3> HIDE DEF c, e
    <3> QED
      BY <2>2, <2>4, <3>2, <3>3
  <2> HIDE DEF c
  <2>6. h[i + 2] = [out |-> Append(out, c), skip |-> 1]
    <3>1. h[i + 2] = QpStep(s, [out |-> Append(out, c), skip |-> 2], i + 2)
      BY <1>1, <2>1, <2>5
    <3> QED
      BY <3>1 DEF QpStep
  <2>7. h[i + 3] = [out |-> Append(out, c), skip |-> 0]
    <3>1. h[i + 3] = QpStep(s, [out |-> Append(out, c), skip |-> 1], i + 3)
      BY <1>1, <2>1, <2>6
    <3> QED
      BY <3>1 DEF QpStep
  <2>8. Stands(q) = <<x>>
    BY <1>4, <2>1 DEF Stands
  <2> HIDE DEF x
  <2>9. out \o <<c>> = Append(out, c) /\ <<c>> \in Seq(Int)
    BY <2>2
  <2> QED
    BY <2>1, <2>2, <2>7, <2>8, <2>9
<1> QED
  BY <1>2, <1>3, <1>4 DEF QuotedPiece

(* A piece and what it stands for are bytes. *)
LEMMA PieceTyped ==
  ASSUME NEW q, QuotedPiece(q)
  PROVE  q \in Seq(Int) /\ Stands(q) \in Seq(Int)
<1>1. ASSUME NEW c \in (0 .. 255) \ {Equals}, q = <<c>>
      PROVE  q \in Seq(Int) /\ Stands(q) \in Seq(Int)
  <2>1. <<c>> \in Seq(Int) /\ Len(q) = 1
    BY <1>1
  <2> QED
    BY <1>1, <2>1 DEF Stands
<1>2. ASSUME q = <<Equals, LF>>
      PROVE  q \in Seq(Int) /\ Stands(q) \in Seq(Int)
  <2>1. <<Equals, LF>> \in Seq(Int) /\ Len(q) = 2 /\ <<>> \in Seq(Int)
    BY <1>2 DEF Equals, LF
  <2> QED
    BY <1>2, <2>1 DEF Stands
<1>3. ASSUME NEW a \in HexDigit, NEW b \in HexDigit, q = <<Equals, a, b>>,
             16 * Hex(a) + Hex(b) \in {LF} \cup ((32 .. 255) \ {127})
      PROVE  q \in Seq(Int) /\ Stands(q) \in Seq(Int)
  <2>1. a \in Int /\ b \in Int /\ Equals \in Int
    BY DEF HexDigit, Equals
  <2>2. <<Equals, a, b>> \in Seq(Int) /\ Len(q) = 3 /\ q[2] = a /\ q[3] = b
    BY <1>3, <2>1
  <2> DEFINE x == 16 * Hex(a) + Hex(b)
  <2>3. Stands(q) = <<x>>
    BY <2>2 DEF Stands
  <2>4. x \in Int
    BY <1>3 DEF LF
  <2> HIDE DEF x
  <2>5. <<x>> \in Seq(Int)
    BY <2>4
  <2> QED
    BY <1>3, <2>2, <2>3, <2>5
<1> QED
  BY <1>1, <1>2, <1>3 DEF QuotedPiece

(* What is put together from pieces begins with what is put together from   *)
(* the first of them.                                                      *)
LEMMA JoinsPrefix ==
  ASSUME NEW C, NEW t \in Seq(Seq(C)), NEW g, Joins(g, t, C), NEW k \in 0 .. Len(t)
  PROVE  /\ g[k] \in Seq(C) /\ Len(g[k]) <= Len(FlattenSeq(t))
         /\ \A j \in 1 .. Len(g[k]) : FlattenSeq(t)[j] = g[k][j]
<1> DEFINE len == Len(t)
           Begins(x, y) == Len(x) <= Len(y) /\ \A j \in 1 .. Len(x) : y[j] = x[j]
           T == {m \in 0 .. len : k <= m => Begins(g[k], g[m])}
<1>1. len \in Nat /\ \A m \in 0 .. len : g[m] \in Seq(C)
  <2>1. g \in [0 .. len -> Seq(C)]
    BY Joins(g, t, C) DEF Joins
  <2>2. len \in Nat
    OBVIOUS
  <2> HIDE DEF len
  <2> QED
    BY <2>1, <2>2
<1>2. 0 \in T
  <2>1. k <= 0 => k = 0
    BY <1>1
  <2>2. g[0] \in Seq(C) /\ Len(g[0]) \in Nat
    BY <1>1
  <2>3. Begins(g[0], g[0])
    BY <2>2
  <2> QED
    BY <1>1, <2>1, <2>3
<1>3. ASSUME NEW m \in 1 .. len, m - 1 \in T PROVE m \in T
  <2>1. g[m] = g[m - 1] \o t[m] /\ t[m] \in Seq(C)
    <3>1. \A j \in 1 .. Len(t) : g[j] = g[j - 1] \o t[j]
      BY Joins(g, t, C) DEF Joins
    <3>2. t[m] \in Seq(C)
      BY t \in Seq(Seq(C))
    <3>3. g[m] = g[m - 1] \o t[m]
      <4> HIDE DEF T
      <4> QED
        BY <3>1, Zenon
    <3> QED
      BY <3>2, <3>3
  <2>2. /\ m - 1 \in 0 .. len /\ m \in 0 .. len
        /\ g[m - 1] \in Seq(C) /\ g[m] \in Seq(C) /\ g[k] \in Seq(C)
    BY <1>1
  <2>3. Begins(g[m - 1], g[m])
    <3> DEFINE x == g[m - 1]
               y == t[m]
    <3>1. x \in Seq(C) /\ y \in Seq(C) /\ Len(x) \in Nat /\ Len(y) \in Nat /\ g[m] = x \o y
      BY <2>1, <2>2
    <3> HIDE DEF x, y
    <3>2. /\ Len(x \o y) = Len(x) + Len(y)
          /\ \A j \in 1 .. Len(x) + Len(y) : (x \o y)[j] = IF j <= Len(x) THEN x[j] ELSE y[j - Len(x)]
      BY <3>1, ConcatProperties
    <3>3. Begins(x, x \o y)
      BY <3>1, <3>2
    <3> HIDE DEF Begins
    <3> QED
      BY <3>1, <3>3 DEF x
  <2>4. CASE k = m
    <3>1. Begins(g[m], g[m])
      <4>1. Len(g[m]) \in Nat
        BY <2>2
      <4> QED
        BY <4>1
    <3> HIDE DEF Begins
    <3> QED
      BY <2>2, <2>4, <3>1
  <2>5. CASE k <= m - 1
    <3>1. Begins(g[k], g[m - 1])
      BY <2>5, <1>3
    <3>2. Len(g[k]) \in Nat /\ Len(g[m - 1]) \in Nat /\ Len(g[m]) \in Nat
      BY <2>2
    <3>3. Begins(g[k], g[m])
      BY <2>3, <3>1, <3>2, SMTT(40)
    <3> HIDE DEF Begins
    <3> QED
      BY <2>2, <3>3
  <2>6. CASE ~(k <= m)
    BY <2>2, <2>6
  <2> QED
    BY <1>1, <2>4, <2>5, <2>6
<1>4. len \in T
  <2> HIDE DEF T, len
  <2>1. \A m \in 0 .. len : m \in T
    BY <1>1, <1>2, <1>3, NumbersReached
  <2> QED
    BY <1>1, <2>1
<1>5. Begins(g[k], g[len])
  BY <1>4
<1>6. FlattenSeq(t) = g[len]
  BY Joins(g, t, C) DEF Joins
<1> HIDE DEF len
<1> QED
  BY <1>1, <1>5, <1>6 DEF len

(* decodeQuotedPrintable: a text of any length that is put together from    *)
(* bytes, encoded bytes and soft line breaks is decoded to what was        *)
(* encoded, up to its last byte.                                           *)
THEOREM QuotedAlwaysDecoded == TextsSpec => []QuotedDecoded
<1>1. ASSUME TextOK PROVE QuotedDecoded
  <2> SUFFICES ASSUME kind = "quoted" PROVE QuotedDecoded
    BY DEF QuotedDecoded
  <2> DEFINE s  == FlattenSeq(text)
             st == [k \in DOMAIN text |-> Stands(text[k])]
             len == Len(text)
  <2>1. /\ len \in Nat /\ DOMAIN text = 1 .. len
        /\ \A k \in 1 .. len : QuotedPiece(text[k])
    <3>1. text \in Seq(Items["quoted"])
      BY <1>1 DEF TextOK, Encoded
    <3>2. \A p \in Items["quoted"] : QuotedPiece(p)
      BY TextsAssumption
    <3> QED
      BY <3>1, <3>2
  <2>2. text \in Seq(Seq(Int))
    <3>1. text \in Seq(Items["quoted"])
      BY <1>1 DEF TextOK, Encoded
    <3>2. Items["quoted"] \subseteq Seq(Int)
      BY PieceTyped, TextsAssumption
    <3> QED
      BY <3>1, <3>2, SeqMonotonic
  <2>3. st \in Seq(Seq(Int)) /\ Len(st) = len /\ \A k \in 1 .. len : st[k] = Stands(text[k])
    <3>1. \A k \in DOMAIN text : st[k] \in Seq(Int) /\ st[k] = Stands(text[k])
      BY <2>1, PieceTyped
    <3>2. st = [k \in DOMAIN text |-> st[k]]
      OBVIOUS
    <3> HIDE DEF st
    <3> QED
      BY <2>1, <3>1, <3>2
  <2> HIDE DEF st
  <2>4. PICK g : Joins(g, text, Int)
    BY <2>2, FlatInOrder
  <2>5. PICK e : Joins(e, st, Int)
    BY <2>3, FlatInOrder
  <2>6. /\ s \in Seq(Int) /\ Len(s) \in Nat /\ g[0] = <<>> /\ s = g[len]
        /\ \A k \in 0 .. len : g[k] \in Seq(Int) /\ Len(g[k]) \in Nat
    <3>1. g \in [0 .. len -> Seq(Int)] /\ g[0] = <<>> /\ s = g[len]
      BY <2>4 DEF Joins
    <3> HIDE DEF s, len
    <3> QED
      BY <2>1, <3>1
  <2>7. /\ e[0] = <<>> /\ FlattenSeq(st) = e[len]
        /\ \A k \in 0 .. len : e[k] \in Seq(Int)
    <3>1. e \in [0 .. Len(st) -> Seq(Int)] /\ e[0] = <<>> /\ FlattenSeq(st) = e[Len(st)]
      BY <2>5 DEF Joins
    <3> HIDE DEF len
    <3> QED
      BY <2>3, <3>1
  <2>8. \A k \in 1 .. len : g[k] = g[k - 1] \o text[k] /\ e[k] = e[k - 1] \o st[k]
    <3>1. \A k \in 1 .. len : g[k] = g[k - 1] \o text[k]
      BY <2>4 DEF Joins
    <3>2. \A k \in 1 .. Len(st) : e[k] = e[k - 1] \o st[k]
      BY <2>5 DEF Joins
    <3> HIDE DEF len
    <3>3. \A k \in 1 .. len : e[k] = e[k - 1] \o st[k]
      BY <2>3, <3>2
    <3> QED
      BY <3>1, <3>3, Zenon
  <2>9. \A k \in 0 .. len : /\ Len(g[k]) <= Len(s)
                            /\ \A j \in 1 .. Len(g[k]) : s[j] = g[k][j]
    BY <2>2, <2>4, JoinsPrefix
  <2> HIDE DEF s, len
  <2>10. PICK h : Decoding(h, s)
    BY <2>6, DecodeInOrder
  <2> DEFINE T == {k \in 0 .. len : Written(h, Len(g[k]), e[k])}
  <2>11. 0 \in T
    <3>1. h[0] = [out |-> <<>>, skip |-> 0] /\ Len(<<>>) = 0 /\ 0 \in 0 .. len
      BY <2>1, <2>10 DEF Decoding, QpBegin
    <3> QED
      BY <2>6, <2>7, <3>1 DEF Written
  <2>12. ASSUME NEW k \in 1 .. len, k - 1 \in T PROVE k \in T
    <3> DEFINE i == Len(g[k - 1])
               q == text[k]
               w == g[k - 1]
    <3>1. k - 1 \in 0 .. len /\ k \in 0 .. len
      BY <2>1
    <3>2. /\ q \in Seq(Int) /\ Len(q) \in Nat /\ QuotedPiece(q)
          /\ w \in Seq(Int) /\ i \in Nat /\ e[k - 1] \in Seq(Int)
          /\ g[k] = w \o q /\ e[k] = e[k - 1] \o Stands(q)
      <4>1. QuotedPiece(q)
        BY <2>1
      <4>2. q \in Seq(Int) /\ Len(q) \in Nat
        <5> HIDE DEF q
        <5> QED
          BY <4>1, PieceTyped
      <4>3. w \in Seq(Int) /\ i \in Nat /\ e[k - 1] \in Seq(Int)
        BY <2>6, <2>7, <3>1
      <4>4. g[k] = w \o q
        <5> HIDE DEF T
        <5> QED
          BY <2>8, Zenon
      <4>5. e[k] = e[k - 1] \o st[k] /\ st[k] = Stands(q)
        <5> HIDE DEF T
        <5> QED
          BY <2>3, <2>8, Zenon
      <4> QED
        BY <4>1, <4>2, <4>3, <4>4, <4>5, Zenon
    <3>3. Written(h, i, e[k - 1])
      BY <2>12
    <3>4. /\ Len(g[k]) = i + Len(q)
          /\ \A j \in 1 .. i + Len(q) : g[k][j] = IF j <= i THEN w[j] ELSE q[j - i]
      <4> HIDE DEF q, T
      <4>1. /\ Len(w \o q) = Len(w) + Len(q)
            /\ \A j \in 1 .. Len(w) + Len(q) : (w \o q)[j] = IF j <= Len(w) THEN w[j] ELSE q[j - Len(w)]
        <5> HIDE DEF w
        <5> QED
          BY <3>2, ConcatProperties
      <4> QED
        BY <3>2, <4>1
    <3> HIDE DEF i, q, w, T
    <3>5. i + Len(q) <= Len(s) /\ i \in 0 .. Len(s)
      BY <2>6, <2>9, <3>1, <3>2, <3>4
    <3>6. ASSUME NEW j \in 1 .. Len(q) PROVE s[i + j] = q[j]
      <4>1. i + j \in 1 .. i + Len(q) /\ ~(i + j <= i) /\ (i + j) - i = j
        BY <3>2
      <4>2. s[i + j] = g[k][i + j]
        BY <2>9, <3>1, <3>4, <4>1
      <4> QED
        BY <3>4, <4>1, <4>2
    <3>7. Written(h, i + Len(q), e[k - 1] \o Stands(q))
      <4>1. Follows(q, s, i)
        BY <3>5, <3>6 DEF Follows
      <4>2. Decoding(h, s)
        BY <2>10
      <4> QED
        BY <2>6, <3>2, <3>3, <3>5, <4>1, <4>2, PieceDecoded
    <3> QED
      BY <3>1, <3>2, <3>4, <3>7 DEF T
  <2>13. len \in T
    <3> HIDE DEF T
    <3>1. \A k \in 0 .. len : k \in T
      BY <2>1, <2>11, <2>12, NumbersReached
    <3> QED
      BY <2>1, <3>1
  <2>14. decodeQuotedPrintable(s) = e[len]
    <3>1. h[Len(g[len])] = [out |-> e[len], skip |-> 0]
      BY <2>13 DEF Written
    <3>2. decodeQuotedPrintable(s) = h[Len(s)].out
      BY <2>10 DEF Decoding
    <3> QED
      BY <2>6, <3>1, <3>2
  <2>15. decodeQuotedPrintable(FlattenSeq(text)) = FlattenSeq(st)
    BY <2>7, <2>14 DEF s
  <2> QED
    BY <2>15 DEF QuotedDecoded, Flat, st
<1>2. [](TextOK => QuotedDecoded)
  BY <1>1, PTL
<1> QED
  BY <1>2, TextAlwaysOK, PTL

-----------------------------------------------------------------------------
(* Addresses are sequences of characters. *)
AddressOK == OfAddress => text \in Seq(STRING)

LEMMA AddressAlwaysOK == TextsSpec => []AddressOK
<1>1. TextsInit => AddressOK
  BY TextsAssumption DEF TextsInit, AddressOK, OfAddress
<1>2. AddressOK /\ [TextsNext]_textsVars => AddressOK'
  <2> SUFFICES ASSUME AddressOK, [TextsNext]_textsVars, OfAddress'
               PROVE  text' \in Seq(STRING)
    BY DEF AddressOK
  <2>1. kind' = kind /\ text \in Seq(STRING) /\ kind \in {"address", "long"}
    BY DEF TextsNext, textsVars, AddressOK, OfAddress
  <2>2. CASE UNCHANGED text
    BY <2>1, <2>2
  <2>3. ASSUME NEW c \in Items[kind], text' = Append(text, c)
        PROVE  text' \in Seq(STRING)
    <3>1. c \in STRING
      BY <2>1, <2>3, TextsAssumption
    <3> QED
      BY <2>1, <2>3, <3>1
  <2> QED
    BY <2>1, <2>2, <2>3 DEF TextsNext, textsVars
<1> QED
  BY <1>1, <1>2, PTL DEF TextsSpec

(* The values of five bits, and the characters that have one. *)
Quintet == 0 .. 31
Character == {c \in STRING : charToAddr32(c) # Unsupported}

LEMMA CharacterTyped ==
  ASSUME NEW c, charToAddr32(c) # Unsupported PROVE charToAddr32(c) \in Quintet
<1>1. DOMAIN Alike = 1 .. 32
  BY DEF Alike
<1>2. \E v \in DOMAIN Alike : c \in Alike[v]
  BY DEF charToAddr32
<1> DEFINE w == CHOOSE v \in DOMAIN Alike : c \in Alike[v]
<1>3. w \in DOMAIN Alike
  BY <1>2
<1>4. charToAddr32(c) = w - 1
  BY <1>2 DEF charToAddr32
<1> HIDE DEF w
<1> QED
  BY <1>1, <1>3, <1>4 DEF Quintet

LEMMA SupportedTyped ==
  ASSUME NEW s \in Seq(STRING)
  PROVE  Supported(s) \in Seq(Character)
<1> DEFINE t == [i \in DOMAIN s |-> IF charToAddr32(s[i]) = Unsupported THEN <<>> ELSE <<s[i]>>]
<1>1. Len(s) \in Nat /\ DOMAIN s = 1 .. Len(s) /\ \A i \in DOMAIN s : s[i] \in STRING
  OBVIOUS
<1>2. ASSUME NEW i \in DOMAIN s PROVE t[i] \in Seq(Character)
  <2>1. t[i] = IF charToAddr32(s[i]) = Unsupported THEN <<>> ELSE <<s[i]>>
    OBVIOUS
  <2> HIDE DEF t
  <2>2. CASE charToAddr32(s[i]) = Unsupported
    <3>1. t[i] = <<>>
      BY <2>1, <2>2
    <3> QED
      BY <3>1
  <2>3. CASE charToAddr32(s[i]) # Unsupported
    <3>1. t[i] = <<s[i]>> /\ s[i] \in Character
      BY <1>1, <2>1, <2>3 DEF Character
    <3> QED
      BY <3>1
  <2> QED
    BY <2>2, <2>3
<1>3. t = [i \in DOMAIN s |-> t[i]]
  OBVIOUS
<1>4. Supported(s) = FlattenSeq(t)
  BY DEF Supported
<1> HIDE DEF t
<1>5. t \in Seq(Seq(Character)) /\ Len(t) \in Nat
  BY <1>1, <1>2, <1>3
<1>6. PICK h : Joins(h, t, Character)
  BY <1>5, FlatInOrder
<1>7. Len(t) \in 0 .. Len(t)
  BY <1>5
<1> QED
  BY <1>4, <1>6, <1>7 DEF Joins

(* Reading bits: from the first of them on, each one doubles what is read.  *)
Digit(bits, p) == IF p \in bits THEN 1 ELSE 0

Reads(h, bits, first, k) ==
  /\ h \in [0 .. k -> Nat]
  /\ h[0] = 0
  /\ \A j \in 1 .. k : h[j] = 2 * h[j - 1] + Digit(bits, first + j - 1)
  /\ Value(bits, first, k) = h[k]

LEMMA ReadBitByBit ==
  ASSUME NEW bits, NEW first \in Nat, NEW len \in Nat
  PROVE  \E h : Reads(h, bits, first, len)
<1> DEFINE S == Nat
           G(a, p) == 2 * a + Digit(bits, p)
           F == [x \in S \X (1 .. len) |-> G(x[1], first + x[2] - 1)]
           place == [i \in 1 .. len |-> first + i - 1]
<1>1. DOMAIN place = 1 .. len /\ \A i \in 1 .. len : place[i] = first + i - 1
  OBVIOUS
<1>2. \A a \in S : \A p : G(a, p) \in S
  BY DEF Digit
<1>3. 0 \in S
  OBVIOUS
<1> HIDE DEF S, G
<1>4. F \in [S \X (1 .. len) -> S]
  BY <1>2
<1>5. \A a \in S, k \in 1 .. len : F[<<a, k>>] = G(a, first + k - 1)
  OBVIOUS
<1> HIDE DEF F
<1>6. PICK g : IsFold(g, S, F, 0, len)
  BY <1>3, <1>4, FoldExists
<1> DEFINE f == CHOOSE f : f = [x \in SUBSET (DOMAIN place) |->
                  IF x = {} THEN 0 ELSE G(f[x \ {Max(x)}], place[Max(x)])]
<1>7. g = [x \in SUBSET (DOMAIN place) |->
             IF x = {} THEN 0 ELSE G(g[x \ {Max(x)}], place[Max(x)])]
  <2> HIDE DEF place
  <2>1. ASSUME NEW x \in SUBSET (1 .. len), x # {}
        PROVE  g[x] = G(g[x \ {Max(x)}], place[Max(x)])
    <3>1. Max(x) \in 1 .. len /\ x \ {Max(x)} \in SUBSET (1 .. len)
      BY <2>1, MaxOfRange
    <3>2. g[x] = F[<<g[x \ {Max(x)}], Max(x)>>] /\ g[x \ {Max(x)}] \in S
      BY <1>6, <2>1, <3>1 DEF IsFold
    <3> QED
      BY <1>1, <1>5, <3>1, <3>2
  <2>2. g = [x \in SUBSET (1 .. len) |-> g[x]] /\ g[{}] = 0
    BY <1>6 DEF IsFold
  <2> QED
    BY <1>1, <2>1, <2>2
<1>8. f = [x \in SUBSET (DOMAIN place) |->
             IF x = {} THEN 0 ELSE G(f[x \ {Max(x)}], place[Max(x)])]
  <2> HIDE DEF place
  <2> QED
    BY <1>7
<1>9. Value(bits, first, len) = f[DOMAIN place]
  BY DEF Value, FoldLeft, MapThenFoldSet, Digit, G
<1> HIDE DEF f, place
<1>10. Folds(f, S, F, 0, len)
  <2>1. f[{}] = 0
    BY <1>8
  <2>2. ASSUME NEW k \in 1 .. len, f[1 .. (k - 1)] \in S
        PROVE  f[1 .. k] = F[<<f[1 .. (k - 1)], k>>]
    <3>1. k \in Nat \ {0} /\ 1 .. k # {} /\ 1 .. k \in SUBSET (DOMAIN place)
      <4>1. k \in Nat \ {0} /\ 1 \in 1 .. k
        OBVIOUS
      <4>2. \A j \in 1 .. k : j \in 1 .. len
        OBVIOUS
      <4> QED
        BY <1>1, <4>1, <4>2
    <3>2. Max(1 .. k) = k /\ (1 .. k) \ {k} = 1 .. (k - 1)
      BY <3>1, InitialNumbers
    <3>3. f[1 .. k] = G(f[1 .. (k - 1)], place[k])
      BY <1>8, <3>1, <3>2
    <3> QED
      BY <1>1, <1>5, <2>2, <3>3
  <2> QED
    BY <2>1, <2>2 DEF Folds
<1>11. PICK h : Iterates(h, f, S, F, 0, len)
  BY <1>3, <1>4, <1>10, FoldInOrder
<1>12. h[0] = 0 /\ h \in [0 .. len -> S] /\ f[1 .. len] = h[len]
  BY <1>11 DEF Iterates
<1>13. ASSUME NEW k \in 1 .. len PROVE h[k] = G(h[k - 1], first + k - 1)
  <2>1. k - 1 \in 0 .. len
    OBVIOUS
  <2>2. h[k - 1] \in S
    BY <1>12, <2>1
  <2>3. h[k] = F[<<h[k - 1], k>>]
    BY <1>11 DEF Iterates
  <2> QED
    BY <1>5, <2>2, <2>3
<1>14. Reads(h, bits, first, len)
  BY <1>1, <1>9, <1>12, <1>13 DEF S, G, Reads
<1> QED
  BY <1>14

LEMMA FiveRead ==
  ASSUME NEW bits, NEW first \in Nat, NEW v \in Quintet,
         \A j \in 0 .. 4 : first + 4 - j \in bits <=> Bit(v, j)
  PROVE  Value(bits, first, 5) = v
<1>1. PICK h : Reads(h, bits, first, 5)
  BY ReadBitByBit
<1> DEFINE d(p) == Digit(bits, p)
<1>2. /\ h[0] = 0
      /\ h[1] = 2 * h[0] + d(first) /\ h[2] = 2 * h[1] + d(first + 1)
      /\ h[3] = 2 * h[2] + d(first + 2) /\ h[4] = 2 * h[3] + d(first + 3)
      /\ h[5] = 2 * h[4] + d(first + 4)
      /\ Value(bits, first, 5) = h[5]
  <2> HIDE DEF d
  <2>1. \A j \in 1 .. 5 : h[j] = 2 * h[j - 1] + d(first + j - 1)
    BY <1>1 DEF Reads, d
  <2>2. h[0] = 0 /\ Value(bits, first, 5) = h[5]
    BY <1>1 DEF Reads
  <2> QED
    BY <2>1, <2>2
<1>3. /\ d(first) = v \div 16 /\ d(first + 1) = (v \div 8) % 2 /\ d(first + 2) = (v \div 4) % 2
      /\ d(first + 3) = (v \div 2) % 2 /\ d(first + 4) = v % 2
  <2>1. v \in 0 .. 31
    BY DEF Quintet
  <2>2. /\ first + 4 \in bits <=> v % 2 = 1
        /\ first + 3 \in bits <=> (v \div 2) % 2 = 1
        /\ first + 2 \in bits <=> (v \div 4) % 2 = 1
        /\ first + 1 \in bits <=> (v \div 8) % 2 = 1
        /\ first \in bits <=> (v \div 16) % 2 = 1
    <3>1. first + 4 - 0 = first + 4 /\ first + 4 - 1 = first + 3 /\ first + 4 - 2 = first + 2
          /\ first + 4 - 3 = first + 1 /\ first + 4 - 4 = first
      OBVIOUS
    <3>2. /\ Bit(v, 0) <=> v % 2 = 1
          /\ Bit(v, 1) <=> (v \div 2) % 2 = 1
          /\ Bit(v, 2) <=> (v \div 4) % 2 = 1
          /\ Bit(v, 3) <=> (v \div 8) % 2 = 1
          /\ Bit(v, 4) <=> (v \div 16) % 2 = 1
      BY <2>1, Powers DEF Bit
    <3>3. 0 \in 0 .. 4 /\ 1 \in 0 .. 4 /\ 2 \in 0 .. 4 /\ 3 \in 0 .. 4 /\ 4 \in 0 .. 4
      OBVIOUS
    <3>4. \A j \in 0 .. 4 : first + 4 - j \in bits <=> Bit(v, j)
      OBVIOUS
    <3>5. /\ first + 4 - 0 \in bits <=> Bit(v, 0)
          /\ first + 4 - 1 \in bits <=> Bit(v, 1)
          /\ first + 4 - 2 \in bits <=> Bit(v, 2)
          /\ first + 4 - 3 \in bits <=> Bit(v, 3)
          /\ first + 4 - 4 \in bits <=> Bit(v, 4)
      BY <3>3, <3>4
    <3> QED
      BY <3>1, <3>2, <3>5
  <2>3. \A x \in {v % 2, (v \div 2) % 2, (v \div 4) % 2, (v \div 8) % 2, (v \div 16) % 2} : x \in {0, 1}
    BY <2>1
  <2>4. (v \div 16) % 2 = v \div 16
    BY <2>1
  <2> QED
    BY <2>2, <2>3, <2>4 DEF Digit
<1> HIDE DEF d
<1>4. /\ v \div 8 = 2 * (v \div 16) + ((v \div 8) % 2)
      /\ v \div 4 = 2 * (v \div 8) + ((v \div 4) % 2)
      /\ v \div 2 = 2 * (v \div 4) + ((v \div 2) % 2)
      /\ v = 2 * (v \div 2) + (v % 2)
      /\ {v \div 16, v \div 8, v \div 4, v \div 2, v} \subseteq Nat
  BY DEF Quintet
<1>5. h[1] = v \div 16
  BY <1>2, <1>3, <1>4
<1>6. h[2] = v \div 8
  BY <1>2, <1>3, <1>4, <1>5
<1>7. h[3] = v \div 4
  BY <1>2, <1>3, <1>4, <1>6
<1>8. h[4] = v \div 2
  BY <1>2, <1>3, <1>4, <1>7
<1> QED
  BY <1>2, <1>3, <1>4, <1>8

LEMMA FourRead ==
  ASSUME NEW bits, NEW first \in Nat, NEW v \in 0 .. 15,
         \A j \in 0 .. 3 : first + 3 - j \in bits <=> Bit(v, j)
  PROVE  Value(bits, first, 4) = v
<1>1. PICK h : Reads(h, bits, first, 4)
  BY ReadBitByBit
<1> DEFINE d(p) == Digit(bits, p)
<1>2. /\ h[0] = 0
      /\ h[1] = 2 * h[0] + d(first) /\ h[2] = 2 * h[1] + d(first + 1)
      /\ h[3] = 2 * h[2] + d(first + 2) /\ h[4] = 2 * h[3] + d(first + 3)
      /\ Value(bits, first, 4) = h[4]
  <2> HIDE DEF d
  <2>1. \A j \in 1 .. 4 : h[j] = 2 * h[j - 1] + d(first + j - 1)
    BY <1>1 DEF Reads, d
  <2>2. h[0] = 0 /\ Value(bits, first, 4) = h[4]
    BY <1>1 DEF Reads
  <2> QED
    BY <2>1, <2>2
<1>3. /\ d(first) = v \div 8 /\ d(first + 1) = (v \div 4) % 2
      /\ d(first + 2) = (v \div 2) % 2 /\ d(first + 3) = v % 2
  <2>1. /\ first + 3 \in bits <=> v % 2 = 1
        /\ first + 2 \in bits <=> (v \div 2) % 2 = 1
        /\ first + 1 \in bits <=> (v \div 4) % 2 = 1
        /\ first \in bits <=> (v \div 8) % 2 = 1
    <3>1. first + 3 - 0 = first + 3 /\ first + 3 - 1 = first + 2
          /\ first + 3 - 2 = first + 1 /\ first + 3 - 3 = first
      OBVIOUS
    <3>2. /\ Bit(v, 0) <=> v % 2 = 1
          /\ Bit(v, 1) <=> (v \div 2) % 2 = 1
          /\ Bit(v, 2) <=> (v \div 4) % 2 = 1
          /\ Bit(v, 3) <=> (v \div 8) % 2 = 1
      BY Powers DEF Bit
    <3>3. 0 \in 0 .. 3 /\ 1 \in 0 .. 3 /\ 2 \in 0 .. 3 /\ 3 \in 0 .. 3
      OBVIOUS
    <3>4. /\ first + 3 - 0 \in bits <=> Bit(v, 0)
          /\ first + 3 - 1 \in bits <=> Bit(v, 1)
          /\ first + 3 - 2 \in bits <=> Bit(v, 2)
          /\ first + 3 - 3 \in bits <=> Bit(v, 3)
      BY <3>3
    <3> QED
      BY <3>1, <3>2, <3>4
  <2>2. \A x \in {v % 2, (v \div 2) % 2, (v \div 4) % 2, (v \div 8) % 2} : x \in {0, 1}
    OBVIOUS
  <2>3. (v \div 8) % 2 = v \div 8
    OBVIOUS
  <2> QED
    BY <2>1, <2>2, <2>3 DEF Digit
<1> HIDE DEF d
<1>4. /\ v \div 4 = 2 * (v \div 8) + ((v \div 4) % 2)
      /\ v \div 2 = 2 * (v \div 4) + ((v \div 2) % 2)
      /\ v = 2 * (v \div 2) + (v % 2)
      /\ {v \div 8, v \div 4, v \div 2, v} \subseteq Nat
  OBVIOUS
<1>5. h[1] = v \div 8
  BY <1>2, <1>3, <1>4
<1>6. h[2] = v \div 4
  BY <1>2, <1>3, <1>4, <1>5
<1>7. h[3] = v \div 2
  BY <1>2, <1>3, <1>4, <1>6
<1> QED
  BY <1>2, <1>3, <1>4, <1>7

(* The shifts of addr32_store: each character has five bits of its own, and *)
(* the length has the four behind the first bit.                           *)
LEMMA BitsPlaced ==
  ASSUME NEW k \in 0 .. 14, NEW v \in Quintet, NEW p
  PROVE  p \in Placed(k, v) <=> \E j \in 0 .. 4 : Bit(v, j) /\ p = 5*k + 9 - j
<1>1. \A j \in 5 .. 7 : ~Bit(v, j)
  <2>1. v \in 0 .. 31
    BY DEF Quintet
  <2>2. v \div 32 = 0 /\ v \div 64 = 0 /\ v \div 128 = 0
    BY <2>1
  <2>3. ~Bit(v, 5) /\ ~Bit(v, 6) /\ ~Bit(v, 7)
    BY <2>2, Powers DEF Bit
  <2> QED
    BY <2>3
<1>2. \A j \in 0 .. 4 : (5*k + 9 - j) \div 8 >= (5*k + 5) \div 8
  OBVIOUS
<1>3. \A j \in 0 .. 7 : j \in 0 .. 4 \/ j \in 5 .. 7
  OBVIOUS
<1>4. \A j \in 0 .. 4 : j \in 0 .. 7
  OBVIOUS
<1>5. p \in Placed(k, v) <=>
        \E j \in 0 .. 7 : /\ Bit(v, j) /\ (5*k + 9 - j) \div 8 >= (5*k + 5) \div 8
                          /\ p = 5*k + 9 - j
  BY DEF Placed
<1> QED
  BY <1>1, <1>2, <1>3, <1>4, <1>5

(* An address of 1 to 15 characters that does not end with another one. *)
Readable(t) ==
  /\ t \in Seq(STRING)
  /\ Len(Supported(t)) \in 1 .. 15
  /\ charToAddr32(Last(t)) # Unsupported

LEMMA SourceTyped ==
  ASSUME NEW t, Readable(t)
  PROVE  /\ \A k \in 0 .. 15 : Source(t)[k] \in Quintet
         /\ \A k \in 1 .. Len(Supported(t)) : Source(t)[k - 1] = charToAddr32(Supported(t)[k])
<1> DEFINE s == Supported(t)
           last == charToAddr32(Last(t))
<1>0. PICK len \in 1 .. 15 : len = Len(s)
  BY DEF Readable
<1>1. s \in Seq(Character)
  BY SupportedTyped DEF Readable
<1>2. Source(t) = [k \in 0 .. 15 |->
                     IF k < len THEN charToAddr32(s[k + 1])
                     ELSE IF k = len /\ t # <<>> THEN IF last = Unsupported THEN Unsupported ELSE 0
                     ELSE 0]
  BY <1>0 DEF Source
<1>3. last # Unsupported
  BY DEF Readable
<1> HIDE DEF s, last
<1>4. ASSUME NEW k \in 0 .. 15
      PROVE  Source(t)[k] = IF k < len THEN charToAddr32(s[k + 1]) ELSE 0
  BY <1>2, <1>3
<1>5. ASSUME NEW k \in 1 .. len PROVE charToAddr32(s[k]) \in Quintet
  <2>1. s[k] \in Character
    BY <1>0, <1>1
  <2> QED
    BY <2>1, CharacterTyped DEF Character
<1>6. ASSUME NEW k \in 0 .. 15 PROVE Source(t)[k] \in Quintet
  <2>1. CASE k < len
    <3>1. k + 1 \in 1 .. len
      BY <2>1
    <3> QED
      BY <1>4, <1>5, <2>1, <3>1
  <2>2. CASE ~(k < len)
    BY <1>4, <2>2 DEF Quintet
  <2> QED
    BY <2>1, <2>2
<1>7. ASSUME NEW k \in 1 .. len PROVE Source(t)[k - 1] = charToAddr32(s[k])
  <2>1. k - 1 \in 0 .. 15 /\ k - 1 < len /\ (k - 1) + 1 = k
    OBVIOUS
  <2> QED
    BY <1>4, <2>1
<1> QED
  BY <1>0, <1>6, <1>7 DEF s

LEMMA BitsStored ==
  ASSUME NEW t, Readable(t)
  PROVE  /\ 0 \notin addr32_store(t)
         /\ \A j \in 0 .. 3 : 4 - j \in addr32_store(t) <=> Bit(Len(Supported(t)), j)
         /\ \A k \in 1 .. 15, j \in 0 .. 4 :
              5*k + 4 - j \in addr32_store(t) <=> Bit(Source(t)[k - 1], j)
<1> DEFINE src == Source(t)
           bits == addr32_store(t)
           Lead(len, p) == \E j \in 0 .. 4 : Bit(len, j) /\ p = 4 - j
           Behind(p) == \E k \in 0 .. 14, j \in 0 .. 4 : Bit(src[k], j) /\ p = 5*k + 9 - j
<1>0. PICK len \in 1 .. 15 : len = Len(Supported(t))
  BY DEF Readable
<1>1. \A k \in 0 .. 14 : src[k] \in Quintet
  <2>1. \A k \in 0 .. 14 : k \in 0 .. 15
    OBVIOUS
  <2> QED
    BY <2>1, SourceTyped
<1>2. ASSUME NEW p PROVE p \in bits <=> Lead(len, p) \/ Behind(p)
  <2>1. bits = Head5(src, len) \cup UNION {Placed(k, src[k]) : k \in 0 .. 14}
    <3>1. (IF len < 16 THEN len ELSE 16) = len
      OBVIOUS
    <3> QED
      BY <1>0, <3>1 DEF addr32_store
  <2>2. Head5(src, len) = {4 - j : j \in {j \in 0 .. 4 : Bit(len, j)}}
    <3>1. len # 16
      OBVIOUS
    <3> HIDE DEF src
    <3> QED
      BY <3>1 DEF Head5
  <2>3. \A k \in 0 .. 14 : p \in Placed(k, src[k]) <=> \E j \in 0 .. 4 : Bit(src[k], j) /\ p = 5*k + 9 - j
    BY <1>1, BitsPlaced
  <2> HIDE DEF bits, src
  <2>4. p \in UNION {Placed(k, src[k]) : k \in 0 .. 14} <=> \E k \in 0 .. 14 : p \in Placed(k, src[k])
    OBVIOUS
  <2> QED
    BY <2>1, <2>2, <2>3, <2>4
<1>3. ~Bit(len, 4)
  <2>1. len \div 16 = 0
    OBVIOUS
  <2> QED
    BY <2>1, Powers DEF Bit
<1> HIDE DEF src, bits
<1>5. ASSUME NEW j \in 0 .. 3 PROVE 4 - j \in bits <=> Bit(len, j)
  <2>1. ~Behind(4 - j)
    <3>1. \A k \in 0 .. 14, i \in 0 .. 4 : 4 - j # 5*k + 9 - i
      OBVIOUS
    <3> QED
      BY <3>1
  <2>2. Lead(len, 4 - j) <=> Bit(len, j)
    <3>1. \A i \in 0 .. 4 : 4 - j = 4 - i <=> i = j
      OBVIOUS
    <3> QED
      BY <3>1
  <2> QED
    BY <1>2, <2>1, <2>2
<1>6. 0 \notin bits
  <2>1. ~Behind(0)
    <3>1. \A k \in 0 .. 14, i \in 0 .. 4 : 0 # 5*k + 9 - i
      OBVIOUS
    <3> QED
      BY <3>1
  <2>2. ~Lead(len, 0)
    <3>1. \A i \in 0 .. 4 : 0 = 4 - i => i = 4
      OBVIOUS
    <3> QED
      BY <1>3, <3>1
  <2> QED
    BY <1>2, <2>1, <2>2
<1>7. ASSUME NEW k \in 1 .. 15, NEW j \in 0 .. 4
      PROVE  5*k + 4 - j \in bits <=> Bit(src[k - 1], j)
  <2> DEFINE p == 5*k + 4 - j
  <2>1. ~Lead(len, p)
    <3>1. \A i \in 0 .. 4 : p # 4 - i
      OBVIOUS
    <3> QED
      BY <3>1
  <2>2. Behind(p) <=> Bit(src[k - 1], j)
    <3>1. \A m \in 0 .. 14, i \in 0 .. 4 : p = 5*m + 9 - i => m = k - 1 /\ i = j
      OBVIOUS
    <3>2. k - 1 \in 0 .. 14 /\ p = 5*(k - 1) + 9 - j
      OBVIOUS
    <3> HIDE DEF p
    <3>3. ASSUME Behind(p) PROVE Bit(src[k - 1], j)
      BY <3>1, <3>3
    <3>4. ASSUME Bit(src[k - 1], j) PROVE Behind(p)
      BY <3>2, <3>4
    <3> QED
      BY <3>3, <3>4
  <2> QED
    BY <1>2, <2>1, <2>2
<1> QED
  BY <1>0, <1>5, <1>6, <1>7 DEF src, bits

(* addr32_store: an address of 1 to 15 characters can be read back, whatever *)
(* other characters there are before and between them.                     *)
THEOREM AddressesAlwaysRead == TextsSpec => []AddressRead
<1>1. AddressOK => AddressRead
  <2> SUFFICES ASSUME Readable(text)
               PROVE  Read(addr32_store(text)) = Meaning(text)
    BY DEF AddressOK, AddressRead, Readable
  <2> DEFINE s == Supported(text)
             bits == addr32_store(text)
  <2>1. /\ 0 \notin bits
        /\ \A j \in 0 .. 3 : 4 - j \in bits <=> Bit(Len(s), j)
        /\ \A k \in 1 .. 15, j \in 0 .. 4 : 5*k + 4 - j \in bits <=> Bit(Source(text)[k - 1], j)
    BY BitsStored
  <2>2. /\ \A k \in 0 .. 15 : Source(text)[k] \in Quintet
        /\ \A k \in 1 .. Len(s) : Source(text)[k - 1] = charToAddr32(s[k])
    BY SourceTyped
  <2>3. PICK len \in 1 .. 15 : len = Len(s)
    BY DEF Readable
  <2> HIDE DEF s, bits
  <2>4. Value(bits, 1, 4) = len
    <3>1. \A j \in 0 .. 3 : 1 + 3 - j \in bits <=> Bit(len, j)
      <4>1. \A j \in 0 .. 3 : 1 + 3 - j = 4 - j
        OBVIOUS
      <4> QED
        BY <2>1, <2>3, <4>1
    <3>2. len \in 0 .. 15 /\ 1 \in Nat
      OBVIOUS
    <3> QED
      BY <3>1, <3>2, FourRead
  <2>5. ASSUME NEW k \in 1 .. len PROVE Value(bits, 5*k, 5) = charToAddr32(s[k])
    <3>1. k \in 1 .. 15 /\ 5*k \in Nat /\ k - 1 \in 0 .. 15
      OBVIOUS
    <3>2. \A j \in 0 .. 4 : 5*k + 4 - j \in bits <=> Bit(Source(text)[k - 1], j)
      BY <2>1, <3>1
    <3>3. Source(text)[k - 1] \in Quintet /\ Source(text)[k - 1] = charToAddr32(s[k])
      BY <2>2, <2>3, <3>1
    <3> QED
      BY <3>1, <3>2, <3>3, FiveRead
  <2>6. Read(bits) = [k \in 1 .. len |-> Value(bits, 5*k, 5)]
    BY <2>1, <2>4 DEF Read
  <2>7. Meaning(text) = [k \in 1 .. len |-> charToAddr32(s[k])]
    <3>1. (IF len < 16 THEN len ELSE 16) = len
      OBVIOUS
    <3> QED
      BY <2>3, <3>1 DEF Meaning, s
  <2>8. Read(bits) = Meaning(text)
    BY <2>5, <2>6, <2>7
  <2> QED
    BY <2>8 DEF bits
<1>2. TextsSpec => []AddressOK
  BY AddressAlwaysOK
<1> QED
  BY <1>1, <1>2, PTL

-----------------------------------------------------------------------------
(* Plain text: what it looks like, one character after the other. *)
Outline(C) == C \cup {"|"}

MarksOf(t) == FoldLeft(Marked, <<>>, t)

Marking(h, t, C) ==
  /\ h \in [0 .. Len(t) -> Seq(Outline(C))]
  /\ h[0] = <<>>
  /\ \A k \in 1 .. Len(t) : h[k] = Marked(h[k - 1], t[k])
  /\ MarksOf(t) = h[Len(t)]

(* A gap that follows would not show. *)
AtGap(s) == s = <<>> \/ s[Len(s)] = "|"

LEMMA MarkCases ==
  ASSUME NEW C, NEW s \in Seq(Outline(C)), NEW c
  PROVE  /\ c \in Hidden => Marked(s, c) = s
         /\ c \in Blank /\ AtGap(s) => Marked(s, c) = s
         /\ c \in Blank /\ ~AtGap(s) => Marked(s, c) = Append(s, "|")
         /\ c \notin Hidden \cup Blank => Marked(s, c) = Append(s, c)
<1>1. s # <<>> => (Ends(s, <<"|">>) <=> s[Len(s)] = "|")
  BY EndsWith
<1>2. c \in Blank => c \notin Hidden
  BY DEF Blank, Hidden
<1> QED
  BY <1>1, <1>2 DEF Marked, AtGap

LEMMA MarkTyped ==
  ASSUME NEW C, NEW s \in Seq(Outline(C)), NEW c \in C
  PROVE  Marked(s, c) \in Seq(Outline(C))
<1>1. c \in Outline(C) /\ "|" \in Outline(C)
  BY DEF Outline
<1> QED
  BY <1>1 DEF Marked

LEMMA MarkInOrder ==
  ASSUME NEW C, NEW t \in Seq(C)
  PROVE  \E h : Marking(h, t, C)
<1> DEFINE len == Len(t)
           S == Seq(Outline(C))
           F == [p \in S \X (1 .. len) |-> Marked(p[1], t[p[2]])]
<1>1. len \in Nat /\ DOMAIN t = 1 .. len /\ \A k \in 1 .. len : t[k] \in C
  OBVIOUS
<1>2. \A s \in S, c \in C : Marked(s, c) \in S
  BY MarkTyped
<1> HIDE DEF S, len
<1>3. <<>> \in S
  BY DEF S
<1>4. F \in [S \X (1 .. len) -> S]
  BY <1>1, <1>2
<1>5. \A s \in S, k \in 1 .. len : F[<<s, k>>] = Marked(s, t[k])
  OBVIOUS
<1> HIDE DEF F
<1>6. PICK g : IsFold(g, S, F, <<>>, len)
  BY <1>1, <1>3, <1>4, FoldExists
<1> DEFINE f == CHOOSE f : f = [x \in SUBSET (DOMAIN t) |->
                  IF x = {} THEN <<>> ELSE Marked(f[x \ {Max(x)}], t[Max(x)])]
<1>7. g = [x \in SUBSET (DOMAIN t) |->
             IF x = {} THEN <<>> ELSE Marked(g[x \ {Max(x)}], t[Max(x)])]
  <2>1. ASSUME NEW x \in SUBSET (1 .. len), x # {}
        PROVE  g[x] = Marked(g[x \ {Max(x)}], t[Max(x)])
    <3>1. Max(x) \in 1 .. len /\ x \ {Max(x)} \in SUBSET (1 .. len)
      BY <1>1, <2>1, MaxOfRange
    <3>2. g[x] = F[<<g[x \ {Max(x)}], Max(x)>>] /\ g[x \ {Max(x)}] \in S
      BY <1>6, <2>1, <3>1 DEF IsFold
    <3> QED
      BY <1>5, <3>1, <3>2
  <2>2. g = [x \in SUBSET (1 .. len) |-> g[x]] /\ g[{}] = <<>>
    BY <1>6 DEF IsFold
  <2> QED
    BY <1>1, <2>1, <2>2
<1>8. f = [x \in SUBSET (DOMAIN t) |->
             IF x = {} THEN <<>> ELSE Marked(f[x \ {Max(x)}], t[Max(x)])]
  BY <1>7
<1>9. MarksOf(t) = f[DOMAIN t]
  BY DEF MarksOf, FoldLeft, MapThenFoldSet
<1> HIDE DEF f
<1>10. Folds(f, S, F, <<>>, len)
  <2>1. f[{}] = <<>>
    BY <1>8
  <2>2. ASSUME NEW k \in 1 .. len, f[1 .. (k - 1)] \in S
        PROVE  f[1 .. k] = F[<<f[1 .. (k - 1)], k>>]
    <3>1. k \in Nat \ {0} /\ 1 .. k # {} /\ 1 .. k \in SUBSET (DOMAIN t)
      <4>1. k \in Nat \ {0} /\ 1 \in 1 .. k
        BY <1>1
      <4>2. \A j \in 1 .. k : j \in 1 .. len
        BY <1>1
      <4> QED
        BY <1>1, <4>1, <4>2
    <3>2. Max(1 .. k) = k /\ (1 .. k) \ {k} = 1 .. (k - 1)
      BY <3>1, InitialNumbers
    <3>3. f[1 .. k] = Marked(f[1 .. (k - 1)], t[k])
      BY <1>8, <3>1, <3>2
    <3> QED
      BY <1>5, <2>2, <3>3
  <2> QED
    BY <2>1, <2>2 DEF Folds
<1>11. PICK h : Iterates(h, f, S, F, <<>>, len)
  BY <1>1, <1>3, <1>4, <1>10, FoldInOrder
<1>12. h[0] = <<>> /\ h \in [0 .. len -> S] /\ f[1 .. len] = h[len]
  BY <1>11 DEF Iterates
<1>13. ASSUME NEW k \in 1 .. len PROVE h[k] = Marked(h[k - 1], t[k])
  <2>1. k - 1 \in 0 .. len
    BY <1>1
  <2>2. h[k - 1] \in S
    BY <1>12, <2>1
  <2>3. h[k] = F[<<h[k - 1], k>>]
    BY <1>11 DEF Iterates
  <2> QED
    BY <1>5, <2>2, <2>3
<1>14. Marking(h, t, C)
  BY <1>1, <1>9, <1>12, <1>13 DEF len, S, Marking
<1> QED
  BY <1>14


LEMMA MarkAppend ==
  ASSUME NEW C, NEW t \in Seq(C), NEW c \in C
  PROVE  /\ MarksOf(t) \in Seq(Outline(C))
         /\ MarksOf(Append(t, c)) = Marked(MarksOf(t), c)
<1> DEFINE len == Len(t)
           u == Append(t, c)
<1>1. /\ len \in Nat /\ len \in 0 .. len /\ len + 1 \in 1 .. (len + 1) /\ (len + 1) - 1 = len
      /\ u \in Seq(C) /\ Len(u) = len + 1 /\ u[len + 1] = c
      /\ \A k \in 1 .. len : u[k] = t[k] /\ k \in 1 .. (len + 1)
  OBVIOUS
<1> HIDE DEF u
<1>2. PICK h : Marking(h, t, C)
  BY MarkInOrder
<1>3. PICK g : Marking(g, u, C)
  BY <1>1, MarkInOrder
<1> DEFINE T == {k \in 0 .. len : g[k] = h[k]}
<1>4. 0 \in T
  BY <1>1, <1>2, <1>3 DEF Marking
<1>5. ASSUME NEW k \in 1 .. len, k - 1 \in T PROVE k \in T
  <2>1. g[k] = Marked(g[k - 1], u[k]) /\ u[k] = t[k]
    BY <1>1, <1>3 DEF Marking
  <2>2. h[k] = Marked(h[k - 1], t[k])
    BY <1>2 DEF Marking
  <2>3. g[k - 1] = h[k - 1] /\ k \in 0 .. len
    BY <1>5
  <2> QED
    BY <2>1, <2>2, <2>3
<1>6. len \in T
  <2> HIDE DEF T
  <2>1. \A k \in 0 .. len : k \in T
    BY <1>1, <1>4, <1>5, NumbersReached
  <2> QED
    BY <1>1, <2>1
<1>7. g[len + 1] = Marked(g[len], c) /\ MarksOf(u) = g[len + 1]
  BY <1>1, <1>3 DEF Marking
<1>8. h[len] \in Seq(Outline(C)) /\ MarksOf(t) = h[len]
  BY <1>1, <1>2 DEF Marking
<1> QED
  BY <1>6, <1>7, <1>8 DEF u

LEMMA MarkNothing == MarksOf(<<>>) = <<>>
<1>1. <<>> \in Seq({}) /\ Len(<<>>) = 0
  OBVIOUS
<1>2. PICK h : Marking(h, <<>>, {})
  BY <1>1, MarkInOrder
<1> QED
  BY <1>1, <1>2 DEF Marking

(* cleanText, one character after the other, of texts without those that    *)
(* are taken for a space.                                                  *)
CleanState(C) == [out : Seq(C), skip : 0 .. 1, raw : {0}]
CleanBegin == [out |-> <<>>, skip |-> 0, raw |-> 0]

(* Characters, with those that others are replaced by. *)
Ordinary(C) == {"sp", "nl"} \subseteq C /\ {"wj", "stop"} \cap C = {}

Cleaned(s) ==
  FoldLeft(LAMBDA a, i : CleanStep(s, a, i), CleanBegin, [i \in DOMAIN s |-> i]).out

Cleaning(h, s, C) ==
  /\ h \in [0 .. Len(s) -> CleanState(C)]
  /\ h[0] = CleanBegin
  /\ \A k \in 1 .. Len(s) : h[k] = CleanStep(s, h[k - 1], k)
  /\ Cleaned(s) = h[Len(s)].out

(* The character behind the i-th. *)
Follower(s, i) == IF i < Len(s) THEN s[i + 1] ELSE "end"

Kept(a, c)  == [out |-> Append(a.out, c), skip |-> 0, raw |-> 0]

Skipped(o, k) == [out |-> o, skip |-> k, raw |-> 0]

LEMMA CleanCases ==
  ASSUME NEW C, NEW s, NEW a \in CleanState(C), NEW i,
         {s[i], Follower(s, i)} \cap {"wj", "stop"} = {}
  PROVE  LET c == s[i]
             next == Follower(s, i)
         IN  /\ a.skip = 1 => CleanStep(s, a, i) = Skipped(a.out, 0)
             /\ a.skip = 0 /\ c = "inv" =>
                  CleanStep(s, a, i) = IF next \in {"sp", "nbsp", "nl", "nel"} THEN a
                                       ELSE IF next = "inv" THEN Skipped(a.out, 1)
                                       ELSE Kept(a, c)
             /\ a.skip = 0 /\ c \in {"sp", "nbsp"} =>
                  CleanStep(s, a, i) = IF NoSpace(a.out, next) THEN a ELSE Kept(a, "sp")
             /\ a.skip = 0 /\ c \in Newlines =>
                  CleanStep(s, a, i) = IF NoNewline(a.out) THEN a ELSE Kept(a, "nl")
             /\ a.skip = 0 /\ c \notin {"inv", "sp", "nbsp"} \cup Newlines =>
                  CleanStep(s, a, i) = Kept(a, c)
<1> DEFINE c == s[i]
           next == Follower(s, i)
           o == a.out
<1>1. a = [out |-> o, skip |-> a.skip, raw |-> 0] /\ a.skip \in {0, 1} /\ a.raw = 0
  BY DEF CleanState
<1>2. next = IF i < Len(s) THEN s[i + 1] ELSE "end"
  BY DEF Follower
<1>3. CleanStep(s, a, i) =
        IF a.skip > 0 THEN [out |-> o, skip |-> a.skip - 1, raw |-> a.raw]
        ELSE IF a.raw > 0
          THEN [out |-> Append(o, c), skip |-> 0, raw |-> IF c \in Wide THEN 0 ELSE a.raw - 1]
        ELSE IF c \in Invisible /\ next \in Spaces \cup Newlines THEN [out |-> o, skip |-> 0, raw |-> 0]
        ELSE IF c \in Invisible /\ next \in Invisible THEN [out |-> o, skip |-> 1, raw |-> 0]
        ELSE IF c \in Spaces THEN
          [out |-> IF NoSpace(o, next) THEN o ELSE Append(o, "sp"), skip |-> 0,
           raw |-> IF c = "wj" THEN 2 ELSE 0]
        ELSE IF c \in Newlines THEN
          [out |-> IF NoNewline(o) THEN o ELSE Append(o, "nl"), skip |-> 0, raw |-> 0]
        ELSE [out |-> Append(o, c), skip |-> 0, raw |-> 0]
  BY Zenon DEF CleanStep, Follower
<1>4. /\ Kept(a, c) = [out |-> Append(o, c), skip |-> 0, raw |-> 0]
      /\ Kept(a, "sp") = [out |-> Append(o, "sp"), skip |-> 0, raw |-> 0]
      /\ Kept(a, "nl") = [out |-> Append(o, "nl"), skip |-> 0, raw |-> 0]
      /\ Skipped(o, 0) = [out |-> o, skip |-> 0, raw |-> 0]
      /\ Skipped(o, 1) = [out |-> o, skip |-> 1, raw |-> 0]
  BY DEF Kept, Skipped
<1>5. c \notin {"wj", "stop"} /\ next \notin {"wj", "stop"}
  OBVIOUS
<1> DEFINE b == CleanStep(s, a, i)
<1> HIDE DEF b, o, c, next
<1>6. a.skip = 1 => b = Skipped(o, 0)
  BY <1>1, <1>3, <1>4 DEF b
<1>7. a.skip = 0 /\ c = "inv" =>
        b = IF next \in {"sp", "nbsp", "nl", "nel"} THEN a
            ELSE IF next = "inv" THEN Skipped(o, 1) ELSE Kept(a, c)
  BY <1>1, <1>3, <1>4, <1>5 DEF b, Invisible, Spaces, Newlines
<1>8. a.skip = 0 /\ c \in {"sp", "nbsp"} => b = IF NoSpace(o, next) THEN a ELSE Kept(a, "sp")
  <2>1. ASSUME a.skip = 0, c \in {"sp", "nbsp"} PROVE c \notin Invisible /\ c \in Spaces /\ c # "wj"
    BY <2>1 DEF Invisible, Spaces
  <2>2. ASSUME a.skip = 0, c \in {"sp", "nbsp"}
        PROVE  b = [out |-> IF NoSpace(o, next) THEN o ELSE Append(o, "sp"), skip |-> 0, raw |-> 0]
    <3>1. ~(a.skip > 0) /\ ~(a.raw > 0)
      BY <1>1, <2>2
    <3> QED
      BY <1>3, <2>1, <2>2, <3>1, Zenon DEF b
  <2> QED
    BY <1>1, <1>4, <2>2
<1>9. a.skip = 0 /\ c \in Newlines => b = IF NoNewline(o) THEN a ELSE Kept(a, "nl")
  <2>1. ASSUME c \in Newlines PROVE c \notin Invisible /\ c \notin Spaces
    BY <2>1 DEF Invisible, Spaces, Newlines
  <2>2. ASSUME a.skip = 0, c \in Newlines
        PROVE  b = [out |-> IF NoNewline(o) THEN o ELSE Append(o, "nl"), skip |-> 0, raw |-> 0]
    BY <1>1, <1>3, <2>1, <2>2 DEF b
  <2> QED
    BY <1>1, <1>4, <2>2
<1>10. a.skip = 0 /\ c \notin {"inv", "sp", "nbsp"} \cup Newlines => b = Kept(a, c)
  BY <1>1, <1>3, <1>4, <1>5 DEF b, Invisible, Spaces, Newlines
<1> QED
  BY <1>6, <1>7, <1>8, <1>9, <1>10 DEF b, o, c, next

LEMMA NextOrdinary ==
  ASSUME NEW C, Ordinary(C), NEW s \in Seq(C), NEW i \in 1 .. Len(s)
  PROVE  {s[i], Follower(s, i)} \cap {"wj", "stop"} = {}
<1>1. s[i] \in C
  OBVIOUS
<1>2. i < Len(s) => s[i + 1] \in C
  OBVIOUS
<1> QED
  BY <1>1, <1>2 DEF Follower, Ordinary

LEMMA CleanStepTyped ==
  ASSUME NEW C, Ordinary(C), NEW s \in Seq(C), NEW a \in CleanState(C), NEW i \in 1 .. Len(s)
  PROVE  CleanStep(s, a, i) \in CleanState(C)
<1>1. s[i] \in C /\ "sp" \in C /\ "nl" \in C
  BY DEF Ordinary
<1>2. a.out \in Seq(C) /\ a.skip \in {0, 1}
  BY DEF CleanState
<1>3. ASSUME NEW c \in C PROVE Kept(a, c) \in CleanState(C)
  <2>1. Append(a.out, c) \in Seq(C)
    BY <1>2
  <2> QED
    BY <2>1 DEF CleanState, Kept
<1>4. Skipped(a.out, 0) \in CleanState(C) /\ Skipped(a.out, 1) \in CleanState(C)
  BY <1>2 DEF CleanState, Skipped
<1> DEFINE c == s[i]
           b == CleanStep(s, a, i)
<1>5. {s[i], Follower(s, i)} \cap {"wj", "stop"} = {}
  BY NextOrdinary
<1>6. b \in {a, Kept(a, c), Kept(a, "sp"), Kept(a, "nl"), Skipped(a.out, 0), Skipped(a.out, 1)}
  <2>1. CASE a.skip = 1
    BY <1>5, <2>1, CleanCases
  <2>2. CASE a.skip = 0 /\ c = "inv"
    BY <1>5, <2>2, CleanCases
  <2>3. CASE a.skip = 0 /\ c \in {"sp", "nbsp"}
    BY <1>5, <2>3, CleanCases
  <2>4. CASE a.skip = 0 /\ c \in Newlines
    BY <1>5, <2>4, CleanCases
  <2>5. CASE a.skip = 0 /\ c \notin {"inv", "sp", "nbsp"} \cup Newlines
    BY <1>5, <2>5, CleanCases
  <2> QED
    BY <1>2, <2>1, <2>2, <2>3, <2>4, <2>5
<1> HIDE DEF b, c
<1>7. b \in CleanState(C)
  BY <1>1, <1>3, <1>4, <1>6 DEF c
<1> QED
  BY <1>7 DEF b

LEMMA CleanInOrder ==
  ASSUME NEW C, Ordinary(C), NEW s \in Seq(C)
  PROVE  \E h : Cleaning(h, s, C)
<1> DEFINE len == Len(s)
           S == CleanState(C)
           F == [p \in S \X (1 .. len) |-> CleanStep(s, p[1], p[2])]
           index == [i \in DOMAIN s |-> i]
<1>1. /\ len \in Nat /\ DOMAIN s = 1 .. len
      /\ DOMAIN index = 1 .. len /\ \A i \in 1 .. len : index[i] = i
  OBVIOUS
<1>2. \A a \in S, k \in 1 .. len : CleanStep(s, a, k) \in S
  BY CleanStepTyped
<1>3. CleanBegin \in S
  BY DEF CleanState, CleanBegin
<1> HIDE DEF S, len
<1>4. F \in [S \X (1 .. len) -> S]
  BY <1>2
<1>5. \A a \in S, k \in 1 .. len : F[<<a, k>>] = CleanStep(s, a, k)
  OBVIOUS
<1> HIDE DEF F
<1>6. PICK g : IsFold(g, S, F, CleanBegin, len)
  BY <1>1, <1>3, <1>4, FoldExists
<1> DEFINE f == CHOOSE f : f = [x \in SUBSET (DOMAIN index) |->
                  IF x = {} THEN CleanBegin ELSE CleanStep(s, f[x \ {Max(x)}], index[Max(x)])]
<1>7. g = [x \in SUBSET (DOMAIN index) |->
             IF x = {} THEN CleanBegin ELSE CleanStep(s, g[x \ {Max(x)}], index[Max(x)])]
  <2> HIDE DEF index
  <2>1. ASSUME NEW x \in SUBSET (1 .. len), x # {}
        PROVE  g[x] = CleanStep(s, g[x \ {Max(x)}], index[Max(x)])
    <3>1. Max(x) \in 1 .. len /\ x \ {Max(x)} \in SUBSET (1 .. len)
      BY <1>1, <2>1, MaxOfRange
    <3>2. g[x] = F[<<g[x \ {Max(x)}], Max(x)>>] /\ g[x \ {Max(x)}] \in S
      BY <1>6, <2>1, <3>1 DEF IsFold
    <3> QED
      BY <1>1, <1>5, <3>1, <3>2
  <2>2. g = [x \in SUBSET (1 .. len) |-> g[x]] /\ g[{}] = CleanBegin
    BY <1>6 DEF IsFold
  <2> QED
    BY <1>1, <2>1, <2>2
<1>8. f = [x \in SUBSET (DOMAIN index) |->
             IF x = {} THEN CleanBegin ELSE CleanStep(s, f[x \ {Max(x)}], index[Max(x)])]
  <2> HIDE DEF index
  <2> QED
    BY <1>7
<1>9. Cleaned(s) = f[DOMAIN index].out
  BY DEF Cleaned, FoldLeft, MapThenFoldSet, CleanBegin
<1> HIDE DEF f, index
<1>10. Folds(f, S, F, CleanBegin, len)
  <2>1. f[{}] = CleanBegin
    BY <1>8
  <2>2. ASSUME NEW k \in 1 .. len, f[1 .. (k - 1)] \in S
        PROVE  f[1 .. k] = F[<<f[1 .. (k - 1)], k>>]
    <3>1. k \in Nat \ {0} /\ 1 .. k # {} /\ 1 .. k \in SUBSET (DOMAIN index)
      <4>1. k \in Nat \ {0} /\ 1 \in 1 .. k
        BY <1>1
      <4>2. \A j \in 1 .. k : j \in 1 .. len
        BY <1>1
      <4> QED
        BY <1>1, <4>1, <4>2
    <3>2. Max(1 .. k) = k /\ (1 .. k) \ {k} = 1 .. (k - 1)
      BY <3>1, InitialNumbers
    <3>3. f[1 .. k] = CleanStep(s, f[1 .. (k - 1)], index[k])
      BY <1>8, <3>1, <3>2
    <3> QED
      BY <1>1, <1>5, <2>2, <3>3
  <2> QED
    BY <2>1, <2>2 DEF Folds
<1>11. PICK h : Iterates(h, f, S, F, CleanBegin, len)
  BY <1>1, <1>3, <1>4, <1>10, FoldInOrder
<1>12. h[0] = CleanBegin /\ h \in [0 .. len -> S] /\ f[1 .. len] = h[len]
  BY <1>11 DEF Iterates
<1>13. ASSUME NEW k \in 1 .. len PROVE h[k] = CleanStep(s, h[k - 1], k)
  <2>1. k - 1 \in 0 .. len
    BY <1>1
  <2>2. h[k - 1] \in S
    BY <1>12, <2>1
  <2>3. h[k] = F[<<h[k - 1], k>>]
    BY <1>11 DEF Iterates
  <2> QED
    BY <1>5, <2>2, <2>3
<1>14. Cleaning(h, s, C)
  BY <1>1, <1>9, <1>12, <1>13 DEF len, S, Cleaning
<1> QED
  BY <1>14


(* What has been written ends in a gap if its last character is one. *)
LEMMA SplitLast ==
  ASSUME NEW C, NEW s \in Seq(C), s # <<>>
  PROVE  /\ Len(s) \in Nat \ {0} /\ s[Len(s)] \in C
         /\ \E f \in Seq(C) : s = Append(f, s[Len(s)])
<1> DEFINE f == [i \in 1 .. (Len(s) - 1) |-> s[i]]
<1>1. Len(s) \in Nat \ {0} /\ Len(s) - 1 \in Nat /\ \A k \in 1 .. Len(s) : s[k] \in C
  OBVIOUS
<1>2. f \in Seq(C) /\ Len(f) = Len(s) - 1 /\ \A i \in 1 .. (Len(s) - 1) : f[i] = s[i]
  <2>1. \A i \in 1 .. (Len(s) - 1) : f[i] = s[i] /\ s[i] \in C
    BY <1>1
  <2>2. f = [i \in 1 .. (Len(s) - 1) |-> f[i]]
    OBVIOUS
  <2> HIDE DEF f
  <2> QED
    BY <1>1, <2>1, <2>2
<1> HIDE DEF f
<1>3. s = Append(f, s[Len(s)])
  BY <1>1, <1>2
<1> QED
  BY <1>1, <1>2, <1>3

LEMMA EndsTwice ==
  ASSUME NEW C, NEW s \in Seq(C), NEW x, Ends(s, <<x, x>>)
  PROVE  s # <<>> /\ s[Len(s)] = x
<1>1. Len(Reverse(<<x, x>>)) = 2 /\ Reverse(<<x, x>>)[1] = x
  BY DEF Reverse
<1>2. Len(Reverse(s)) = Len(s) /\ Len(s) \in Nat
  BY DEF Reverse
<1>3. Len(s) >= 2 /\ SubSeq(Reverse(<<x, x>>), 1, 2)[1] = SubSeq(Reverse(s), 1, 2)[1]
  BY <1>1, <1>2 DEF Ends, IsSuffix, IsPrefix
<1>4. Reverse(s)[1] = s[Len(s)]
  BY <1>2, <1>3 DEF Reverse
<1>5. SubSeq(Reverse(s), 1, 2)[1] = Reverse(s)[1]
  BY <1>2, <1>3 DEF Reverse
<1>6. SubSeq(Reverse(<<x, x>>), 1, 2)[1] = x
  BY <1>1 DEF Reverse
<1> QED
  BY <1>2, <1>3, <1>4, <1>5, <1>6

LEMMA MarkLast ==
  ASSUME NEW C, NEW o \in Seq(C), o # <<>>, o[Len(o)] \in Blank
  PROVE  AtGap(MarksOf(o))
<1>1. PICK f \in Seq(C) : o = Append(f, o[Len(o)])
  BY SplitLast
<1> DEFINE m == MarksOf(f)
           c == o[Len(o)]
<1>2. c \in C
  BY SplitLast
<1>3. m \in Seq(Outline(C)) /\ MarksOf(o) = Marked(m, c)
  BY <1>1, <1>2, MarkAppend
<1> HIDE DEF m
<1>4. CASE AtGap(m)
  BY <1>3, <1>4, MarkCases
<1>5. CASE ~AtGap(m)
  <2>1. MarksOf(o) = Append(m, "|")
    BY <1>3, <1>5, MarkCases
  <2>2. Append(m, "|")[Len(Append(m, "|"))] = "|"
    BY <1>3
  <2> QED
    BY <2>1, <2>2 DEF AtGap
<1> QED
  BY <1>4, <1>5

LEMMA SpaceLeftOut ==
  ASSUME NEW C, NEW o \in Seq(C), NEW next, NoSpace(o, next)
  PROVE  next \in Newlines \/ AtGap(MarksOf(o))
<1>1. CASE o = <<>>
  BY <1>1, MarkNothing DEF AtGap
<1>2. CASE o # <<>> /\ (Ends(o, <<"sp">>) \/ Ends(o, <<"nl">>))
  <2>1. o[Len(o)] \in Blank
    BY <1>2, EndsWith DEF Blank
  <2> QED
    BY <1>2, <2>1, MarkLast
<1> QED
  BY <1>1, <1>2 DEF NoSpace

LEMMA NewlineLeftOut ==
  ASSUME NEW C, NEW o \in Seq(C), NoNewline(o)
  PROVE  AtGap(MarksOf(o)) \/ Len(MarksOf(o)) = 1
<1>1. CASE o = <<>>
  BY <1>1, MarkNothing DEF AtGap
<1>2. CASE Len(o) = 1
  <2>0. o # <<>>
    BY <1>2
  <2>1. PICK f \in Seq(C) : o = Append(f, o[1])
    BY <1>2, <2>0, SplitLast
  <2>2. f = <<>> /\ o[1] \in C
    <3>1. Len(f) = 0
      <4>1. Len(o) = Len(f) + 1 /\ Len(f) \in Nat /\ Len(o) \in Nat
        BY <2>1
      <4>2. \A x \in Nat : x + 1 = 1 => x = 0
        OBVIOUS
      <4> QED
        BY <1>2, <4>1, <4>2, Zenon
    <3> QED
      BY <1>2, <3>1
  <2>3. <<>> \in Seq(Outline(C)) /\ <<>> \in Seq(C) /\ AtGap(<<>>)
    BY DEF AtGap
  <2>4. MarksOf(o) = Marked(<<>>, o[1])
    BY <2>1, <2>2, <2>3, MarkAppend, MarkNothing
  <2>5. Marked(<<>>, o[1]) \in {<<>>, Append(<<>>, o[1])}
    BY <2>3, MarkCases
  <2>6. Len(Append(<<>>, o[1])) = 1
    OBVIOUS
  <2> QED
    BY <2>3, <2>4, <2>5, <2>6
<1>3. CASE Ends(o, <<"nl", "nl">>)
  <2>1. o # <<>> /\ o[Len(o)] = "nl"
    BY <1>3, EndsTwice
  <2>2. "nl" \in Blank
    BY DEF Blank
  <2> QED
    BY <2>1, <2>2, MarkLast
<1> QED
  BY <1>1, <1>2, <1>3 DEF NoNewline, Short

(* A gap behind the first character. *)
Early(m) == Len(m) >= 2 /\ m[2] = "|"

LEMMA EarlyStays ==
  ASSUME NEW C, NEW m \in Seq(Outline(C)), NEW c, Early(m)
  PROVE  Early(Marked(m, c))
<1>1. Marked(m, c) \in {m, Append(m, c), Append(m, "|")}
  BY DEF Marked
<1>2. ASSUME NEW x PROVE Early(Append(m, x))
  <2>1. Len(m) \in Nat /\ Len(m) >= 2 /\ m[2] = "|"
    BY DEF Early
  <2>2. Len(Append(m, x)) = Len(m) + 1 /\ Append(m, x)[2] = m[2]
    BY <2>1
  <2> QED
    BY <2>1, <2>2 DEF Early
<1> QED
  BY <1>1, <1>2

(* What has been written looks like what has been read, m, up to a gap that *)
(* the next character, c, makes.                                           *)
LooksAlike(c, a, m) ==
  \/ Early(m)
  \/ MarksOf(a.out) = m /\ (a.skip = 1 => c = "inv")
  \/ /\ a.skip = 0 /\ c \in Newlines
     /\ ~AtGap(MarksOf(a.out)) /\ m = Append(MarksOf(a.out), "|")

LEMMA StaysAlike ==
  ASSUME NEW C, {"ctl", "tab"} \cap C = {}, Ordinary(C), NEW s \in Seq(C), NEW i \in 1 .. Len(s),
         NEW a \in CleanState(C), NEW m \in Seq(Outline(C)), LooksAlike(s[i], a, m)
  PROVE  LooksAlike(Follower(s, i), CleanStep(s, a, i), Marked(m, s[i]))
<1> DEFINE c == s[i]
           next == Follower(s, i)
           o == a.out
           mo == MarksOf(o)
           b == CleanStep(s, a, i)
<1>1. c \in C /\ o \in Seq(C) /\ a.skip \in {0, 1} /\ c \notin {"ctl", "tab"}
  BY DEF CleanState
<1>2. mo \in Seq(Outline(C)) /\ \A x \in C : MarksOf(Append(o, x)) = Marked(mo, x)
  BY <1>1, MarkAppend
<1>3. \A x : Kept(a, x).out = Append(o, x) /\ Kept(a, x).skip = 0
  BY DEF Kept
<1>4. /\ {"sp", "nbsp"} \cup Newlines \subseteq Blank
      /\ "sp" \in C /\ "nl" \in C /\ "inv" \in Hidden /\ "inv" \notin Newlines
      /\ \A x, y \in Blank : Marked(mo, x) = Marked(mo, y)
  BY DEF Blank, Newlines, Ordinary, Hidden, Marked
<1>11. {c, next} \cap {"wj", "stop"} = {}
  BY NextOrdinary
<1>5. ASSUME NEW z, MarksOf(z.out) = Marked(m, c), z.skip = 0, b = z
      PROVE  LooksAlike(next, b, Marked(m, c))
  BY <1>5 DEF LooksAlike
<1>6. ~AtGap(mo) /\ Len(mo) = 1 => Early(Append(mo, "|"))
  <2> HIDE DEF mo
  <2>1. ASSUME Len(mo) = 1 PROVE Early(Append(mo, "|"))
    <3>1. /\ Len(mo) \in Nat /\ Len(Append(mo, "|")) = Len(mo) + 1
          /\ Append(mo, "|")[Len(mo) + 1] = "|"
      BY <1>2
    <3>2. Len(mo) + 1 = 2
      BY <2>1
    <3> QED
      BY <3>1, <3>2 DEF Early
  <2> QED
    BY <2>1
<1>0. LooksAlike(c, a, m)
  OBVIOUS
<1> SUFFICES LooksAlike(next, b, Marked(m, c))
  OBVIOUS
<1> HIDE DEF c, next, o, mo, b
<1>7. CASE Early(m)
  BY <1>7, EarlyStays DEF LooksAlike
<1>8. CASE mo = m /\ a.skip = 1 /\ c = "inv"
  <2>1. b = Skipped(o, 0)
    BY <1>8, <1>11, CleanCases DEF b, o, c, next
  <2>2. Marked(m, c) = m
    BY <1>4, <1>8, MarkCases
  <2>3. b.out = o /\ b.skip = 0
    BY <2>1 DEF Skipped
  <2> QED
    BY <1>8, <2>2, <2>3 DEF LooksAlike, mo
<1>9. CASE mo = m /\ a.skip = 0
  <2>1. CASE c = "inv"
    <3>1. Marked(m, c) = m
      BY <1>4, <2>1, MarkCases
    <3>2. b = IF next \in {"sp", "nbsp", "nl", "nel"} THEN a
              ELSE IF next = "inv" THEN Skipped(o, 1) ELSE Kept(a, c)
      BY <1>9, <1>11, <2>1, CleanCases DEF b, o, c, next
    <3>3. MarksOf(b.out) = m /\ (b.skip = 1 => next = "inv")
      <4>1. CASE next \in {"sp", "nbsp", "nl", "nel"}
        BY <1>9, <3>2, <4>1 DEF o, mo
      <4>2. CASE next = "inv"
        <5>1. b = Skipped(o, 1)
          BY <3>2, <4>2
        <5> QED
          BY <1>9, <4>2, <5>1 DEF mo, Skipped
      <4>3. CASE next \notin {"sp", "nbsp", "nl", "nel", "inv"}
        <5>1. b = Kept(a, c)
          BY <3>2, <4>3
        <5>2. b.skip = 0 /\ b.out = Append(o, c)
          BY <1>3, <5>1, Zenon
        <5>3. MarksOf(b.out) = m
          BY <1>1, <1>2, <1>9, <3>1, <5>2, Zenon
        <5> QED
          BY <5>2, <5>3
      <4> QED
        BY <4>1, <4>2, <4>3
    <3> QED
      BY <3>1, <3>3 DEF LooksAlike
  <2>2. CASE c \in {"sp", "nbsp"}
    <3>1. b = IF NoSpace(o, next) THEN a ELSE Kept(a, "sp")
      BY <1>9, <1>11, <2>2, CleanCases DEF b, o, c, next
    <3>2. CASE ~NoSpace(o, next)
      <4>1. Marked(mo, "sp") = Marked(mo, c)
        BY <1>4, <2>2
      <4> QED
        BY <1>2, <1>3, <1>4, <1>5, <1>9, <3>1, <3>2, <4>1
    <3>3. CASE NoSpace(o, next) /\ AtGap(m)
      <4>1. Marked(m, c) = m
        BY <1>4, <2>2, <3>3, MarkCases
      <4> QED
        BY <1>9, <3>1, <3>3, <4>1 DEF LooksAlike, mo, o
    <3>4. CASE NoSpace(o, next) /\ ~AtGap(m)
      <4>1. next \in Newlines
        BY <1>1, <1>9, <3>4, SpaceLeftOut DEF mo
      <4>2. Marked(m, c) = Append(m, "|")
        BY <1>4, <2>2, <3>4, MarkCases
      <4> QED
        BY <1>9, <3>1, <3>4, <4>1, <4>2 DEF LooksAlike, mo, o
    <3> QED
      BY <3>2, <3>3, <3>4
  <2>3. CASE c \in Newlines
    <3>1. b = IF NoNewline(o) THEN a ELSE Kept(a, "nl")
      BY <1>9, <1>11, <2>3, CleanCases DEF b, o, c, next
    <3>2. CASE ~NoNewline(o)
      <4>1. Marked(mo, "nl") = Marked(mo, c)
        BY <1>4, <2>3 DEF Newlines
      <4> QED
        BY <1>2, <1>3, <1>4, <1>5, <1>9, <3>1, <3>2, <4>1
    <3>3. CASE NoNewline(o) /\ AtGap(m)
      <4>1. Marked(m, c) = m
        BY <1>4, <2>3, <3>3, MarkCases
      <4> QED
        BY <1>9, <3>1, <3>3, <4>1 DEF LooksAlike, mo, o
    <3>4. CASE NoNewline(o) /\ ~AtGap(m)
      <4>1. Len(mo) = 1
        BY <1>1, <1>9, <3>4, NewlineLeftOut DEF mo
      <4>2. Marked(m, c) = Append(m, "|")
        BY <1>4, <2>3, <3>4, MarkCases
      <4> QED
        BY <1>6, <1>9, <3>4, <4>1, <4>2 DEF LooksAlike
    <3> QED
      BY <3>2, <3>3, <3>4
  <2>4. CASE c \notin {"inv", "sp", "nbsp"} \cup Newlines
    <3>1. b = Kept(a, c)
      BY <1>9, <1>11, <2>4, CleanCases DEF b, o, c, next
    <3> QED
      BY <1>1, <1>2, <1>3, <1>5, <1>9, <3>1
  <2> QED
    BY <2>1, <2>2, <2>3, <2>4
<1>10. CASE a.skip = 0 /\ c \in Newlines /\ ~AtGap(mo) /\ m = Append(mo, "|")
  <2>1. b = IF NoNewline(o) THEN a ELSE Kept(a, "nl")
    BY <1>10, <1>11, CleanCases DEF b, o, c, next
  <2>2. AtGap(m)
    <3>1. Append(mo, "|")[Len(Append(mo, "|"))] = "|"
      BY <1>2
    <3> QED
      BY <1>10, <3>1 DEF AtGap
  <2>3. Marked(m, c) = m
    BY <1>4, <1>10, <2>2, MarkCases
  <2>4. Marked(mo, c) = m /\ Marked(mo, "nl") = m
    BY <1>2, <1>4, <1>10, MarkCases DEF Newlines
  <2>5. CASE ~NoNewline(o)
    BY <1>2, <1>3, <1>4, <1>5, <2>1, <2>3, <2>4, <2>5
  <2>6. CASE NoNewline(o)
    <3>1. Len(mo) = 1
      BY <1>1, <1>10, <2>6, NewlineLeftOut DEF mo
    <3> QED
      BY <1>6, <1>10, <2>3, <3>1 DEF LooksAlike
  <2> QED
    BY <2>5, <2>6
<1> QED
  BY <1>0, <1>1, <1>7, <1>8, <1>9, <1>10 DEF LooksAlike, o, mo

(* removeControlChars: a text without them looks the same. *)
Controlled(C) == (C \ {"ctl", "tab"}) \cup {"sp", "nl"}

LEMMA ControlCharsRemoved ==
  ASSUME NEW C, NEW t \in Seq(C)
  PROVE  /\ removeControlChars(t) \in Seq(Controlled(C))
         /\ MarksOf(removeControlChars(t)) = MarksOf(t)
<1> DEFINE len == Len(t)
           D == Controlled(C)
           p == [i \in DOMAIN t |->
                   IF t[i] = "ctl" THEN <<>> ELSE IF t[i] = "tab" THEN <<"sp">> ELSE <<t[i]>>]
<1>1. len \in Nat /\ DOMAIN t = 1 .. len /\ \A k \in 1 .. len : t[k] \in C
  OBVIOUS
<1>2. ASSUME NEW k \in DOMAIN t PROVE p[k] \in Seq(D)
  <2>1. CASE t[k] = "ctl"
    BY <2>1
  <2>2. CASE t[k] = "tab"
    <3>1. p[k] = <<"sp">> /\ "sp" \in D
      BY <2>2 DEF Controlled
    <3> HIDE DEF p, D
    <3> QED
      BY <3>1
  <2>3. CASE t[k] \notin {"ctl", "tab"}
    <3>1. p[k] = <<t[k]>> /\ t[k] \in D
      BY <1>1, <2>3 DEF Controlled
    <3> HIDE DEF p, D
    <3> QED
      BY <3>1
  <2> QED
    BY <2>1, <2>2, <2>3
<1>3. \A k \in 1 .. len : p[k] = IF t[k] = "ctl" THEN <<>> ELSE IF t[k] = "tab" THEN <<"sp">> ELSE <<t[k]>>
  BY <1>1
<1>4. removeControlChars(t) = FlattenSeq(p) /\ p = [i \in 1 .. len |-> p[i]]
  BY <1>1 DEF removeControlChars, Flat
<1> HIDE DEF p, D, len
<1>5. p \in Seq(Seq(D)) /\ Len(p) = len
  BY <1>1, <1>2, <1>4
<1>6. PICK j : Joins(j, p, D)
  BY <1>5, FlatInOrder
<1>7. PICK h : Marking(h, t, C)
  BY MarkInOrder
<1>8. /\ \A k \in 0 .. len : j[k] \in Seq(D) /\ h[k] \in Seq(Outline(C))
      /\ j[0] = <<>> /\ h[0] = <<>>
      /\ \A k \in 1 .. len : j[k] = j[k - 1] \o p[k] /\ h[k] = Marked(h[k - 1], t[k])
      /\ removeControlChars(t) = j[len] /\ MarksOf(t) = h[len]
  <2>1. /\ j \in [0 .. len -> Seq(D)] /\ j[0] = <<>>
        /\ \A k \in 1 .. len : j[k] = j[k - 1] \o p[k]
        /\ FlattenSeq(p) = j[len]
    BY <1>5, <1>6 DEF Joins
  <2>2. /\ h \in [0 .. len -> Seq(Outline(C))] /\ h[0] = <<>>
        /\ \A k \in 1 .. len : h[k] = Marked(h[k - 1], t[k])
        /\ MarksOf(t) = h[len]
    BY <1>7 DEF Marking, len
  <2> QED
    BY <1>4, <2>1, <2>2
<1> DEFINE T == {k \in 0 .. len : MarksOf(j[k]) = h[k]}
<1>9. 0 \in T
  BY <1>1, <1>8, MarkNothing
<1>10. ASSUME NEW k \in 1 .. len, k - 1 \in T PROVE k \in T
  <2> DEFINE c == t[k]
             w == j[k - 1]
             m == h[k - 1]
  <2>1. /\ k - 1 \in 0 .. len /\ k \in 0 .. len
        /\ w \in Seq(D) /\ m \in Seq(Outline(C)) /\ MarksOf(w) = m
    BY <1>1, <1>8, <1>10
  <2>2. j[k] = w \o p[k] /\ h[k] = Marked(m, c)
    BY <1>8
  <2>3. p[k] = IF c = "ctl" THEN <<>> ELSE IF c = "tab" THEN <<"sp">> ELSE <<c>>
    BY <1>3
  <2>4. c \in C
    BY <1>1
  <2>5. \A x : w \o <<x>> = Append(w, x)
    BY <2>1
  <2> HIDE DEF c, w, m
  <2>6. MarksOf(j[k]) = h[k]
    <3>1. CASE c = "ctl"
      <4>1. w \o <<>> = w
        BY <2>1, ConcatEmptySeq
      <4>2. Marked(m, c) = m
        BY <3>1 DEF Marked, Hidden
      <4> QED
        BY <2>1, <2>2, <2>3, <3>1, <4>1, <4>2
    <3>2. CASE c = "tab"
      <4>1. "sp" \in D
        BY DEF D, Controlled
      <4>2. MarksOf(Append(w, "sp")) = Marked(m, "sp")
        BY <2>1, <4>1, MarkAppend
      <4>3. Marked(m, "sp") = Marked(m, c)
        BY <3>2 DEF Marked, Blank, Hidden
      <4> QED
        BY <2>2, <2>3, <2>5, <3>2, <4>2, <4>3
    <3>3. CASE c \notin {"ctl", "tab"}
      <4>1. c \in D
        BY <2>4, <3>3 DEF D, Controlled
      <4>2. MarksOf(Append(w, c)) = Marked(m, c)
        BY <2>1, <4>1, MarkAppend
      <4>3. p[k] = <<c>>
        BY <2>3, <3>3
      <4> QED
        BY <2>2, <2>5, <4>2, <4>3
    <3> QED
      BY <3>1, <3>2, <3>3
  <2> QED
    BY <2>1, <2>6
<1>11. len \in T
  <2> HIDE DEF T
  <2>1. \A k \in 0 .. len : k \in T
    BY <1>1, <1>9, <1>10, NumbersReached
  <2> QED
    BY <1>1, <2>1
<1>12. len \in 0 .. len
  BY <1>1
<1> QED
  BY <1>8, <1>11, <1>12 DEF D

(* The loop of cleanText: what it writes looks like what it has read, unless *)
(* there is a gap behind the first character.                              *)
LEMMA CleanedAlike ==
  ASSUME NEW C, {"ctl", "tab"} \cap C = {}, Ordinary(C), NEW s \in Seq(C)
  PROVE  /\ Cleaned(s) \in Seq(C)
         /\ Early(MarksOf(s)) \/ MarksOf(Cleaned(s)) = MarksOf(s)
<1> DEFINE len == Len(s)
<1>1. len \in Nat /\ len \in 0 .. len
  OBVIOUS
<1>2. PICK h : Cleaning(h, s, C)
  BY CleanInOrder
<1>3. PICK m : Marking(m, s, C)
  BY MarkInOrder
<1>4. /\ \A k \in 0 .. len : h[k] \in CleanState(C) /\ m[k] \in Seq(Outline(C))
      /\ h[0] = CleanBegin /\ m[0] = <<>>
      /\ \A k \in 1 .. len : h[k] = CleanStep(s, h[k - 1], k) /\ m[k] = Marked(m[k - 1], s[k])
      /\ Cleaned(s) = h[len].out /\ MarksOf(s) = m[len]
  <2>1. /\ h \in [0 .. len -> CleanState(C)] /\ h[0] = CleanBegin
        /\ \A k \in 1 .. len : h[k] = CleanStep(s, h[k - 1], k)
        /\ Cleaned(s) = h[len].out
    BY <1>2 DEF Cleaning
  <2>2. /\ m \in [0 .. len -> Seq(Outline(C))] /\ m[0] = <<>>
        /\ \A k \in 1 .. len : m[k] = Marked(m[k - 1], s[k])
        /\ MarksOf(s) = m[len]
    BY <1>3 DEF Marking
  <2> HIDE DEF len
  <2> QED
    BY <2>1, <2>2
<1> DEFINE T == {k \in 0 .. len : LooksAlike(Follower(s, k), h[k], m[k])}
<1>5. 0 \in T
  <2>1. MarksOf(h[0].out) = m[0] /\ h[0].skip = 0
    BY <1>4, MarkNothing DEF CleanBegin
  <2> QED
    BY <1>1, <2>1 DEF LooksAlike
<1>6. ASSUME NEW k \in 1 .. len, k - 1 \in T PROVE k \in T
  <2>1. k - 1 \in 0 .. len /\ k \in 0 .. len /\ k - 1 < len /\ (k - 1) + 1 = k
    BY <1>1
  <2>2. Follower(s, k - 1) = s[k]
    BY <2>1 DEF Follower
  <2>3. LooksAlike(s[k], h[k - 1], m[k - 1])
    BY <1>6, <2>2
  <2>4. h[k - 1] \in CleanState(C) /\ m[k - 1] \in Seq(Outline(C))
    BY <1>4, <2>1
  <2>5. LooksAlike(Follower(s, k), CleanStep(s, h[k - 1], k), Marked(m[k - 1], s[k]))
    BY <2>3, <2>4, StaysAlike
  <2>6. h[k] = CleanStep(s, h[k - 1], k) /\ m[k] = Marked(m[k - 1], s[k])
    BY <1>4
  <2> QED
    BY <2>1, <2>5, <2>6
<1>7. len \in T
  <2> HIDE DEF T, len
  <2>1. \A k \in 0 .. len : k \in T
    BY <1>1, <1>5, <1>6, NumbersReached
  <2> QED
    BY <1>1, <2>1
<1>8. Follower(s, len) = "end"
  BY <1>1 DEF Follower
<1>9. LooksAlike("end", h[len], m[len])
  BY <1>7, <1>8
<1>10. h[len].out \in Seq(C)
  <2> HIDE DEF len
  <2> QED
    BY <1>1, <1>4 DEF CleanState
<1>11. "end" \notin Newlines /\ "end" # "inv"
  BY DEF Newlines
<1>12. Early(m[len]) \/ MarksOf(h[len].out) = m[len]
  BY <1>9, <1>11, Zenon DEF LooksAlike
<1> HIDE DEF len, T
<1> QED
  BY <1>4, <1>10, <1>12

(* Without a gap at the end. *)
Cut(m) == IF Ends(m, <<"|">>) THEN Front(m) ELSE m

LEMMA CutCases ==
  ASSUME NEW V, NEW m \in Seq(V)
  PROVE  /\ AtGap(m) \/ Cut(m) = m
         /\ Cut(<<>>) = <<>>
         /\ Cut(Append(m, "|")) = m
<1>1. ~AtGap(m) => Cut(m) = m
  BY EndsWith DEF Cut, AtGap
<1>2. ~Ends(<<>>, <<"|">>)
  <2>1. Len(Reverse(<<>>)) = 0 /\ Len(Reverse(<<"|">>)) = 1
    BY DEF Reverse
  <2>2. ~(Len(Reverse(<<"|">>)) <= Len(Reverse(<<>>)))
    BY <2>1
  <2> QED
    BY <2>2, Zenon DEF Ends, IsSuffix, IsPrefix
<1>3. Ends(Append(m, "|"), <<"|">>)
  <2> DEFINE w == Append(m, "|")
  <2>1. w \in Seq(V \cup {"|"}) /\ w # <<>> /\ w[Len(w)] = "|"
    <3>1. m \in Seq(V \cup {"|"})
      BY SeqMonotonic
    <3> QED
      BY <3>1
  <2> HIDE DEF w
  <2>2. Ends(w, <<"|">>)
    BY <2>1, EndsWith
  <2> QED
    BY <2>2 DEF w
<1>4. Front(Append(m, "|")) = m
  BY DEF Front
<1> QED
  BY <1>1, <1>2, <1>3, <1>4 DEF Cut

LEMMA GapCut ==
  ASSUME NEW C, NEW m \in Seq(Outline(C)), NEW c \in Blank
  PROVE  Cut(Marked(m, c)) = Cut(m)
<1>1. CASE AtGap(m)
  BY <1>1, MarkCases
<1>2. CASE ~AtGap(m)
  BY <1>2, MarkCases, CutCases
<1> QED
  BY <1>1, <1>2

LEMMA TrimmedAlike ==
  ASSUME NEW C, {"cr", "lf"} \cap C = {}, NEW s \in Seq(C)
  PROVE  Cut(MarksOf(Trimmed(s))) = Cut(MarksOf(s))
<1> DEFINE len == Len(s)
           full == {i \in DOMAIN s : s[i] \notin {"sp", "nl", "cr", "lf"}}
           last == IF full = {} THEN 0 ELSE CHOOSE i \in full : \A j \in full : j <= i
           P(k) == SubSeq(s, 1, k)
           T == {k \in 0 .. len : last <= k => Cut(MarksOf(P(k))) = Cut(MarksOf(P(last)))}
<1>1. len \in Nat /\ DOMAIN s = 1 .. len /\ \A k \in 1 .. len : s[k] \in C
  OBVIOUS
<1>2. Trimmed(s) = P(last)
  BY DEF Trimmed
<1>3. last \in 0 .. len /\ \A j \in 1 .. len : last < j => s[j] \in Blank
  <2>1. CASE full = {}
    <3>1. last = 0
      BY <2>1
    <3>2. ASSUME NEW j \in 1 .. len PROVE s[j] \in Blank
      BY <1>1, <2>1 DEF Blank
    <3> HIDE DEF last, full
    <3> QED
      BY <1>1, <3>1, <3>2
  <2>2. CASE full # {}
    <3>1. full \subseteq 1 .. len
      BY <1>1
    <3>2. Max(full) \in full /\ \A y \in full : y <= Max(full)
      <4> HIDE DEF full, len
      <4> QED
        BY <1>1, <2>2, <3>1, MaxOfRange
    <3>3. last \in full /\ \A j \in full : j <= last
      <4>1. last = CHOOSE i \in full : \A j \in full : j <= i
        BY <2>2
      <4> HIDE DEF full, last
      <4> QED
        BY <3>2, <4>1
    <3>4. last \in 1 .. len
      BY <3>1, <3>3
    <3>5. ASSUME NEW j \in 1 .. len, last < j PROVE s[j] \in Blank
      <4> HIDE DEF last
      <4>1. j \notin full
        <5> HIDE DEF full
        <5> QED
          BY <1>1, <3>3, <3>4, <3>5
      <4> QED
        BY <1>1, <4>1 DEF Blank
    <3> HIDE DEF last, full
    <3> QED
      BY <1>1, <3>4, <3>5
  <2> QED
    BY <2>1, <2>2
<1>4. \A k \in 0 .. len : P(k) \in Seq(C)
  <2> SUFFICES ASSUME NEW k \in 0 .. len PROVE P(k) \in Seq(C)
    OBVIOUS
  <2>1. \A i \in 1 .. k : s[i] \in C
    BY <1>1
  <2>2. k \in Int /\ 1 \in Int
    OBVIOUS
  <2> QED
    BY <2>1, <2>2, SubSeqProperties
<1>5. ASSUME NEW k \in 1 .. len PROVE P(k) = Append(P(k - 1), s[k])
  <2>1. \A i \in 1 .. k : s[i] \in C
    BY <1>1
  <2>2. k - 1 \in 0 .. len /\ k \in Nat
    BY <1>1
  <2> QED
    BY <1>1, <2>1, <2>2
<1>6. P(len) = s
  BY <1>1
<1> HIDE DEF P, full, last, len
<1>7. 0 \in T
  <2>1. last <= 0 => last = 0
    BY <1>1, <1>3
  <2> QED
    BY <1>1, <2>1
<1>8. ASSUME NEW k \in 1 .. len, k - 1 \in T PROVE k \in T
  <2>1. k - 1 \in 0 .. len /\ k \in 0 .. len
    BY <1>1
  <2>2. CASE last = k
    BY <2>1, <2>2
  <2>3. CASE last < k
    <3>1. last <= k - 1 /\ s[k] \in Blank /\ s[k] \in C /\ P(k - 1) \in Seq(C)
      BY <1>1, <1>3, <1>4, <2>1, <2>3
    <3>2. /\ MarksOf(P(k - 1)) \in Seq(Outline(C))
          /\ MarksOf(P(k)) = Marked(MarksOf(P(k - 1)), s[k])
      BY <1>5, <3>1, MarkAppend
    <3>3. Cut(MarksOf(P(k))) = Cut(MarksOf(P(k - 1)))
      BY <3>1, <3>2, GapCut
    <3>4. Cut(MarksOf(P(k - 1))) = Cut(MarksOf(P(last)))
      BY <1>8, <3>1
    <3> QED
      BY <2>1, <3>3, <3>4
  <2>4. CASE k < last
    <3>1. ~(last <= k)
      BY <1>1, <1>3, <2>1, <2>4
    <3> QED
      BY <2>1, <3>1
  <2> QED
    BY <1>3, <2>1, <2>2, <2>3, <2>4
<1>9. len \in T
  <2> HIDE DEF T
  <2>1. \A k \in 0 .. len : k \in T
    BY <1>1, <1>7, <1>8, NumbersReached
  <2> QED
    BY <1>1, <2>1
<1> QED
  BY <1>1, <1>2, <1>3, <1>6, <1>9

(* removeControlChars and cleanText: the words of a text of any length stay *)
(* complete and apart, whatever spaces, newlines and invisible characters  *)
(* other than U+2060 are between them, if the first has more than one      *)
(* character and none is of those that charSpace takes for a space.        *)
THEOREM WordsAlwaysKept == TextsSpec => []WordsKept
<1>1. TextOK => WordsKept
  <2> SUFFICES ASSUME TextOK, kind = "plain", {"wj", "stop"} \cap ToSet(text) = {},
                      Len(Skeleton(text)) > 1, Skeleton(text)[2] # "|"
               PROVE  Skeleton(PlainText) = Skeleton(text)
    BY DEF WordsKept
  <2> DEFINE C == Items["plain"] \ {"wj", "stop"}
             D == Controlled(C)
             u == removeControlChars(text)
             m == MarksOf(text)
  <2>1. text \in Seq(C)
    <3>1. text \in Seq(Items["plain"])
      BY DEF TextOK, Encoded
    <3>2. ASSUME NEW i \in 1 .. Len(text) PROVE text[i] \in C
      <4>1. text[i] \in Items["plain"] /\ text[i] \in ToSet(text)
        BY <3>1 DEF ToSet
      <4> QED
        BY <4>1
    <3>3. Len(text) \in Nat /\ text = [i \in 1 .. Len(text) |-> text[i]]
      BY <3>1
    <3> HIDE DEF C
    <3> QED
      BY <3>2, <3>3, IsASeq
  <2>2. u \in Seq(D) /\ MarksOf(u) = m /\ m \in Seq(Outline(C))
    <3>1. PICK h : Marking(h, text, C)
      BY <2>1, MarkInOrder
    <3>2. m \in Seq(Outline(C))
      <4>1. Len(text) \in 0 .. Len(text)
        BY <2>1
      <4> QED
        BY <3>1, <4>1 DEF Marking
    <3> QED
      BY <2>1, <3>2, ControlCharsRemoved
  <2>3. {"ctl", "tab"} \cap D = {} /\ {"cr", "lf"} \cap D = {} /\ Ordinary(D)
    BY TextsAssumption DEF Controlled, Ordinary
  <2>4. \A t : Skeleton(t) = Cut(MarksOf(t))
    BY DEF Skeleton, Cut, MarksOf
  <2>5. cleanText(u) = Trimmed(Cleaned(u))
    BY DEF cleanText, Cleaned, CleanBegin
  <2>6. PlainText = cleanText(u)
    BY DEF PlainText
  <2>7. Len(Cut(m)) > 1 /\ Cut(m)[2] # "|"
    BY <2>4
  <2> HIDE DEF u, m, D, C
  <2>8. ~Early(m)
    <3> SUFFICES ASSUME Early(m) PROVE FALSE
      OBVIOUS
    <3>1. Len(m) \in Nat /\ Len(m) >= 2 /\ m[2] = "|" /\ m # <<>>
      BY <2>2 DEF Early
    <3>2. CASE AtGap(m)
      <4>1. PICK f \in Seq(Outline(C)) : m = Append(f, "|")
        <5>1. m[Len(m)] = "|"
          BY <3>1, <3>2 DEF AtGap
        <5> QED
          BY <2>2, <3>1, <5>1, SplitLast
      <4>2. Cut(m) = f
        BY <4>1, CutCases
      <4>3. Len(f) > 1 => f[2] = m[2]
        BY <4>1
      <4> QED
        BY <2>7, <3>1, <4>2, <4>3
    <3>3. CASE ~AtGap(m)
      <4>1. Cut(m) = m
        BY <2>2, <3>3, CutCases
      <4> QED
        BY <2>7, <3>1, <4>1
    <3> QED
      BY <3>2, <3>3
  <2>9. Cleaned(u) \in Seq(D) /\ MarksOf(Cleaned(u)) = m
    BY <2>2, <2>3, <2>8, CleanedAlike
  <2>10. Cut(MarksOf(Trimmed(Cleaned(u)))) = Cut(m)
    BY <2>3, <2>9, TrimmedAlike
  <2> QED
    BY <2>4, <2>5, <2>6, <2>10 DEF m
<1> QED
  BY <1>1, TextAlwaysOK, PTL
=============================================================================
