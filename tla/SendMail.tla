------------------------------ MODULE SendMail ------------------------------
(***************************************************************************)
(* An email to another server: AEM-API asks AEM-Enquiry for the address of *)
(* the mail server (src/api/post.c, send_email), connects to it and sends  *)
(* the mail (src/api/SendMail.c).                                          *)
(*                                                                         *)
(* For each command sendMail receives once.  What it gets is what has      *)
(* arrived: a part of the reply, all of it, or the end of an earlier reply *)
(* as well.  The other server follows the SMTP protocol, but it may refuse *)
(* any command, write a reply of more lines than one, in more pieces than  *)
(* one, and close the connection.                                          *)
(***************************************************************************)
EXTENDS Enquiry

CONSTANTS
  Zones     \* what the DNS holds: mx, and a[host] for the names in it

(* A record of the answer to the request for MX records; an MX has 16 bits *)
(* for its priority.                                                       *)
Record == [type : {"MX", "CNAME", "A", "odd"}, prio : 0 .. MaxPrio,
           host : STRING, broken : BOOLEAN]

ASSUME ZonesAssumption == \A z \in Zones : z.mx \in Seq(Record)

(* The commands, what the reply must begin with, and the error otherwise.   *)
(* The first only waits for the greeting, "shake" is the TLS handshake.    *)
Script ==
  << <<"greet", "220", "GREET">>, <<"EHLO", "250", "EHLO">>,
     <<"STARTTLS", "220", "STLS">>, <<"shake", "", "SHAKE">>,
     <<"EHLO", "250", "EHLO">>, <<"MAIL", "250", "MAIL">>,
     <<"RCPT", "250", "RCPT">>, <<"DATA", "354", "DATA">>,
     <<"body", "250", "BODY">> >>

Command  == {Script[k][1] : k \in DOMAIN Script} \cup {"QUIT"}
Error    == {Script[k][3] : k \in DOMAIN Script} \cup {"NOTLS", "INTERNAL"}
Envelope == {"MAIL", "RCPT", "DATA", "body"}

(* A piece of a reply: its code, if it begins a line, whether that line is  *)
(* not the last of the reply, whether the piece ends with a line, and       *)
(* whether it names STARTTLS.                                              *)
Piece == [code : {"220", "221", "250", "354", "550", ""},
          more : BOOLEAN, crlf : BOOLEAN, tls : BOOLEAN]

VARIABLES
  (* sendMail *)
  zone,      \* what the DNS answers
  ip,        \* email->ip
  n,         \* the place in Script
  at,        \* enquire, connect, send, receive, quit, bye, done, crash, stuck
  result,    \* what sendMail is to return: none, ok or an error
  (* the connection *)
  line,      \* open, closed (by the other side), reset
  wire,      \* pieces on their way to us
  inTls,     \* the handshake is done
  (* the other server *)
  todo,      \* what it has received and not yet replied to
  mode,      \* command or data
  agreed,    \* MAIL and RCPT so far accepted
  accepted   \* it has taken over the mail

client == <<zone, ip, n, at, result>>
server == <<todo, mode, agreed, accepted>>
vars   == <<client, line, wire, inTls, server>>

Init ==
  /\ zone \in Zones
  /\ ip = Failed /\ n = 1 /\ at = "enquire" /\ result = "none"
  /\ line = "open" /\ wire = <<>> /\ inTls = FALSE
  /\ todo = <<>> /\ mode = "command" /\ agreed = {} /\ accepted = FALSE

-----------------------------------------------------------------------------
(* sendMail *)

(* Slip: the way to quit used in the middle of a mail, too, with its end. *)
QuitEnded ==
  /\ at = "quit"
  /\ IF line = "open"
     THEN /\ todo' = todo \o (IF mode = "data" THEN <<"body", "QUIT">> ELSE <<"QUIT">>)
          /\ at' = "bye"
     ELSE at' \in {"bye", "done"} /\ UNCHANGED todo
  /\ UNCHANGED <<zone, ip, n, result, line, wire, inTls, mode, agreed, accepted>>

Enquire ==
  /\ at = "enquire"
  /\ ip' = mailServer(zone.mx, zone.a)
  /\ at' = IF ip' = Failed THEN "done" ELSE "connect"
  /\ result' = IF ip' = Failed THEN "INTERNAL" ELSE "none"
  /\ UNCHANGED <<zone, n, line, wire, inTls, server>>

(* makeSocket; the other server greets. *)
Connect ==
  /\ at = "connect"
  /\ \/ at' = "done" /\ result' = "INTERNAL" /\ UNCHANGED todo
     \/ at' = "receive" /\ todo' = <<"greet">> /\ UNCHANGED result
  /\ UNCHANGED <<zone, ip, n, line, wire, inTls, mode, agreed, accepted>>

(* smtp_send: what is sent on a connection that the other side has closed   *)
(* may still be sent without an error, and resets it.  wolfSSL_write        *)
(* returns 0, not an error, when it finds the connection closed: smtp_send *)
(* tries again, for ever.                                                  *)
Sent(c) == line = "open" /\ todo' = Append(todo, c) /\ UNCHANGED line
Lost    == line = "closed" /\ line' \in {"closed", "reset"} /\ UNCHANGED todo
Stuck   == inTls /\ line # "open" /\ at' = "stuck" /\ UNCHANGED <<line, todo>>

Sending == at = "send" /\ Script[n][1] # "shake"

Send ==
  /\ Sending
  /\ Sent(Script[n][1]) \/ Lost
  /\ at' = "receive"
  /\ UNCHANGED <<zone, ip, n, result, wire, inTls, mode, agreed, accepted>>

SendFails ==
  /\ Sending
  /\ \/ line # "open" /\ at' = "done" /\ result' = Script[n][3] /\ UNCHANGED <<line, todo>>
     \/ Stuck /\ UNCHANGED result
  /\ UNCHANGED <<zone, ip, n, wire, inTls, mode, agreed, accepted>>

(* After DATA: createEmail has no memory, or cannot sign. *)
NotCreated ==
  /\ Sending /\ Script[n][1] = "body"
  /\ at' = "quit" /\ result' = "INTERNAL"
  /\ UNCHANGED <<zone, ip, n, line, wire, inTls, server>>

(* smtp_recv: as many pieces as have arrived. *)
Receiving == at = "receive" /\ wire # <<>>

(* A greeting may have one line only. *)
Good(k) == wire[1].code = Script[n][2] /\ wire[k].crlf /\ (n = 1 => ~wire[1].more)

OffersTls(k) == \E j \in 1 .. k : wire[j].tls

(* Slip: the encryption is not insisted on. *)
AfterPlain(k) ==
  IF ~Good(k) THEN at' = "quit" /\ result' = Script[n][3] /\ n' = n
  ELSE IF n = Len(Script) THEN at' = "quit" /\ result' = "ok" /\ n' = n
  ELSE at' = "send" /\ n' = (IF n = 2 /\ ~OffersTls(k) THEN 6 ELSE n + 1) /\ UNCHANGED result

(* smtpCommand, and what sendMail does with what it returns. *)
After(k) ==
  IF ~Good(k) THEN at' = "quit" /\ result' = Script[n][3] /\ n' = n
  ELSE IF n = 2 /\ ~OffersTls(k) THEN at' = "quit" /\ result' = "NOTLS" /\ n' = n
  ELSE IF n = Len(Script) THEN at' = "quit" /\ result' = "ok" /\ n' = n
  ELSE at' = "send" /\ n' = n + 1 /\ UNCHANGED result

Receive ==
  /\ Receiving
  /\ \E k \in DOMAIN wire : After(k) /\ wire' = SubSeq(wire, k + 1, Len(wire))
  /\ UNCHANGED <<zone, ip, line, inTls, server>>

(* There is nothing more to read, and no error: wolfSSL_read does not tell  *)
(* a connection that was reset from one that was closed.                   *)
NoBytes == wire = <<>> /\ (line = "closed" \/ (inTls /\ line = "reset"))

(* Slip: no reply at all is as good as one. *)
ReceiveEndPasses ==
  /\ at = "receive" /\ NoBytes
  /\ at' = "quit"
  /\ result' = IF n = Len(Script) THEN "ok" ELSE Script[n][3]
  /\ UNCHANGED <<zone, ip, n, line, wire, inTls, server>>

(* The connection was closed: there are no bytes.  If recv finds that it    *)
(* was reset, the length is -1, with which memcpy is called.               *)
ReceiveEnd ==
  /\ at = "receive" /\ NoBytes
  /\ at' = "quit" /\ result' = Script[n][3]
  /\ UNCHANGED <<zone, ip, n, line, wire, inTls, server>>

ReceiveReset ==
  /\ at = "receive" /\ wire = <<>> /\ line = "reset" /\ ~inTls
  /\ at' = "crash"
  /\ UNCHANGED <<zone, ip, n, result, line, wire, inTls, server>>

(* wolfSSL_connect: fails if the rest of a reply comes instead of the       *)
(* handshake.                                                              *)
Handshake ==
  /\ at = "send" /\ Script[n][1] = "shake"
  /\ \/ /\ wire = <<>> /\ line = "open" /\ todo = <<>>
        /\ inTls' = TRUE /\ n' = n + 1 /\ UNCHANGED <<at, result>>
     \/ at' = "quit" /\ result' = "SHAKE" /\ UNCHANGED <<inTls, n>>
  /\ UNCHANGED <<zone, ip, line, wire, server>>

(* smtp_quit: one attempt to send, and one to receive. *)
Quit ==
  /\ at = "quit"
  /\ \/ Sent("QUIT") /\ at' = "bye"
     \/ Lost /\ at' = "bye"
     \/ line # "open" /\ at' = "done" /\ UNCHANGED <<line, todo>>
     \/ Stuck
  /\ UNCHANGED <<zone, ip, n, result, wire, inTls, mode, agreed, accepted>>

Bye ==
  /\ at = "bye"
  /\ wire # <<>> \/ line # "open"
  /\ at' = "done"
  /\ UNCHANGED <<zone, ip, n, result, line, wire, inTls, server>>

Client ==
  \/ Enquire \/ Connect \/ Send \/ SendFails \/ NotCreated \/ Receive
  \/ ReceiveEnd \/ ReceiveReset \/ Handshake \/ Quit \/ Bye

-----------------------------------------------------------------------------
(* The other server. *)

(* A reply with the code c, of one line or of more, in one piece or in two. *)
Reply(c, tls) ==
  LET P(code, more, crlf, t) == [code |-> code, more |-> more, crlf |-> crlf, tls |-> t]
  IN  {<<P(c, m, TRUE, tls)>> : m \in BOOLEAN}
      \cup {<<P(c, FALSE, FALSE, FALSE), P("", FALSE, TRUE, tls)>>}
      \cup {<<P(c, TRUE, TRUE, t), P(c, FALSE, TRUE, tls /\ ~t)>> : t \in {FALSE, tls}}

(* It agrees, or it refuses; a recipient needs a sender, and a mail needs   *)
(* both.                                                                   *)
Agreeable(c) ==
  CASE c = "RCPT" -> "MAIL" \in agreed
    [] c = "DATA" -> "RCPT" \in agreed
    [] c = "body" -> FALSE
    [] OTHER -> TRUE

CodeOf(c) == IF c = "QUIT" THEN "221" ELSE Script[CHOOSE k \in DOMAIN Script : Script[k][1] = c][2]

ServerCommand ==
  /\ line = "open" /\ mode = "command" /\ todo # <<>>
  /\ LET c == Head(todo)
     IN  \/ /\ Agreeable(c)
            /\ \E offer \in IF c = "EHLO" THEN BOOLEAN ELSE {FALSE} :
               \E r \in Reply(CodeOf(c), offer) : wire' = wire \o r
            /\ agreed' = IF c \in {"MAIL", "RCPT"} THEN agreed \cup {c} ELSE agreed
            /\ mode' = IF c = "DATA" THEN "data" ELSE mode
         \/ \E r \in Reply("550", FALSE) : wire' = wire \o r /\ UNCHANGED <<agreed, mode>>
  /\ todo' = Tail(todo)
  /\ UNCHANGED <<client, line, inTls, accepted>>

(* The text of a mail: nothing but its end is a command. *)
ServerText ==
  /\ line = "open" /\ mode = "data" /\ todo # <<>>
  /\ todo' = Tail(todo)
  /\ IF Head(todo) = "body"
     THEN /\ mode' = "command"
          /\ \/ accepted' = TRUE /\ \E r \in Reply("250", FALSE) : wire' = wire \o r
             \/ \E r \in Reply("550", FALSE) : wire' = wire \o r /\ UNCHANGED accepted
     ELSE UNCHANGED <<mode, accepted, wire>>
  /\ UNCHANGED <<client, line, inTls, agreed>>

(* What it has sent may be lost then. *)
ServerCloses ==
  /\ line = "open" /\ at \notin {"enquire", "connect", "done"}
  /\ \/ line' = "closed" /\ UNCHANGED wire
     \/ line' = "reset" /\ wire' = <<>>
  /\ UNCHANGED <<client, inTls, server>>

Server == ServerCommand \/ ServerText

Next == Client \/ Server \/ ServerCloses

Spec == Init /\ [][Next]_vars

-----------------------------------------------------------------------------
(* Correctness. *)

TypeOK ==
  /\ zone \in Zones /\ n \in DOMAIN Script
  /\ at \in {"enquire", "connect", "send", "receive", "quit", "bye", "done", "crash", "stuck"}
  /\ result \in Error \cup {"none", "ok"}
  /\ (at = "done") => result # "none"
  /\ line \in {"open", "closed", "reset"}
  /\ wire \in Seq(Piece) /\ todo \in Seq(Command)
  /\ mode \in {"command", "data"} /\ agreed \subseteq {"MAIL", "RCPT"}
  /\ inTls \in BOOLEAN /\ accepted \in BOOLEAN

(* sendMail returns success only if the other server has taken over the     *)
(* mail, although a reply may be read as the one to the next command.      *)
OkIsAccepted == result = "ok" => accepted

(* If it returns another error than the one for the reply to the mail       *)
(* itself, the other server has not got a mail.                            *)
ErrorIsNotSent == result \in Error \ {"BODY"} => ~accepted

(* The sender, the recipient and the mail are only sent encrypted. *)
EnvelopeEncrypted == \A k \in DOMAIN todo : todo[k] \in Envelope => inTls

(* The address is that of a mail server that none is preferred to, of those *)
(* in an answer that can be read to its end.                               *)
RightServer ==
  ip # Failed /\ (\A k \in DOMAIN zone.mx : zone.mx[k].type \in {"MX", "CNAME"} /\ ~zone.mx[k].broken) =>
    LET MX == {zone.mx[k] : k \in {k \in DOMAIN zone.mx : zone.mx[k].type = "MX"}}
    IN  \E r \in MX : (\A q \in MX : r.prio <= q.prio) /\ ip = queryDns_a(zone.a[r.host])
=============================================================================
