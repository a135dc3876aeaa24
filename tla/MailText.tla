------------------------------ MODULE MailText ------------------------------
(***************************************************************************)
(* What AEM-API, AEM-MTA and AEM-Deliver do to the text of a mail, one     *)
(* function each: dots at the beginning of lines, quoted-printable,        *)
(* base64, and the cleaning of plain text.                                 *)
(***************************************************************************)
EXTENDS Integers, Sequences, SequencesExt

Flat(s) == FlattenSeq(s)

-----------------------------------------------------------------------------
(* Common/Trim.c.  One byte: "sp", "nl", "ctl", "tab" and visible ones.      *)
(* More: "nbsp" is any other space and "nel" any other newline, "inv" an    *)
(* invisible character and "wj" U+2060, which is one too; "stop" is one of  *)
(* those visible characters that charSpace takes for a space (the last     *)
(* byte is compared with >=), "wide" any other visible one.                *)
Invisible == {"inv", "wj"}
Spaces    == {"sp", "nbsp", "wj", "stop"}
Newlines  == {"nl", "nel"}
Wide      == {"inv", "wj", "nbsp", "stop", "nel", "wide"}

removeControlChars(t) ==
  Flat([i \in DOMAIN t |->
          IF t[i] = "ctl" THEN <<>> ELSE IF t[i] = "tab" THEN <<"sp">> ELSE <<t[i]>>])

Ends(s, last) == IsSuffix(last, s)

(* Less than two bytes have been written. *)
Short(out) == out = <<>> \/ (Len(out) = 1 /\ out[1] \notin Wide)

(* Slip: a space before an invisible character. *)
SpaceBeforeInvisible(out, next) ==
  out = <<>> \/ next \in Newlines \cup Invisible \/ Ends(out, <<"sp">>) \/ Ends(out, <<"nl">>)

NoSpace(out, next) ==
  out = <<>> \/ next \in Newlines \/ Ends(out, <<"sp">>) \/ Ends(out, <<"nl">>)

NoNewline(out) == Short(out) \/ Ends(out, <<"nl", "nl">>)

(* One round of cleanText's loop over t.  a.skip: characters that are dealt *)
(* with already; a.raw: bytes that are not looked at (noCheck), beyond      *)
(* those of the character that was let through.  "wj" is let through and   *)
(* then taken for a space, so that these are bytes of what comes next.     *)
CleanStep(t, a, i) ==
  LET c    == t[i]
      next == IF i < Len(t) THEN t[i + 1] ELSE "end"
      To(out, skip, raw) == [out |-> out, skip |-> skip, raw |-> raw]
  IN  IF a.skip > 0 THEN To(a.out, a.skip - 1, a.raw)
      ELSE IF a.raw > 0 THEN To(Append(a.out, c), 0, IF c \in Wide THEN 0 ELSE a.raw - 1)
      ELSE IF c \in Invisible /\ next \in Spaces \cup Newlines THEN To(a.out, 0, 0)
      ELSE IF c \in Invisible /\ next \in Invisible THEN To(a.out, 1, 0)
      ELSE IF c \in Spaces THEN
        To(IF NoSpace(a.out, next) THEN a.out ELSE Append(a.out, "sp"), 0, IF c = "wj" THEN 2 ELSE 0)
      ELSE IF c \in Newlines THEN To(IF NoNewline(a.out) THEN a.out ELSE Append(a.out, "nl"), 0, 0)
      ELSE To(Append(a.out, c), 0, 0)

(* Without the spaces and newlines at the end. *)
Trimmed(s) ==
  LET full == {i \in DOMAIN s : s[i] \notin {"sp", "nl", "cr", "lf"}}
  IN  SubSeq(s, 1, IF full = {} THEN 0 ELSE CHOOSE i \in full : \A j \in full : j <= i)

cleanText(t) ==
  Trimmed(FoldLeft(LAMBDA a, i : CleanStep(t, a, i),
                   [out |-> <<>>, skip |-> 0, raw |-> 0], [i \in DOMAIN t |-> i]).out)

-----------------------------------------------------------------------------
(* Common/QuotedPrintable.c and Common/base64.c, over bytes. *)

LF == 10
TAB == 9
Space == 32
Equals == 61

HexDigit == (48 .. 57) \cup (65 .. 70) \cup (97 .. 102)

Hex(c) == IF c < 58 THEN c - 48 ELSE IF c < 71 THEN c - 55 ELSE c - 87

(* Slip: a byte too early. *)
TooEarly(s, i) == i + 2 >= Len(s)

(* '=' is the last byte of s, or there is only one byte behind it. *)
NoMore(s, i) == i + 1 >= Len(s)

(* One round of decodeQuotedPrintable's loop over s, and the bytes that it  *)
(* goes past besides.                                                      *)
QpStep(s, a, i) ==
  LET h == 16 * Hex(s[i + 1]) + Hex(s[i + 2])
      c == IF h = TAB THEN Space ELSE h
  IN  IF a.skip > 0 THEN [out |-> a.out, skip |-> a.skip - 1]
      ELSE IF s[i] # Equals THEN [out |-> Append(a.out, s[i]), skip |-> 0]
      ELSE IF NoMore(s, i) \/ s[i + 1] = LF THEN [out |-> a.out, skip |-> 1]
      ELSE IF {s[i + 1], s[i + 2]} \subseteq HexDigit THEN
        [out  |-> IF c = LF \/ (c >= 32 /\ c # 127) THEN Append(a.out, c) ELSE a.out,
         skip |-> 2]
      ELSE [out |-> a.out \o SubSeq(s, i, i + 2), skip |-> 2]

decodeQuotedPrintable(s) ==
  FoldLeft(LAMBDA a, i : QpStep(s, a, i),
           [out |-> <<>>, skip |-> 0], [i \in DOMAIN s |-> i]).out

b64_decodeChar(c) ==
  CASE c \in 65 .. 90   -> c - 65
    [] c \in 97 .. 122  -> c - 71
    [] c \in 48 .. 57   -> c + 4
    [] c \in {43, 45}   -> 62
    [] c \in {47, 95}   -> 63
    [] OTHER            -> 255

(* Slip: the short group is left out. *)
GroupsOnly(n) == 3 * (n \div 4)

(* The bytes that n characters make. *)
Bytes(n) == 3 * (n \div 4) + (IF n % 4 > 1 THEN (n % 4) - 1 ELSE 0)

(* The values of the characters that count. *)
Sextets(s) ==
  Flat([i \in DOMAIN s |-> LET v == b64_decodeChar(s[i]) IN IF v < 64 THEN <<v>> ELSE <<>>])

(* aem_base642bin: groups of four of them; the last group may be short.     *)
aem_base642bin(s) ==
  LET x == Sextets(s)
      Byte(n) ==      \* number n, from 0 on, of the result
        LET i == 4 * (n \div 3) + (n % 3) + 1
        IN  CASE n % 3 = 0 -> 4 * x[i] + x[i + 1] \div 16
              [] n % 3 = 1 -> 16 * (x[i] % 16) + x[i + 1] \div 4
              [] n % 3 = 2 -> 64 * (x[i] % 4) + x[i + 1]
  IN  [n \in 1 .. Bytes(Len(x)) |-> Byte(n - 1)]

-----------------------------------------------------------------------------
(* An email from AEM-API to the AEM-MTA and AEM-Deliver of another server.  *)

(* send_email: the body of the request, with its newlines. *)
OutBody(t) ==
  Trimmed(Flat([i \in DOMAIN t |-> IF t[i] = "nl" THEN <<"cr", "lf">> ELSE <<t[i]>>]))
    \o <<"cr", "lf">>

(* Slip: dots are left as they are. *)
Unstuffed(header, body) == header \o <<"cr", "lf">> \o body \o <<".", "cr", "lf">>

(* A dot at the beginning of a line becomes two. *)
Stuff(f, c) == IF c = "." /\ Ends(f, <<"lf">>) THEN f \o <<".", ".">> ELSE Append(f, c)

(* createEmail, from the empty line after the headers on. *)
Stuffed(header, body) ==
  FoldLeft(Stuff, header \o <<"cr", "lf">>, body) \o <<".", "cr", "lf">>

(* respondClient: up to the first "\r\n.\r\n". *)
UpToDot(wire) ==
  LET end == {i \in 1 .. Len(wire) - 4 : SubSeq(wire, i, i + 4) = <<"cr", "lf", ".", "cr", "lf">>}
  IN  SubSeq(wire, 1, (CHOOSE i \in end : \A j \in end : i <= j) - 1)

(* convertLineDots: the second of two dots behind "\r\n" goes, for every    *)
(* place where they are.                                                   *)
convertLineDots(s) ==
  LET two == {i \in 1 .. Len(s) - 3 : SubSeq(s, i, i + 3) = <<"cr", "lf", ".", ".">>}
  IN  Flat([i \in DOMAIN s |-> IF i - 3 \in two THEN <<>> ELSE <<s[i]>>])

Arrived(header, t) ==
  convertLineDots(UpToDot(Stuffed(header, OutBody(t)))) \o <<"cr", "lf">>
=============================================================================
