------------------------------ MODULE Headers -------------------------------
(***************************************************************************)
(* The headers of a mail in AEM-Deliver: cut off, cleaned in place, and    *)
(* moved one by one to where they are kept.                                *)
(*                                                                         *)
(* "S" is the name of the header that is looked for, "x" any other visible  *)
(* character, "raw" a byte outside of ASCII.  "ew", "ews" and "none" are    *)
(* encoded words (the last one is empty or has no end), "bad" is one that   *)
(* breaks off earlier or is of an unknown form.                            *)
(***************************************************************************)
EXTENDS Integers, Sequences, SequencesExt

Decoded == [ew |-> <<"e">>, ews |-> <<"e", "sp">>, none |-> <<>>]

(* Bytes of a character; an encoded word has more than ten. *)
Size(c) == CASE c = "S" -> 7 [] c \in DOMAIN Decoded -> 10 [] OTHER -> 1

(* s without the spaces at its end, but with all of its first characters.  *)
Unspaced(s, keep) ==
  LET kept == {0} \cup {i \in DOMAIN s : i <= keep \/ s[i] # "sp"}
  IN  SubSeq(s, 1, CHOOSE i \in kept : \A j \in kept : j <= i)

Places(s, needle) ==
  {i \in 1 .. Len(s) - Len(needle) + 1 : SubSeq(s, i, i + Len(needle) - 1) = needle}

(* memmem, memcasemem, memchr: the first of the places. *)
First(P) == CHOOSE i \in P : \A j \in P : i <= j

(* Slip: spaces between encoded words stay. *)
EncodedWordApart(a, word) ==
  [a EXCEPT !.out = @ \o word, !.keep = Len(a.out \o word), !.was = TRUE, !.colon = 1]

(* A word of a header that is encoded: without the spaces between it and    *)
(* one before it.                                                          *)
EncodedWord(a, word) ==
  LET out == IF a.was THEN Unspaced(a.out, a.keep) ELSE a.out
  IN  IF word = <<>> THEN [a EXCEPT !.out = out]
      ELSE [a EXCEPT !.out = out \o word, !.keep = Len(out \o word), !.was = TRUE, !.colon = 1]

(* One round of cleanHeaders' loop over t.  a.colon: -1 in the name of a    *)
(* header, 0 behind the colon, 1 in the value; a.was: nothing visible since *)
(* an encoded word; a.broken: the loop was left.                           *)
HeaderStep(t, a, i) ==
  IF a.broken THEN a ELSE
  CASE t[i] = "bad" ->
         [a EXCEPT !.broken = TRUE, !.out = IF a.was THEN Unspaced(@, a.keep) ELSE @]
    [] t[i] \in DOMAIN Decoded -> EncodedWord(a, Decoded[t[i]])
    [] t[i] = "nl" ->
         IF i < Len(t) /\ t[i + 1] = "sp" THEN a
         ELSE [a EXCEPT !.out = Append(Unspaced(@, 0), "nl"), !.colon = -1]
    [] t[i] = "sp" ->
         IF a.out = <<>> \/ (Last(a.out) # "sp" /\ a.colon > 0)
         THEN [a EXCEPT !.out = Append(@, "sp")] ELSE a
    [] t[i] = ":" /\ a.colon < 0 ->
         [a EXCEPT !.out = Append(@, ":"), !.colon = 0]
    [] t[i] = "raw" -> a
    [] OTHER ->
         [a EXCEPT !.out = Append(@, t[i]), !.was = FALSE, !.colon = IF @ = 0 THEN 1 ELSE @]

cleanHeaders(t) ==
  FoldLeft(LAMBDA a, i : HeaderStep(t, a, i),
           [out |-> <<>>, keep |-> 0, was |-> FALSE, colon |-> -1, broken |-> FALSE],
           [i \in DOMAIN t |-> i]).out

(* getHeaders: what is before the first empty line, if that is five bytes   *)
(* or more.  The stream puts a newline before the mail.                    *)
HeadOf(src) ==
  LET t   == <<"nl">> \o src
      end == Places(t, <<"nl", "nl">>)
  IN  IF end = {} THEN <<>> ELSE SubSeq(t, 1, First(end) - 1)

LongEnough(head) == FoldLeft(LAMBDA n, c : n + Size(c), 0, head) >= 5

getHeaders(src) == IF LongEnough(HeadOf(src)) THEN cleanHeaders(HeadOf(src)) ELSE <<>>

(* The value of the first header of that name, and the others. *)
moveHeader(head, needle) ==
  LET hdr == Places(head, needle)
      end == {i \in DOMAIN head : i >= First(hdr) + Len(needle) /\ head[i] = "nl"}
      to  == IF end = {} THEN Len(head) + 1 ELSE First(end)
  IN  IF hdr = {} THEN [value |-> <<>>, head |-> head]
      ELSE [value |-> SubSeq(head, First(hdr) + Len(needle), to - 1),
            head  |-> SubSeq(head, 1, First(hdr) - 1) \o SubSeq(head, to, Len(head))]

(* processEmail: the subject, and what is left of the headers. *)
Subject(src) == moveHeader(getHeaders(src), <<"nl", "S", ":">>)
=============================================================================
