------------------------------- MODULE Texts --------------------------------
(***************************************************************************)
(* Every short input of the functions of Addr32, MailText, Headers and     *)
(* Html, one character (or, for quoted-printable, one encoded character,   *)
(* for HTML one tag) after the other.                                      *)
(***************************************************************************)
EXTENDS Addr32, MailText, Headers, Html

CONSTANTS
  Items,    \* for each kind of text what it consists of
  Begin,    \* what it begins with
  MaxItems  \* bound of the model: and how long it is at most

(* Plain text, texts in the encodings of mails, and mails with dots at the   *)
(* beginning of lines: they are of any length and begin with nothing else. *)
Encoded == {"plain", "quoted", "base64", "mail"}

(* What an encoder of quoted-printable text writes: a byte as it is, a soft  *)
(* line break, or the number of a byte that belongs in a text.             *)
QuotedPiece(p) ==
  \/ \E c \in (0 .. 255) \ {Equals} : p = <<c>>
  \/ p = <<Equals, LF>>
  \/ \E a, b \in HexDigit :
       p = <<Equals, a, b>> /\ 16 * Hex(a) + Hex(b) \in {LF} \cup ((32 .. 255) \ {127})

ASSUME TextsAssumption ==
  /\ \A k \in Encoded : Begin[k] \subseteq Seq(Items[k])
  /\ \A p \in Items["quoted"] : QuotedPiece(p)
  /\ {"cr", "lf"} \cap (Items["mail"] \cup Items["plain"]) = {}
  /\ \A k \in {"address", "long"} : Items[k] \subseteq STRING /\ Begin[k] \subseteq Seq(STRING)

VARIABLES kind, text

textsVars == <<kind, text>>

TextsInit == kind \in DOMAIN Items /\ text \in Begin[kind]

(* A document is a sequence of tags and characters, <<what, name>>: its      *)
(* elements are closed in the order in which they must be, none is in one  *)
(* of the same mark, and tables and lists have only what belongs in them.  *)
Documents == {"styled", "listed", "tabled"}

Within(doc) ==
  LET Inner(s, e) == CASE e[1] = "open"  -> Append(s, e[2])
                       [] e[1] = "close" -> Front(s)
                       [] OTHER          -> s
  IN  FoldLeft(Inner, <<>>, doc)

Parent == [tr |-> {"table"}, td |-> {"tr"}, li |-> {"ul", "ol"}]

Fits(doc, e) ==
  LET s == Within(doc)
      outer   == IF s = <<>> THEN "body" ELSE Last(s)
      belongs == IF e[2] \in DOMAIN Parent THEN outer \in Parent[e[2]]
                 ELSE outer \notin {"table", "tr", "ul", "ol"}
  IN  IF e[1] = "close" THEN outer = e[2]
      ELSE belongs /\ (e[1] = "open" => \A t \in ToSet(s) : tag2char[t] # tag2char[e[2]])

TextsNext ==
  /\ Len(text) < MaxItems[kind]
  /\ \E c \in Items[kind] :
       /\ kind \in Documents => Fits(text, c)
       /\ text' = Append(text, c)
  /\ UNCHANGED kind

TextsSpec == TextsInit /\ [][TextsNext]_textsVars

-----------------------------------------------------------------------------
(* Correctness. *)

OfAddress == kind \in {"address", "long"}

(* An address of 1 to 15 characters can be read back from its ten bytes, so *)
(* that two addresses are equal only if they mean the same: the shifts of  *)
(* addr32_store put no character over another, and what is not supported   *)
(* before or between the characters does not count.                        *)
AddressRead ==
  OfAddress /\ Len(Supported(text)) \in 1 .. 15 /\ charToAddr32(Last(text)) # Unsupported
    => Read(addr32_store(text)) = Meaning(text)

(* README: "This encoding is case-insensitive, disregards all               *)
(* non-alphanumeric characters".                                           *)
OthersDisregarded ==
  OfAddress => addr32_store(text) = addr32_store(Supported(text))

(* Addr32.c: "Stores 16 characters". *)
SixteenStored ==
  OfAddress /\ Len(Supported(text)) = 16
    => Read(addr32_store(text)) = Meaning(text)

(* The visible characters of a text, with one mark where there is any space *)
(* or newline between two of them.                                         *)
Blank  == {"sp", "nbsp", "nl", "nel", "tab"}
Hidden == {"inv", "wj", "ctl"}

Marked(s, c) ==
  IF c \in Hidden THEN s
  ELSE IF c \in Blank THEN IF s = <<>> \/ Ends(s, <<"|">>) THEN s ELSE Append(s, "|")
  ELSE Append(s, c)

Skeleton(t) ==
  LET s == FoldLeft(Marked, <<>>, t)
  IN  IF Ends(s, <<"|">>) THEN Front(s) ELSE s

PlainText == cleanText(removeControlChars(text))

(* Cleaning keeps the words of a text apart and complete, wherever there    *)
(* are spaces, newlines and invisible characters: if the first word has    *)
(* more than one character, and none is U+2060 or one that is taken for a  *)
(* space (JoinedStayJoined, OnlySpacesReplaced).                           *)
WordsKept ==
  kind = "plain" /\ {"wj", "stop"} \cap ToSet(text) = {} =>
    LET s == Skeleton(text)
    IN  Len(s) > 1 /\ s[2] # "|" => Skeleton(PlainText) = s

(* Trim.c: "Various size spaces", "NARROW NO-BREAK SPACE", "MEDIUM          *)
(* MATHEMATICAL SPACE", "IDEOGRAPHIC SPACE" are what a space is made of: no *)
(* visible character is.                                                   *)
OnlySpacesReplaced ==
  LET Seen(t) == SelectSeq(t, LAMBDA c : c \notin Blank \cup Hidden)
  IN  kind = "plain" => Seen(PlainText) = Seen(text)

(* Trim.c: "Allow through": an invisible character between two visible ones *)
(* does not part them.                                                     *)
JoinedStayJoined ==
  kind = "plain" /\ ToSet(text) \subseteq {"x", "wj"} => Skeleton(PlainText) = Skeleton(text)

(* Trim.c: "This newline is the first character, or is preceded by 2        *)
(* newlines - delete this newline".                                        *)
OnlySuperfluousDeleted ==
  kind = "plain" => Skeleton(PlainText) = Skeleton(text)

(* What one piece of quoted-printable text stands for. *)
Stands(p) ==
  CASE Len(p) = 1 -> p
    [] Len(p) = 2 -> <<>>                                  \* a soft line break
    [] OTHER      -> <<16 * Hex(p[2]) + Hex(p[3])>>

(* Quoted-printable text is decoded to what was encoded, up to its last     *)
(* byte and with soft line breaks anywhere.                                *)
QuotedDecoded ==
  kind = "quoted" =>
    decodeQuotedPrintable(Flat(text)) = Flat([i \in DOMAIN text |-> Stands(text[i])])

(* Base64 text is decoded to its bits, six from each character and with     *)
(* line breaks and padding left out, as far as they fill bytes.            *)
Base64Decoded ==
  kind = "base64" =>
    LET x   == Sextets(text)
        out == aem_base642bin(text)
        At(p) == Bit(x[p \div 6 + 1], 5 - (p % 6))
    IN  /\ Len(out) = (6 * Len(x)) \div 8
        /\ \A n \in DOMAIN out, j \in 0 .. 7 :
             out[n] < 256 /\ (Bit(out[n], 7 - j) <=> At(8 * (n - 1) + j))

(* A body written by a user of one server arrives at a user of another as   *)
(* it was, whatever dots begin its lines or stand in lines of their own.   *)
DotsKept ==
  kind = "mail" => Arrived(<<"h", "cr", "lf">>, text) = <<"h", "cr", "lf", "cr", "lf">> \o OutBody(text)

(* The lines of the headers, unfolded, as what the sender means by them:    *)
(* the spaces between two encoded words are not part of the text.          *)
Lines(src) ==
  LET t == HeadOf(src)
      Folded(i) == t[i] = "nl" /\ i < Len(t) /\ t[i + 1] = "sp"
      Between(i) ==
        t[i] = "sp" /\ \E j \in 1 .. i, k \in i .. Len(t) :
          /\ {t[j], t[k]} \subseteq DOMAIN Decoded
          /\ \A n \in j + 1 .. k - 1 : t[n] \in {"sp", "raw"} \/ Folded(n)
      Means(i) == CASE t[i] = "raw" \/ Folded(i) \/ Between(i) -> <<>>
                    [] t[i] \in DOMAIN Decoded -> Decoded[t[i]]
                    [] OTHER                  -> <<t[i]>>
      line == {i \in DOMAIN t : t[i] = "nl" /\ ~Folded(i)}
      End(i) == IF \E j \in line : i < j THEN Min({j \in line : i < j}) - 1 ELSE Len(t)
      from == SetToSortSeq(line, <)
  IN  [n \in DOMAIN from |-> Flat([i \in 1 .. End(from[n]) - from[n] |-> Means(from[n] + i)])]

NoSpaces(s) == SelectSeq(s, LAMBDA c : c # "sp")

(* One space for several, none at both ends. *)
Tidy(s) ==
  LET one == FoldLeft(LAMBDA f, c : IF c = "sp" /\ (f = <<>> \/ Last(f) = "sp") THEN f ELSE Append(f, c),
                      <<>>, s)
  IN  Unspaced(one, 0)

(* The subject of a mail is the text of the first header of that name,      *)
(* wherever the header stands, however it is folded, encoded and spaced,   *)
(* and the other headers stay complete and in their order.                 *)
SubjectFound ==
  kind \in {"head", "header"} =>
    LET src   == text \o <<"nl", "nl">>
        lines == Lines(src)
        named == {n \in DOMAIN lines : IsPrefix(<<"S", ":">>, NoSpaces(lines[n]))}
        n     == Min(named)
        value == SubSeq(lines[n], SelectInSeq(lines[n], LAMBDA c : c = ":") + 1, Len(lines[n]))
        found == Subject(src)
        rest  == IF named = {} THEN lines ELSE RemoveAt(lines, n)
    IN  "bad" \notin ToSet(HeadOf(src)) =>
          /\ IF named = {} THEN found.value = <<>> ELSE Unspaced(found.value, 0) = Tidy(value)
          /\ LongEnough(HeadOf(src)) /\ lines # <<>> /\ HeadOf(src)[2] # "sp" =>
               NoSpaces(found.head) = NoSpaces(Flat([k \in DOMAIN rest |-> <<"nl">> \o rest[k]]))

(* What a document is made into. *)
Cet(doc) ==
  LET Element(c, e) == CASE e[1] = "text" -> addHtmlCharacter(c, e[2])
                         [] e[1] = "link" -> With(c, Append(DropLast(c.out, {"sp"}), e[2]))
                         [] OTHER         -> addTagChar(c, e[2], e[1] = "close")
  IN  FoldLeft(Element, Nothing, doc)

(* The characters of an output with the styles that each of them has.       *)
Shown(out) ==
  LET Show(f, x) == IF x \in Style THEN [f EXCEPT !.on = SymDiff(@, {x})]
                    ELSE IF Visible(x) THEN [f EXCEPT !.seen = Append(@, <<x, f.on>>)] ELSE f
  IN  FoldLeft(Show, [on |-> {}, seen |-> <<>>], out)

Result(c) == [lost |-> c.lost, open |-> c.open, shown |-> Shown(c.out)]

(* The same of a document. *)
Meant(doc) ==
  LET On(i) == {tag2char[t] : t \in ToSet(Within(SubSeq(doc, 1, i)))} \cap Style
      Char(i) == doc[i][1] = "text" /\ Visible(doc[i][2])
  IN  Flat([i \in DOMAIN doc |-> IF Char(i) THEN << <<doc[i][2], On(i)>> >> ELSE <<>>])

(* Every character of a document is shown, in its order, with the styles of *)
(* the elements it is in and no others, whatever empty elements, tables of *)
(* one cell or column, spaces and lines are removed or moved around it; no *)
(* style is left on at the end, no element is taken to be open by the text *)
(* that comes next, and the memory before the text is not used.            *)
TextStyled ==
  kind \in Documents /\ Within(text) = <<>> =>
    Result(Finished(Cet(text))) =
      [lost |-> FALSE, open |-> {}, shown |-> [on |-> {}, seen |-> Meant(text)]]

(* Words that a space, a line, a cell or an item keeps apart in a document  *)
(* are apart in what it is made into.                                      *)
WordsApart ==
  LET Apart(s, Char(_), Gap(_)) ==
        {n \in 1 .. Len(s) : \E i \in 1 .. Len(s) : \E j \in i + 1 .. Len(s) :
           /\ Char(s[i]) /\ Char(s[j]) /\ n = Cardinality({k \in 1 .. i : Char(s[k])})
           /\ \A k \in i + 1 .. j - 1 : ~Char(s[k])
           /\ \E k \in i + 1 .. j - 1 : Gap(s[k])}
      out == Finished(Cet(text)).out
  IN  kind \in Documents /\ Within(text) = <<>> =>
        Apart(text, LAMBDA e : e[1] = "text" /\ e[2] # "sp",
                    LAMBDA e : e[2] = "sp" \/ (e[1] # "text" /\ tag2char[e[2]] \notin Style))
          \subseteq Apart(out, Visible, LAMBDA x : x \notin Style)

(* What a sequence of pieces of markup means, each with its characters and  *)
(* its tags; a new line is one in preformatted text only.                  *)
Tagged(t) ==
  LET Preformatted(i) == \E j \in 1 .. i : /\ t[j].means = << <<"open", "pre">> >>
                                          /\ \A k \in j .. i : t[k].means # << <<"close", "pre">> >>
      Means(i) == IF t[i].chars # <<"nl">> THEN t[i].means
                  ELSE IF Preformatted(i) THEN << <<"void", "br">> >> ELSE << <<"text", "sp">> >>
  IN  Flat([i \in DOMAIN t |-> Means(i)])

(* The code point that bytes of UTF-8 encode, -1 if they are not UTF-8.     *)
CodePoint(b) ==
  LET lead == CASE Len(b) = 2 -> 192 [] Len(b) = 3 -> 224 [] Len(b) = 4 -> 240 [] OTHER -> 0
      size == CASE Len(b) = 2 -> 32  [] Len(b) = 3 -> 16  [] Len(b) = 4 -> 8   [] OTHER -> 128
  IN  IF b # <<>> /\ b[1] - lead \in 0 .. size - 1 /\ ToSet(Tail(b)) \subseteq 128 .. 191
      THEN FoldLeft(LAMBDA n, x : 64 * n + x - 128, b[1] - lead, Tail(b)) ELSE -1

(* Markup is read as its tags, links and text, whatever is in the values of *)
(* its attributes, in comments and style sheets, and however they are      *)
(* quoted; a numeric reference in a text as the character of that number.  *)
MarkupRead ==
  /\ kind = "markup" => html2cet(Flat([i \in DOMAIN text |-> text[i].chars])) = Finished(Cet(Tagged(text)))
  /\ kind \in {"hex", "decimal"} =>
       LET found == decodeHtmlRef(Append(text, ";") \o <<"x", "x">>)
           from  == IF kind = "hex" THEN 4 ELSE 3
           n     == Number(SubSeq(text, from, Len(text)), IF kind = "hex" THEN 16 ELSE 10)
           blank == n \in {9, 10, 160} \cup 8192 .. 8202
           none  == n \notin 32 .. 1114111 \/ n = 127
       IN  /\ found.len = Len(text) + 1
           /\ CodePoint(found.decoded) = (IF blank THEN 32 ELSE IF none THEN -1 ELSE n)

(* A numeric reference ends with its semicolon, at the end of a text too.   *)
LastReferenceRead ==
  kind \in {"hex", "decimal"} => decodeHtmlRef(Append(text, ";")).len = Len(text) + 1
=============================================================================
