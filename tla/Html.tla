-------------------------------- MODULE Html --------------------------------
(***************************************************************************)
(* What AEM-Deliver makes of a text in HTML (src/Common/Html2Cet.c and     *)
(* HtmlRefs.c): text with marks for styles, lists, tables, lines and links.*)
(* A mark is the same at the beginning and at the end of what it is for.   *)
(*                                                                         *)
(* The input is a sequence of characters, where a name, the beginning of   *)
(* an address and that or the end of what is skipped are one character.    *)
(* In the output "sp" is a space, "inv" a character of three bytes that is *)
(* not visible, "cut" what is left of one that was cut.  Of the names that *)
(* stand for the same mark or are handled alike one or two are in the      *)
(* tables below.                                                           *)
(***************************************************************************)
EXTENDS Integers, Sequences, SequencesExt, FiniteSetsExt

Style  == {"BIG", "BLD", "ITA", "MNO"}
Layout == {"TBL", "TTR", "TTD", "LOL", "LUL", "LLI"}
Link   == {"LNK", "LNKS", "FIL", "FILS"}
Marks  == Style \cup Layout \cup Link \cup {"LBR", "HRL"}

tag2char ==
  [h1 |-> "BIG", big |-> "BIG", b |-> "BLD", i |-> "ITA", pre |-> "MNO", ul |-> "LUL",
   ol |-> "LOL", li |-> "LLI", table |-> "TBL", tr |-> "TTR", td |-> "TTD", p |-> "LBR",
   br |-> "LBR", blockquote |-> "LBR", hr |-> "HRL", q |-> "quote"]

Visible(c) == c \notin Marks \cup {"sp"}

EndsIn(s, S)   == s # <<>> /\ Last(s) \in S
DropLast(s, S) == IF EndsIn(s, S) THEN Front(s) ELSE s

(* The last place at which a test holds, 0 for none. *)
LastPlace(s, Test(_)) == Max({0} \cup {i \in DOMAIN s : Test(s[i])})

Without(s, S) == SubSeq(s, 1, LastPlace(s, LAMBDA c : c \notin S))

(* The last character, disregarding styles; 0 for none. *)
prevChar(s) == LastPlace(s, LAMBDA c : c \notin Style \cup {"cut"})

-----------------------------------------------------------------------------
(* Lines. *)

Lined(s) == Append(DropLast(DropLast(s, {"sp"}), {"inv"}), "LBR")

(* A line break goes before the styles that have just begun. *)
addLbr(s, oneIsEnough, closing) ==
  LET base == IF closing THEN s ELSE Without(s, Style)
      none == \/ base = <<>>
              \/ Last(base) \in Layout \cup {"HRL"}
              \/ Last(base) = "LBR" /\ (oneIsEnough \/ EndsIn(Front(base), {"LBR"}))
  IN  IF none THEN s ELSE Lined(base) \o SubSeq(s, Len(base) + 1, Len(s))

addHrl(s) ==
  IF s = <<>> \/ Last(s) \in Layout \cup {"HRL"} THEN s
  ELSE Append(DropLast(DropLast(DropLast(DropLast(s, {"sp"}), {"LBR"}), {"LBR"}), {"inv"}), "HRL")

-----------------------------------------------------------------------------
(* Marks.  c has the output; the marks that are open (the static variable  *)
(* tagsOpen: at the beginning of a text they are what the last one left);  *)
(* and whether memory before the text was used, after which anything may   *)
(* be the case.                                                            *)

Nothing == [out |-> <<>>, open |-> {}, lost |-> FALSE]

With(c, s) == [c EXCEPT !.out = s]

Opened(c, chr) ==
  CASE chr = "TBL" ->
         LET s == IF EndsIn(c.out, {"LBR"}) /\ EndsIn(Front(c.out), {"LBR"}) THEN Front(c.out) ELSE c.out
         IN  [c EXCEPT !.out = s \o <<"TBL", "TTR", "TTD">>, !.open = @ \cup {"TBL", "TTR", "TTD"}]
    [] chr \in {"TTR", "TTD"} /\ "TBL" \notin c.open -> c
    [] "TBL" \in c.open /\ (chr = "TTR" \/ (chr = "TTD" /\ "TTR" \notin c.open)) ->
         [c EXCEPT !.out = @ \o <<"TTR", "TTD">>, !.open = @ \cup {"TTR", "TTD"}]
    [] OTHER -> [c EXCEPT !.out = Append(@, chr), !.open = @ \cup {chr}]

(* A table that has one cell is replaced by its contents, without the three *)
(* marks that it begins with and the two that it ends with; one that has   *)
(* one column by lines.  A slip, a mark too few, and the code:             *)
UnwrappedShort(c, s, begin) ==
  With(c, addLbr(addLbr(SubSeq(s, 1, begin - 1) \o SubSeq(s, begin + 3, Len(s) - 3), FALSE, TRUE), FALSE, TRUE))

Unwrapped(c, s, begin) ==
  IF Len(s) - begin + 1 < 5 THEN [c EXCEPT !.lost = TRUE]
  ELSE With(c, addLbr(addLbr(SubSeq(s, 1, begin - 1) \o SubSeq(s, begin + 3, Len(s) - 2), FALSE, TRUE), FALSE, TRUE))

RowsAsLines(s, begin) ==
  LET Row(t, x) == CASE x = "TTD" -> t
                     [] x = "TTR" -> IF t = <<>> \/ Last(t) = "LBR" THEN t ELSE Append(t, "LBR")
                     [] OTHER     -> Append(t, x)
  IN  FoldLeft(Row, SubSeq(s, 1, begin - 1), SubSeq(s, begin + 1, Len(s)))

TableClosed(c) ==
  LET s       == c.out
      top     == Len(s) - 2
      begin   == Max({0} \cup {i \in 1 .. top : s[i] = "TBL"})
      cell    == {i \in begin + 1 .. top : s[i] = "TTD"}
      row     == {i \in begin + 1 .. top : s[i] = "TTR"}
      columns == Max({0} \cup {Cardinality({k \in cell : i < k /\ ~\E r \in row : i < r /\ r < k}) : i \in row})
  IN  IF begin = 0 THEN c
      ELSE IF Cardinality(cell) < 2 THEN Unwrapped(c, s, begin)
      ELSE IF columns < 3 THEN With(c, RowsAsLines(s, begin))
      ELSE With(c, Append(s, "TBL"))

(* The mark goes before a space or lines at the end. *)
StyleClosed(s, chr) ==
  LET base == IF ~EndsIn(s, {"sp", "LBR"}) THEN s
              ELSE IF Last(s) = "LBR" /\ Len(s) > 2 /\ EndsIn(Front(s), {"LBR"}) THEN Front(Front(s))
              ELSE Front(s)
  IN  Append(base, chr) \o SubSeq(s, Len(base) + 1, Len(s))

(* An element without content goes, up to where it began: the search goes  *)
(* backwards until it finds that or the content.                           *)
Closed(c, chr) ==
  LET s       == c.out
      Halt(x) == Visible(x) \/ x = chr \/ (x = "sp" /\ chr \in Style)
      pos     == LastPlace(s, Halt)
      front   == SubSeq(s, 1, pos - 1)
      d       == [c EXCEPT !.open = @ \ {chr}]
  IN  CASE pos = 0 -> [d EXCEPT !.lost = TRUE]
        [] pos > 0 /\ s[pos] = chr ->
             With(d, IF chr \in {"TBL", "LOL", "LUL", "LLI"} THEN addLbr(front, FALSE, TRUE) ELSE front)
        [] OTHER ->
             IF chr = "TBL" THEN TableClosed(d)
             ELSE With(d, IF chr \in Style THEN StyleClosed(s, chr) ELSE Append(s, chr))

Strip(c) == With(c, Without(c.out, {"sp", "LBR"}))

(* With a row its open cell is closed, with a table its open row.           *)
LayoutClosed(c, chr) ==
  LET Close(d, x) == IF x = chr \/ x \in d.open THEN Closed(IF x = chr THEN d ELSE Strip(d), x) ELSE d
      marks == CASE chr = "TTR"                      -> <<"TTD", "TTR">>
                 [] chr = "TBL" /\ "TTR" \in c.open -> <<"TTD", "TTR", "TBL">>
                 [] OTHER                            -> <<chr>>
  IN  FoldLeft(Close, Strip(c), marks)

(* A headline has a line of its own, but for one whose end was put before   *)
(* the space at its end.                                                   *)
Header(tag) == tag = "h1"

StyleEnd(c, d, tag, chr) ==
  IF Header(tag) /\ d.out = Append(c.out, chr) THEN With(d, addLbr(d.out, TRUE, TRUE)) ELSE d

addTagChar(c, tag, closing) ==
  LET chr  == IF tag \in DOMAIN tag2char THEN tag2char[tag] ELSE ""
      line == chr = "LBR" \/ (chr = "LLI" /\ {"LOL", "LUL"} \cap c.open = {})
      d    == IF Header(tag) /\ ~closing THEN With(c, addLbr(c.out, TRUE, FALSE)) ELSE c
  IN  CASE c.lost \/ chr = ""              -> c
        [] ~c.lost /\ chr = "quote"        -> With(c, Append(c.out, chr))
        [] ~c.lost /\ line                 -> With(c, addLbr(c.out, FALSE, closing))
        [] ~c.lost /\ chr = "HRL"          -> With(c, addHrl(c.out))
        [] ~c.lost /\ ~line /\ chr \in Style \cup Layout ->
             IF closing = (chr \notin c.open) THEN d   \* open already, or not open
             ELSE IF ~closing THEN Opened(d, chr)
             ELSE IF chr \in Style THEN StyleEnd(c, Closed(c, chr), tag, chr) ELSE LayoutClosed(c, chr)

-----------------------------------------------------------------------------
(* Characters. *)

(* A space removes a character before it that is not visible, and takes as *)
(* many bytes for it as that has, from the end.                            *)
CutInvisible(s) ==
  LET p == prevChar(s)
  IN  IF p = 0 \/ s[p] # "inv" THEN s
      ELSE IF (Len(s) - p) % 3 = 0 THEN SubSeq(s, 1, p - 1) ELSE Append(SubSeq(s, 1, p - 1), "cut")

addHtmlCharacter(c, ch) ==
  LET s == IF ch = "sp" THEN CutInvisible(c.out) ELSE c.out
      p == prevChar(s)
      add == CASE ch = "sp"  -> p > 0 /\ Visible(s[p])
               [] ch = "inv" -> p > 0 /\ s[p] \notin {"inv", "sp", "LBR"} \cup Layout
               [] OTHER      -> ch # "ctl"
  IN  IF c.lost THEN c ELSE With(c, IF add THEN Append(s, ch) ELSE s)

Finished(c) == With(c, Without(c.out, {"LBR"}))

-----------------------------------------------------------------------------
(* The characters of a text.  z has the state of html2cet: what is being    *)
(* read (a name, "T1"; the inside of a tag, "T2"; what follows "=", "EQ"; a *)
(* value, "QN", "apos" or "quote" by how it is quoted; what is skipped),   *)
(* the characters since the last "<", the name, the tag, what a value is   *)
(* copied as ("" if it is not), whether a value has just begun, isPre, and *)
(* what has been made so far.                                              *)

Beginning ==
  [type |-> "TX", seen |-> <<>>, tagName |-> <<>>, tagType |-> "", copyAttr |-> "",
   first |-> FALSE, isPre |-> FALSE, cet |-> Nothing]

Quotes  == {"apos", "quote"}
Letter(ch) == ch \notin {"<", ">", "/", "=", "sp"} \cup Quotes

(* Names of 12 characters and more are not kept. *)
TooLong(name) ==
  11 < FoldLeft(LAMBDA n, ch : n + (IF ch = "blockquote" THEN 10 ELSE 1), 0, name)

Closing(name) == name # <<>> /\ ~TooLong(name) /\ name[1] = "/"

getTagByName(name) ==
  LET bare == DropLast(IF Closing(name) THEN Tail(name) ELSE name, {"/"})
  IN  IF TooLong(name) \/ Len(bare) # 1 THEN "" ELSE bare[1]

wantAttr(tag, name) ==
  CASE tag = "a" /\ name = <<"href">>                -> "LNK"
    [] tag \in {"img", "video"} /\ name = <<"src">> -> "FIL"
    [] OTHER                                        -> ""

(* The letters before "=", without the spaces between. *)
AttrName(seen) ==
  LET s == Without(seen, {"sp"})
  IN  SubSeq(s, LastPlace(s, LAMBDA ch : ~Letter(ch)) + 1, Len(s))

NameEnds(z) ==
  [z EXCEPT !.tagType = getTagByName(z.tagName), !.type = "T2",
            !.isPre = CASE z.tagName = <<"pre">>      -> TRUE
                        [] z.tagName = <<"/", "pre">> -> FALSE
                        [] OTHER                      -> @]

TagEnds(z) ==
  [z EXCEPT !.type = "TX", !.cet = addTagChar(@, z.tagType, Closing(z.tagName))]

(* An address begins: for a link its mark, without a space before it; for   *)
(* one that is copied as text a space, if there is a character before it.  *)
LinkBegins(z, ch) ==
  LET s == z.cet.out
      p == LastPlace(s, LAMBDA x : Visible(x) \/ x \in {"sp", "LBR", "HRL"})
      copy == CASE ch \in {"mailto:", "tel:"} -> "sp"
                [] ch = "http://"             -> z.copyAttr
                [] ch = "https://"            -> IF z.copyAttr = "LNK" THEN "LNKS" ELSE "FILS"
  IN  [z EXCEPT !.first = FALSE, !.copyAttr = copy,
                !.cet = With(@, IF copy # "sp" THEN Append(DropLast(s, {"sp"}), copy)
                                ELSE IF p > 0 /\ Visible(s[p]) THEN Append(s, "sp") ELSE s)]

ValueEnds(z) ==
  LET s   == z.cet.out
      add == z.copyAttr # "" /\ (z.copyAttr # "sp" \/ (s # <<>> /\ Last(s) # "sp"))
  IN  [z EXCEPT !.type = "T2", !.cet = With(@, IF add THEN Append(s, z.copyAttr) ELSE s)]

(* Any quote, and the one that the value began with. *)
EndsAtAnyQuote(type, ch) == ch \in (IF type = "QN" THEN {"sp", ">"} ELSE Quotes)
EndsValue(type, ch) == ch \in (IF type = "QN" THEN {"sp", ">"} ELSE {type})

InValue(z, ch) ==
  LET y == IF z.first THEN [z EXCEPT !.first = FALSE, !.copyAttr = ""] ELSE z
  IN  CASE z.first /\ z.copyAttr # "" /\ ch \in {"mailto:", "tel:", "http://", "https://"} -> LinkBegins(z, ch)
        [] EndsValue(y.type, ch) /\ ch # ">" -> ValueEnds(y)
        [] EndsValue(y.type, ch) /\ ch = ">" -> TagEnds(ValueEnds(y))
        [] OTHER -> IF y.copyAttr = "" THEN y ELSE [y EXCEPT !.cet = addHtmlCharacter(@, ch)]

ReadChar(z, ch) ==
  CASE z.type = "TX" ->
         (CASE ch = "<style"  -> [z EXCEPT !.type = "style"]
            [] ch = "<!--"    -> [z EXCEPT !.type = "comment"]
            [] ch = "</style" -> [z EXCEPT !.type = "T1", !.tagName = <<"/", "style">>]
            [] ch = "<"       -> [z EXCEPT !.type = "T1", !.tagName = <<>>]
            [] ch = "nl"      -> [z EXCEPT !.cet = addTagChar(@, "br", FALSE)]
            [] OTHER          -> [z EXCEPT !.cet = addHtmlCharacter(@, ch)])
    [] z.type = "style"   -> IF ch = "</style" THEN [z EXCEPT !.type = "T1", !.tagName = <<"/", "style">>] ELSE z
    [] z.type = "comment" -> IF ch = "-->" THEN [z EXCEPT !.type = "TX"] ELSE z
    [] z.type = "T1" ->
         (CASE ch = "sp" -> NameEnds(z)
            [] ch = ">"  -> TagEnds(NameEnds(z))
            [] OTHER     -> [z EXCEPT !.tagName = Append(@, ch)])
    [] z.type = "T2" ->
         (CASE ch = ">" -> TagEnds(z)
            [] ch = "=" -> [z EXCEPT !.type = "EQ", !.copyAttr = wantAttr(z.tagType, AttrName(z.seen))]
            [] OTHER    -> z)
    [] z.type = "EQ" /\ ch = "sp"       -> z
    [] z.type = "EQ" /\ ch \in Quotes   -> [z EXCEPT !.type = ch, !.first = TRUE]
    [] OTHER -> InValue(IF z.type = "EQ" THEN [z EXCEPT !.type = "QN", !.first = TRUE] ELSE z, ch)

Ended(z) == IF z.type \in {"style", "comment"} THEN z.cet ELSE Finished(z.cet)

html2cet(text) ==
  LET Char(z, ch) == IF ch = "nl" /\ ~(z.type = "TX" /\ z.isPre) THEN "sp" ELSE ch
      Step(z, ch) == [ReadChar(z, Char(z, ch)) EXCEPT !.seen = IF ch = "<" THEN <<ch>> ELSE Append(@, Char(z, ch))]
  IN  Ended(FoldLeft(Step, Beginning, text))

-----------------------------------------------------------------------------
(* Numeric references: a text is a sequence of characters, bytes are        *)
(* numbers.  The model has references of at most seven digits, so that no  *)
(* code point exceeds 28 bits.                                             *)

(* The bytes of a code point; a tab and a newline become a space, other     *)
(* control characters nothing.                                             *)
utf8char(n) ==
  LET Six(k) == 128 + ((n \div k) % 64)
  IN  CASE n \in {9, 10}                             -> <<32>>
        [] (n < 32 /\ n \notin {9, 10}) \/ n = 127   -> <<>>
        [] n \in 32 .. 126                           -> <<n>>
        [] n \in 128 .. 2047                         -> <<192 + n \div 64, Six(1)>>
        [] n \in 2048 .. 65535                       -> <<224 + n \div 4096, Six(64), Six(1)>>
        [] n \in 65536 .. 1114111                    -> <<240 + n \div 262144, Six(4096), Six(64), Six(1)>>
        [] OTHER                                     -> <<>>

Digits == <<"0", "1", "2", "3", "4", "5", "6", "7", "8", "9", "a", "b", "c", "d", "e", "f">>

Number(t, base) ==
  FoldLeft(LAMBDA n, ch : base * n + SelectInSeq(Digits, LAMBDA x : x = ch) - 1, 0, t)

(* Where the semicolon may be: the length is that of a hexadecimal one for  *)
(* both.                                                                   *)
Semicolons(t, from) == {i \in from .. from + Len(t) - 4 : t[i] = ";"}

(* The length of a reference at the beginning of t, 0 for none, and what it *)
(* stands for.                                                             *)
decodeHtmlRef(t) ==
  LET base == IF t[3] = "x" THEN 16 ELSE 10
      from == IF t[3] = "x" THEN 4 ELSE 3
      end  == Min(Semicolons(t, from))
      code == SubSeq(t, from, end - 1)
      n    == Number(code, base)
      wide == {160} \cup 8192 .. 8202
  IN  IF \/ Len(t) < 4 \/ SubSeq(t, 1, 2) # <<"&", "#">> \/ Semicolons(t, from) = {}
         \/ ~ToSet(code) \subseteq {Digits[k] : k \in 1 .. base}
      THEN [len |-> 0, decoded |-> <<>>]
      ELSE [len |-> end, decoded |-> utf8char(IF n \in wide THEN 32 ELSE n)]
=============================================================================
